------------------------ MODULE LeaderElectionProofs ------------------------
(***************************************************************************)
(* LeaderIsElected for any number of nodes, losses and restarts.           *)
(***************************************************************************)
EXTENDS LeaderElection, SequenceTheorems, TLAPS

Candidates == [node : Nodes, own : BOOLEAN]

\* etcd's first candidate bears the name of n.
Leads(n) == queue # <<>> /\ Head(queue).node = n

\* n says it is the leader, or is about to: runElection has won, or
\* observeLeader has received the node's own name.
Claims(n) == isLeader[n] \/ inbox[n] = n \/ pc[n] \in {"elected", "leading"}

ClaimsAreTrue == \A n \in Nodes : Running(n) /\ steady[n] /\ Claims(n) => Leads(n)

\* A campaign goes on without its key only after the loss of a session.
AstrayIsUnsteady == \A n \in Nodes : pc[n] = "astray" => ~steady[n]

Inv == TypeOK /\ ClaimsAreTrue /\ AstrayIsUnsteady

\* What the loss of a key leaves is a queue, with the same head if the lost
\* key was not the first.
LEMMA LossOfKey ==
    ASSUME queue \in Seq(Candidates), NEW k \in Candidates, NEW q \in Without(k)
    PROVE  /\ q \in Seq(Candidates)
           /\ queue[1] # k => q # <<>> /\ Head(q) = Head(queue)
<1>1. PICK i \in DOMAIN queue : queue[i] = k /\ q = RemoveAt(queue, i)
  BY DEF Without
<1>2. i \in 1..Len(queue) /\ Len(queue) \in Nat
  BY <1>1
<1> DEFINE a == SubSeq(queue, 1, i - 1)
           b == SubSeq(queue, i + 1, Len(queue))
<1>3. a \in Seq(Candidates) /\ b \in Seq(Candidates) /\ Len(a) = i - 1
      /\ \A j \in 1..i - 1 : a[j] = queue[j]
  BY <1>2, SubSeqProperties
<1>4. q = a \o b
  BY <1>1 DEF RemoveAt
<1>5. q \in Seq(Candidates)
  BY <1>3, <1>4, ConcatProperties
<1>6. ASSUME queue[1] # k PROVE q # <<>> /\ Head(q) = Head(queue)
  <2>1. 1 \in 1..Len(a) /\ i # 1
    BY <1>1, <1>2, <1>3, <1>6
  <2>2. q[1] = queue[1] /\ Len(q) >= 1
    BY <1>3, <1>4, <2>1, ConcatProperties
  <2> QED
    BY <1>2, <1>5, <2>2, HeadTailProperties, EmptySeq
<1> QED
  BY <1>5, <1>6

\* The key of a process that is gone keeps its name and its place.
LEMMA OrphanedKey ==
    ASSUME queue \in Seq(Candidates), NEW n \in Nodes
    PROVE  /\ Orphaned(n) \in Seq(Candidates)
           /\ queue # <<>> => Orphaned(n) # <<>> /\ Head(Orphaned(n)).node = Head(queue).node
<1>1. /\ DOMAIN queue = 1..Len(queue) /\ Len(queue) \in Nat
      /\ \A i \in DOMAIN queue : queue[i] \in Candidates
  BY ElementOfSeq
<1>2. \A c \in Candidates : [c EXCEPT !.own = FALSE] \in Candidates /\ [c EXCEPT !.own = FALSE].node = c.node
  BY DEF Candidates
<1>3. Orphaned(n) \in [1..Len(queue) -> Candidates]
  BY <1>1, <1>2 DEF Orphaned
<1>4. Orphaned(n) \in Seq(Candidates) /\ Len(Orphaned(n)) = Len(queue)
  BY <1>1, <1>3
<1>5. ASSUME queue # <<>> PROVE Orphaned(n) # <<>> /\ Head(Orphaned(n)).node = Head(queue).node
  <2>1. 1 \in DOMAIN queue
    BY <1>1, <1>5, EmptySeq
  <2>2. Orphaned(n)[1].node = queue[1].node
    BY <1>1, <1>2, <2>1 DEF Orphaned
  <2> QED
    BY <1>1, <1>4, <1>5, <2>1, <2>2, HeadTailProperties, EmptySeq
<1> QED
  BY <1>4, <1>5

\* Nobody claims anything at the start.
LEMMA InitInv == Init => Inv
<1> SUFFICES ASSUME Init PROVE Inv
  OBVIOUS
<1>1. TypeOK
  BY ElectionAssumption DEF Init, TypeOK
<1>2. ClaimsAreTrue /\ AstrayIsUnsteady
  BY ElectionAssumption DEF Init, ClaimsAreTrue, Claims, AstrayIsUnsteady
<1> QED
  BY <1>1, <1>2 DEF Inv

\* A key that is added, or that loses its process, takes the lead from nobody.
LEMMA QueueKeepsLeader ==
    ASSUME queue \in Seq(Candidates), NEW m \in Nodes,
           queue' \in {queue, Append(queue, Key(m)), Orphaned(m)}
    PROVE  queue' \in Seq(Candidates) /\ \A n \in Nodes : Leads(n) => Leads(n)'
<1>1. CASE queue' = queue
  BY <1>1 DEF Leads
<1>2. CASE queue' = Append(queue, Key(m))
  <2>1. Key(m) \in Candidates
    BY DEF Key, Candidates
  <2>2. /\ queue' \in Seq(Candidates) /\ queue' # <<>>
        /\ queue # <<>> => queue'[1] = queue[1]
    BY <1>2, <2>1, AppendProperties, EmptySeq
  <2>3. queue # <<>> => Head(queue') = Head(queue)
    BY <2>2
  <2> QED
    BY <2>2, <2>3 DEF Leads
<1>3. CASE queue' = Orphaned(m)
  BY <1>3, OrphanedKey DEF Leads
<1> QED
  BY <1>1, <1>2, <1>3

\* A key that m loses takes the lead from no other node.
LEMMA LossKeepsLeader ==
    ASSUME queue \in Seq(Candidates), NEW m \in Nodes, NEW b \in BOOLEAN,
           queue' \in Without([node |-> m, own |-> b])
    PROVE  queue' \in Seq(Candidates) /\ \A n \in Nodes \ {m} : Leads(n) => Leads(n)'
<1> DEFINE k == [node |-> m, own |-> b]
<1>1. k \in Candidates /\ k.node = m
  BY DEF Candidates
<1>2. /\ queue' \in Seq(Candidates)
      /\ queue[1] # k => queue' # <<>> /\ Head(queue') = Head(queue)
  BY <1>1, LossOfKey
<1>3. ASSUME NEW n \in Nodes \ {m}, Leads(n) PROVE Leads(n)'
  <2>1. queue[1] # k
    BY <1>1, <1>3 DEF Leads
  <2> QED
    BY <1>2, <1>3, <2>1 DEF Leads
<1> QED
  BY <1>2, <1>3

\* A step of m that keeps every other node as it is, keeps the lead of every
\* other node, and adds no claim of m that is not true.
LEMMA StepOfOne ==
    ASSUME Inv, NEW m \in Nodes,
           \A n \in Nodes \ {m} :
               /\ Running(n)' = Running(n) /\ steady'[n] = steady[n]
               /\ Claims(n)' = Claims(n) /\ (Leads(n) => Leads(n)'),
           Running(m)' /\ steady'[m] /\ Claims(m)' => Leads(m)'
    PROVE  ClaimsAreTrue'
  BY DEF Inv, ClaimsAreTrue

\* Types.
LEMMA NextTypes == Inv /\ [Next]_vars => TypeOK'
<1> SUFFICES ASSUME Inv, [Next]_vars PROVE TypeOK'
  OBVIOUS
<1>0. TypeOK /\ queue \in Seq(Candidates)
  BY DEF Inv, TypeOK, Candidates
<1>1. CASE UNCHANGED vars
  BY <1>0, <1>1 DEF TypeOK, vars
<1>2. ASSUME NEW m \in Nodes, NodeStep(m) PROVE TypeOK'
  <2>1. queue' = queue \/ queue' = Append(queue, Key(m))
    BY <1>2 DEF NodeStep, Campaign, CampaignWon, StoreElected, ReceiveLeader,
                StoreObserved, StoreStopped
  <2>2. queue' \in Seq([node : Nodes, own : BOOLEAN])
    BY <1>0, <2>1, QueueKeepsLeader DEF Candidates
  <2>3. CASE ReceiveLeader(m)
    <3>1. Head(queue).node \in Nodes
      <4>1. queue # <<>>
        BY <2>3 DEF ReceiveLeader
      <4>2. Head(queue) \in Candidates
        BY <1>0, <4>1, HeadTailProperties
      <4> QED
        BY <4>2 DEF Candidates
    <3> QED
      BY <1>0, <2>2, <2>3, <3>1 DEF ReceiveLeader, TypeOK
  <2>4. CASE Campaign(m)
    BY <1>0, <2>2, <2>4 DEF Campaign, Goto, TypeOK
  <2>5. CASE CampaignWon(m)
    BY <1>0, <2>2, <2>5 DEF CampaignWon, Goto, TypeOK
  <2>6. CASE StoreElected(m)
    BY <1>0, <2>2, <2>6 DEF StoreElected, Goto, TypeOK
  <2>7. CASE StoreObserved(m)
    BY <1>0, <2>2, <2>7 DEF StoreObserved, TypeOK
  <2>8. CASE StoreStopped(m)
    BY <1>0, <2>2, <2>8 DEF StoreStopped, Goto, TypeOK
  <2> QED
    BY <1>2, <2>3, <2>4, <2>5, <2>6, <2>7, <2>8 DEF NodeStep
<1>3. ASSUME NEW m \in Nodes, Failures(m) \/ OrphanExpires(m) PROVE TypeOK'
  <2>1. \/ queue' \in {queue, Append(queue, Key(m)), Orphaned(m)}
        \/ \E b \in BOOLEAN : queue' \in Without([node |-> m, own |-> b])
    BY <1>3 DEF Failures, OrphanExpires, ObservationEnds, SessionLost, AstrayReturns,
                CrashAndRestart, Stop, Key
  <2>2. queue' \in Seq([node : Nodes, own : BOOLEAN])
    BY <1>0, <2>1, QueueKeepsLeader, LossKeepsLeader DEF Candidates
  <2>3. losses' \in 0..MaxLosses /\ restarts' \in 0..MaxRestarts
    BY <1>0, <1>3, ElectionAssumption
       DEF Failures, OrphanExpires, ObservationEnds, SessionLost, AstrayReturns,
           CrashAndRestart, Stop, TypeOK
  <2>4. CASE ObservationEnds(m)
    BY <1>0, <2>2, <2>3, <2>4 DEF ObservationEnds, TypeOK
  <2>5. CASE SessionLost(m)
    BY <1>0, <2>2, <2>3, <2>5 DEF SessionLost, TypeOK
  <2>6. CASE CrashAndRestart(m)
    BY <1>0, <2>2, <2>3, <2>6 DEF CrashAndRestart, Goto, TypeOK
  <2>9. CASE AstrayReturns(m)
    BY <1>0, <2>2, <2>3, <2>9 DEF AstrayReturns, Goto, TypeOK
  <2>7. CASE Stop(m)
    BY <1>0, <2>2, <2>3, <2>7 DEF Stop, TypeOK
  <2>8. CASE OrphanExpires(m)
    BY <1>0, <2>2, <2>3, <2>8 DEF OrphanExpires, TypeOK
  <2> QED
    BY <1>3, <2>4, <2>5, <2>6, <2>7, <2>8, <2>9 DEF Failures
<1> QED
  BY <1>1, <1>2, <1>3 DEF Next

\* The writes of runElection and observeLeader repeat what etcd has said and
\* still says, whatever happens to the sessions of other nodes.
LEMMA NextClaims == Inv /\ [Next]_vars => ClaimsAreTrue'
<1> SUFFICES ASSUME Inv, [Next]_vars PROVE ClaimsAreTrue'
  OBVIOUS
<1>0. /\ queue \in Seq(Candidates)
      /\ pc \in [Nodes -> {"start", "waiting", "astray", "elected", "leading",
                           "out", "stopping", "stopped"}]
      /\ inbox \in [Nodes -> Nodes \cup {Nobody}]
      /\ isLeader \in [Nodes -> BOOLEAN] /\ steady \in [Nodes -> BOOLEAN]
      /\ ClaimsAreTrue
  BY DEF Inv, TypeOK, Candidates
<1>1. CASE UNCHANGED vars
  BY <1>0, <1>1 DEF ClaimsAreTrue, Running, Claims, Leads, vars
<1>2. ASSUME NEW m \in Nodes, NodeStep(m) PROVE ClaimsAreTrue'
  <2>1. queue' \in {queue, Append(queue, Key(m))} /\ steady' = steady
    BY <1>2 DEF NodeStep, Campaign, CampaignWon, StoreElected, ReceiveLeader,
                StoreObserved, StoreStopped
  <2>2. \A n \in Nodes : Leads(n) => Leads(n)'
    BY <1>0, <2>1, QueueKeepsLeader
  <2>3. ASSUME NEW n \in Nodes \ {m}
        PROVE  pc'[n] = pc[n] /\ inbox'[n] = inbox[n] /\ isLeader'[n] = isLeader[n]
    BY <1>0, <1>2, <2>3
       DEF NodeStep, Campaign, CampaignWon, StoreElected, ReceiveLeader,
           StoreObserved, StoreStopped, Goto
  <2>4. \A n \in Nodes \ {m} : Running(n)' = Running(n) /\ Claims(n)' = Claims(n)
    BY <2>3 DEF Running, Claims
  <2>5. ASSUME Running(m)', steady'[m], Claims(m)' PROVE Leads(m)'
    <3>1. CASE Campaign(m) \/ StoreElected(m) \/ StoreObserved(m) \/ StoreStopped(m)
      <4>1. Running(m) /\ Claims(m)
        BY <1>0, <2>5, <3>1, ElectionAssumption
           DEF Campaign, StoreElected, StoreObserved, StoreStopped, Goto, Running, Claims
      <4> QED
        BY <1>0, <2>1, <2>2, <2>5, <4>1 DEF ClaimsAreTrue
    <3>2. CASE CampaignWon(m)
      <4>1. Leads(m)
        BY <3>2 DEF CampaignWon, Leads, Key
      <4> QED
        BY <2>2, <4>1
    <3>3. CASE ReceiveLeader(m)
      <4>1. CASE Head(queue).node = m
        BY <2>2, <3>3, <4>1 DEF ReceiveLeader, Leads
      <4>2. CASE Head(queue).node # m
        <5>1. Running(m) /\ Claims(m)
          BY <1>0, <2>5, <3>3, <4>2 DEF ReceiveLeader, Running, Claims
        <5> QED
          BY <1>0, <2>1, <2>2, <2>5, <5>1 DEF ClaimsAreTrue
      <4> QED
        BY <4>1, <4>2
    <3> QED
      BY <1>2, <3>1, <3>2, <3>3 DEF NodeStep
  <2> QED
    BY <2>1, <2>2, <2>4, <2>5, StepOfOne
<1>3. ASSUME NEW m \in Nodes, Failures(m) \/ OrphanExpires(m) PROVE ClaimsAreTrue'
  <2>1. \/ queue' \in {queue, Append(queue, Key(m)), Orphaned(m)}
        \/ \E b \in BOOLEAN : queue' \in Without([node |-> m, own |-> b])
    BY <1>3 DEF Failures, OrphanExpires, ObservationEnds, SessionLost, AstrayReturns,
                CrashAndRestart, Stop, Key
  <2>2. \A n \in Nodes \ {m} : Leads(n) => Leads(n)'
    BY <1>0, <2>1, QueueKeepsLeader, LossKeepsLeader
  <2>3. ASSUME NEW n \in Nodes \ {m}
        PROVE  /\ pc'[n] = pc[n] /\ inbox'[n] = inbox[n] /\ isLeader'[n] = isLeader[n]
               /\ steady'[n] = steady[n]
    BY <1>0, <1>3, <2>3
       DEF Failures, OrphanExpires, ObservationEnds, SessionLost, AstrayReturns,
           CrashAndRestart, Stop, Goto
  <2>4. \A n \in Nodes \ {m} :
          Running(n)' = Running(n) /\ Claims(n)' = Claims(n) /\ steady'[n] = steady[n]
    BY <2>3 DEF Running, Claims
  <2>5. ~(Running(m)' /\ steady'[m] /\ Claims(m)')
    <3>1. CASE ObservationEnds(m) \/ SessionLost(m) \/ OrphanExpires(m)
      BY <1>0, <3>1 DEF ObservationEnds, SessionLost, OrphanExpires
    <3>2. CASE CrashAndRestart(m)
      BY <1>0, <3>2, ElectionAssumption DEF CrashAndRestart, Goto, Claims
    <3>3. CASE Stop(m)
      BY <1>0, <3>3 DEF Stop, Running
    <3>4. CASE AstrayReturns(m)
      BY <1>0, <3>4 DEF AstrayReturns, Inv, AstrayIsUnsteady
    <3> QED
      BY <1>3, <3>1, <3>2, <3>3, <3>4 DEF Failures
  <2> QED
    BY <2>2, <2>4, <2>5, StepOfOne
<1> QED
  BY <1>1, <1>2, <1>3 DEF Next

\* Only SessionLost leaves a campaign without its key, and it is remembered.
LEMMA NextAstray == Inv /\ [Next]_vars => AstrayIsUnsteady'
<1> SUFFICES ASSUME Inv, [Next]_vars PROVE AstrayIsUnsteady'
  OBVIOUS
<1> USE DEF Inv, TypeOK, AstrayIsUnsteady
<1>1. CASE UNCHANGED vars
  BY <1>1 DEF vars
<1>2. ASSUME NEW m \in Nodes, NodeStep(m) PROVE AstrayIsUnsteady'
  BY <1>2 DEF NodeStep, Campaign, CampaignWon, StoreElected, ReceiveLeader,
              StoreObserved, StoreStopped, Goto
<1>3. ASSUME NEW m \in Nodes, Failures(m) PROVE AstrayIsUnsteady'
  BY <1>3 DEF Failures, ObservationEnds, SessionLost, AstrayReturns,
              CrashAndRestart, Stop, Goto
<1>4. ASSUME NEW m \in Nodes, OrphanExpires(m) PROVE AstrayIsUnsteady'
  BY <1>4 DEF OrphanExpires
<1> QED
  BY <1>1, <1>2, <1>3, <1>4 DEF Next

-----------------------------------------------------------------------------
(* The theorems. *)

\* The claims of both goroutines, with the types, are inductive.
THEOREM InvHolds == Spec => []Inv
<1>1. Inv /\ [Next]_vars => Inv'
  BY NextTypes, NextClaims, NextAstray DEF Inv
<1> QED
  BY <1>1, InitInv, PTL DEF Spec

\* Type correctness of the coordinators and of etcd's queue.
THEOREM TypesHold == Spec => []TypeOK
<1>1. Inv => TypeOK
  BY DEF Inv
<1> QED
  BY <1>1, InvHolds, PTL

\* IsLeader of a node whose session has held is true only while etcd's first
\* candidate bears its name, for any number of nodes.
THEOREM LeadersAreElected == Spec => []LeaderIsElected
<1>1. Inv => LeaderIsElected
  BY DEF Inv, ClaimsAreTrue, Claims, Leads, LeaderIsElected
<1> QED
  BY <1>1, InvHolds, PTL

\* n tells its relay that it is the leader, and its sessions have held so far.
SaysItLeads(n) == Running(n) /\ steady[n] /\ isLeader[n]

\* IsLeader is true on one node at most of those that run and whose sessions
\* have held: only a node that etcd has given up may be a second leader.
THEOREM OneSteadyLeader ==
    Spec => [](\A m, n \in Nodes : SaysItLeads(m) /\ SaysItLeads(n) => m = n)
<1>1. LeaderIsElected =>
        \A m, n \in Nodes : SaysItLeads(m) /\ SaysItLeads(n) => m = n
  BY DEF LeaderIsElected, SaysItLeads
<1> QED
  BY <1>1, LeadersAreElected, PTL
=============================================================================
