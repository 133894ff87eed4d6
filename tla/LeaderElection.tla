--------------------------- MODULE LeaderElection ---------------------------
(***************************************************************************)
(* Leader election (internal/modules/etcdcoord): what IsLeader() answers   *)
(* on each node, and which candidate etcd regards as the leader.           *)
(*                                                                         *)
(* etcd is external.  It keeps one key per candidate, in the order of      *)
(* creation; the leader is the first.  A key goes away when its session    *)
(* is closed or has not been heard of for the TTL.  The key carries only   *)
(* the node's name, so the key of a crashed process reads like the key of  *)
(* the process that was started in its place.                              *)
(*                                                                         *)
(* Two goroutines of a node write isLeader: runElection, once, when its    *)
(* campaign succeeds, and observeLeader, for every leader etcd reports.    *)
(***************************************************************************)
EXTENDS Integers, Sequences, SequencesExt

CONSTANTS
    Nodes,
    Nobody,       \* no leader heard of
    MaxLosses,    \* bound: sessions lost and observations ended
    MaxRestarts   \* bound: crashes with restart, and graceful stops

ASSUME ElectionAssumption ==
    /\ Nobody \notin Nodes
    /\ MaxLosses \in Nat
    /\ MaxRestarts \in Nat

VARIABLES
    queue,      \* candidate keys in etcd; own = FALSE once the process is gone
    pc,         \* per node: where runElection is
    observing,  \* per node: the channel of Observe is open
    inbox,      \* per node: a leader received and not yet stored
    lastSeen,   \* per node: the leader last received
    isLeader,
    leaderID,
    losses, restarts,
    steady      \* history: no session of the node and no observation failed

vars == <<queue, pc, observing, inbox, lastSeen, isLeader, leaderID, losses,
          restarts, steady>>

TypeOK ==
    /\ queue \in Seq([node : Nodes, own : BOOLEAN])
    /\ pc \in [Nodes -> {"start", "waiting", "astray", "elected", "leading",
                         "out", "stopping", "stopped"}]
    /\ observing \in [Nodes -> BOOLEAN]
    /\ inbox \in [Nodes -> Nodes \cup {Nobody}]
    /\ lastSeen \in [Nodes -> Nodes \cup {Nobody}]
    /\ isLeader \in [Nodes -> BOOLEAN]
    /\ leaderID \in [Nodes -> Nodes \cup {Nobody}]
    /\ losses \in 0..MaxLosses
    /\ restarts \in 0..MaxRestarts
    /\ steady \in [Nodes -> BOOLEAN]

Init ==
    /\ queue = <<>>
    /\ pc = [n \in Nodes |-> "start"]
    /\ observing = [n \in Nodes |-> TRUE]
    /\ inbox = [n \in Nodes |-> Nobody]
    /\ lastSeen = [n \in Nodes |-> Nobody]
    /\ isLeader = [n \in Nodes |-> FALSE]
    /\ leaderID = [n \in Nodes |-> Nobody]
    /\ losses = 0
    /\ restarts = 0
    /\ steady = [n \in Nodes |-> TRUE]

Goto(n, label) == pc' = [pc EXCEPT ![n] = label]

Key(n) == [node |-> n, own |-> TRUE]

\* The queue after the loss of one key that reads k.
Without(k) == {RemoveAt(queue, i) : i \in {j \in DOMAIN queue : queue[j] = k}}

\* The queue when the process of n is gone and its key is not.
Orphaned(n) ==
    [i \in DOMAIN queue |-> IF queue[i].node = n
                              THEN [queue[i] EXCEPT !.own = FALSE]
                              ELSE queue[i]]

Running(n) == pc[n] \notin {"stopping", "stopped"}

-----------------------------------------------------------------------------
(* runElection: one campaign, and no other after it.                       *)

Campaign(n) ==
    /\ pc[n] = "start"
    /\ queue' = Append(queue, Key(n))
    /\ Goto(n, "waiting")
    /\ UNCHANGED <<observing, inbox, lastSeen, isLeader, leaderID, losses,
                   restarts, steady>>

CampaignWon(n) ==
    /\ pc[n] = "waiting"
    /\ queue # <<>> /\ Head(queue) = Key(n)
    /\ Goto(n, "elected")
    /\ UNCHANGED <<queue, observing, inbox, lastSeen, isLeader, leaderID,
                   losses, restarts, steady>>

StoreElected(n) ==
    /\ pc[n] = "elected"
    /\ isLeader' = [isLeader EXCEPT ![n] = TRUE]
    /\ leaderID' = [leaderID EXCEPT ![n] = n]
    /\ Goto(n, "leading")
    /\ UNCHANGED <<queue, observing, inbox, lastSeen, losses, restarts, steady>>

-----------------------------------------------------------------------------
(* observeLeader.                                                          *)

ReceiveLeader(n) ==
    /\ Running(n) /\ observing[n]
    /\ inbox[n] = Nobody
    /\ queue # <<>> /\ Head(queue).node # lastSeen[n]
    /\ inbox' = [inbox EXCEPT ![n] = Head(queue).node]
    /\ lastSeen' = [lastSeen EXCEPT ![n] = Head(queue).node]
    /\ UNCHANGED <<queue, pc, observing, isLeader, leaderID, losses, restarts,
                   steady>>

\* Mutant: the answer of the comparison is stored as the name of the leader.
StoreObservedMixed(n) ==
    /\ inbox[n] # Nobody
    /\ leaderID' = [leaderID EXCEPT ![n] = (inbox[n] = n)]
    /\ isLeader' = [isLeader EXCEPT ![n] = (inbox[n] = n)]
    /\ inbox' = [inbox EXCEPT ![n] = Nobody]
    /\ UNCHANGED <<queue, pc, observing, lastSeen, losses, restarts, steady>>

\* Mutant: any leader counts.
StoreObservedAny(n) ==
    /\ inbox[n] # Nobody
    /\ leaderID' = [leaderID EXCEPT ![n] = inbox[n]]
    /\ isLeader' = [isLeader EXCEPT ![n] = TRUE]
    /\ inbox' = [inbox EXCEPT ![n] = Nobody]
    /\ UNCHANGED <<queue, pc, observing, lastSeen, losses, restarts, steady>>

\* Mutant: the observer only ever clears the flag.
StoreObservedClears(n) ==
    /\ inbox[n] # Nobody
    /\ leaderID' = [leaderID EXCEPT ![n] = inbox[n]]
    /\ isLeader' = [isLeader EXCEPT ![n] = @ /\ inbox[n] = n]
    /\ inbox' = [inbox EXCEPT ![n] = Nobody]
    /\ UNCHANGED <<queue, pc, observing, lastSeen, losses, restarts, steady>>

StoreObserved(n) ==
    /\ inbox[n] # Nobody
    /\ leaderID' = [leaderID EXCEPT ![n] = inbox[n]]
    /\ isLeader' = [isLeader EXCEPT ![n] = (inbox[n] = n)]
    /\ inbox' = [inbox EXCEPT ![n] = Nobody]
    /\ UNCHANGED <<queue, pc, observing, lastSeen, losses, restarts, steady>>

\* The channel is closed: observeLeader returns and leaves isLeader as it is.
ObservationEnds(n) ==
    /\ Running(n) /\ observing[n] /\ inbox[n] = Nobody
    /\ losses < MaxLosses
    /\ losses' = losses + 1
    /\ observing' = [observing EXCEPT ![n] = FALSE]
    /\ steady' = [steady EXCEPT ![n] = FALSE]
    /\ UNCHANGED <<queue, pc, inbox, lastSeen, isLeader, leaderID, restarts>>

-----------------------------------------------------------------------------
(* Sessions, crashes and Stop.                                             *)

\* etcd has not heard of the session for the TTL.  Neither a waiting campaign nor
\* runElection, once elected, watches the session: the campaign goes on without
\* its key.
SessionLost(n) ==
    /\ losses < MaxLosses
    /\ losses' = losses + 1
    /\ pc[n] \in {"waiting", "elected", "leading"}
    /\ queue' \in Without(Key(n))
    /\ pc' = [pc EXCEPT ![n] = IF @ = "waiting" THEN "astray" ELSE @]
    /\ steady' = [steady EXCEPT ![n] = FALSE]
    /\ UNCHANGED <<observing, inbox, lastSeen, isLeader, leaderID, restarts>>

\* A campaign without a key ends with an error, or succeeds once the keys before
\* its own are gone: which ones these were, and so when, is left open.
AstrayReturns(n) ==
    /\ pc[n] = "astray"
    /\ \E label \in {"elected", "out"} : Goto(n, label)
    /\ UNCHANGED <<queue, observing, inbox, lastSeen, isLeader, leaderID, losses,
                   restarts, steady>>

\* The process dies and is started again under its name.  Its key stays in etcd
\* until the TTL has passed.
CrashAndRestart(n) ==
    /\ restarts < MaxRestarts
    /\ restarts' = restarts + 1
    /\ pc[n] # "start"
    /\ queue' = Orphaned(n)
    /\ Goto(n, "start")
    /\ observing' = [observing EXCEPT ![n] = TRUE]
    /\ inbox' = [inbox EXCEPT ![n] = Nobody]
    /\ lastSeen' = [lastSeen EXCEPT ![n] = Nobody]
    /\ isLeader' = [isLeader EXCEPT ![n] = FALSE]
    /\ leaderID' = [leaderID EXCEPT ![n] = Nobody]
    /\ UNCHANGED <<losses, steady>>

OrphanExpires(n) ==
    /\ queue' \in Without([node |-> n, own |-> FALSE])
    /\ steady' = [steady EXCEPT ![n] = FALSE]
    /\ UNCHANGED <<pc, observing, inbox, lastSeen, isLeader, leaderID, losses,
                   restarts>>

\* Stop cancels the context and closes the session, which may fail: the error is
\* dropped and the key stays for the TTL ...
Stop(n) ==
    /\ restarts < MaxRestarts
    /\ restarts' = restarts + 1
    /\ Running(n)
    /\ queue' \in Without(Key(n)) \cup {Orphaned(n)}
    /\ pc' = [pc EXCEPT ![n] = IF @ \in {"elected", "leading"} THEN "stopping"
                                                              ELSE "stopped"]
    /\ UNCHANGED <<observing, inbox, lastSeen, isLeader, leaderID, losses,
                   steady>>

\* ... and runElection, woken by the context, clears isLeader.  A campaign that
\* was cancelled returns without doing so.
StoreStopped(n) ==
    /\ pc[n] = "stopping"
    /\ isLeader' = [isLeader EXCEPT ![n] = FALSE]
    /\ Goto(n, "stopped")
    /\ UNCHANGED <<queue, observing, inbox, lastSeen, leaderID, losses,
                   restarts, steady>>

-----------------------------------------------------------------------------
NodeStep(n) ==
    \/ Campaign(n)
    \/ CampaignWon(n)
    \/ StoreElected(n)
    \/ ReceiveLeader(n)
    \/ StoreObserved(n)
    \/ StoreStopped(n)

Failures(n) ==
    \/ ObservationEnds(n)
    \/ SessionLost(n)
    \/ AstrayReturns(n)
    \/ CrashAndRestart(n)
    \/ Stop(n)

Next == \E n \in Nodes : NodeStep(n) \/ Failures(n) \/ OrphanExpires(n)

Spec == Init /\ [][Next]_vars

\* Goroutines run, etcd answers, and the TTL of a dead process passes.
FairSpec ==
    /\ Spec
    /\ \A n \in Nodes : WF_vars(NodeStep(n)) /\ WF_vars(OrphanExpires(n))

-----------------------------------------------------------------------------
\* A node whose sessions have held says it is the leader only while etcd's first
\* candidate bears its name: no order of the writes of runElection and
\* observeLeader, and no failure of other nodes, makes it claim a leadership etcd
\* gave to somebody else.
LeaderIsElected ==
    \A n \in Nodes :
        Running(n) /\ steady[n] /\ isLeader[n] =>
            queue # <<>> /\ Head(queue).node = n

\* The elected node learns of it and keeps to it: whatever the order of the
\* campaign's write and of late observations, a running node that etcd's first
\* candidate names from some moment on, and whose observation works, answers from
\* some moment on that it is the leader.
ElectedNodeLeads ==
    \A n \in Nodes :
        <>[](/\ Running(n) /\ steady[n]
             /\ queue # <<>> /\ Head(queue).node = n) => <>[]isLeader[n]

\* The relay works again after a failure: running nodes whose observation works do
\* not stay without a leader for ever.
LeaderReturns ==
    []<>(\/ \E n \in Nodes : isLeader[n]
         \/ \A n \in Nodes : ~(Running(n) /\ observing[n]))
=============================================================================
