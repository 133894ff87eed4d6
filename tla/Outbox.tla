------------------------------- MODULE Outbox -------------------------------
(***************************************************************************)
(* The transactional outbox of the control plane: publish requests, the    *)
(* relay loop of every node, dead-letter replay and dead-letter cleanup,   *)
(* all sharing the tables of module OutboxTables and the message broker.   *)
(*                                                                         *)
(* A process is one HTTP request (a publish or a replay) or one background *)
(* loop of a node.  Its pc names the statement it executes next; job holds *)
(* the local variables of the call.  Every store call may fail before or   *)
(* after it took effect, every publish may be stored with its answer lost, *)
(* and every process may crash between two statements.                     *)
(***************************************************************************)
EXTENDS OutboxTables

CONSTANTS
    Handlers,         \* publish requests; each is served once
    Nodes,            \* control-plane nodes; each runs one relay loop
    Admins,           \* dead-letter replay requests; each is served once
    Cleaners,         \* cleanup loops, one per node of a deployment
    PublishRetryMax,  \* PUBLISH_RETRY_MAX, at least 1
    BatchSize,        \* OUTBOX_RELAY_BATCH_SIZE, at least 1
    FetchLimit,       \* rows PendingOutboxEvents reads: max(5 * BatchSize, 100)
    CleanupBatch,     \* CLEANUP_BATCH_SIZE, at least 1
    MaxClock,         \* bound: distinct quarantine times
    MaxFaults,        \* bound: failed store calls and crashes
    Switched          \* bound: nodes whose IsLeader() and pause flag change

ASSUME LimitsAssumption ==
    /\ PublishRetryMax \in Nat \ {0}
    /\ BatchSize \in Nat \ {0}
    /\ FetchLimit \in Nat \ {0}
    /\ CleanupBatch \in Nat \ {0}
    /\ MaxClock \in Nat
    /\ MaxFaults \in Nat
    /\ Switched \subseteq Nodes

ASSUME ProcsAssumption ==
    /\ Handlers \cap Nodes = {}
    /\ (Handlers \cup Nodes) \cap (Admins \cup Cleaners) = {}
    /\ Admins \cap Cleaners = {}

Procs == Handlers \cup Nodes \cup Admins \cup Cleaners

VARIABLES
    broker,    \* the events stored in the JetStream stream
    pc,        \* the next statement of each process
    job,       \* the local variables of the call a process is in
    rows,      \* per node: page of outbox_by_state still to be filtered
    batch,     \* per node: pending events still to be relayed
    doomed,    \* per cleaner: dead letters it has read and will delete
    leader,    \* the nodes whose coordinator answers IsLeader() = true
    paused,    \* the nodes whose relay an operator has paused
    clock,     \* the time written to quarantined_at
    faults,    \* failed store calls and crashes so far
    expired,   \* the requests and relays whose context is done
    failures,  \* history: per event, failed publish runs the store recorded
    lapsed,    \* history: relays whose lease ran out under them
    excused    \* history: events whose dead letter was not written or deleted

procVars == <<pc, job, rows, batch, doomed>>
envVars  == <<leader, paused, clock>>
history  == <<failures, lapsed, excused>>
vars     == <<tables, broker, procVars, envVars, faults, expired, history>>

-----------------------------------------------------------------------------
(* Local state of the processes.                                           *)

Job == [ev : Nat, attempt : Nat, count : Nat, at : Nat]

NoJob == [ev |-> 0, attempt |-> 0, count |-> 0, at |-> 0]

Working == {"publish", "mark", "count", "record", "deadletter"}

Answered == {"created", "queued", "failed"}

Labels == {"start", "idle", "scan", "claim", "requeue", "purge", "done"}
            \cup Working \cup Answered

Start(p) == IF p \in Handlers \cup Admins THEN "start" ELSE "idle"

TypeOK ==
    /\ TablesTypeOK
    /\ broker \subseteq Events
    /\ pc \in [Procs -> Labels]
    /\ job \in [Procs -> Job]
    /\ rows \in [Nodes -> SUBSET Events]
    /\ batch \in [Nodes -> SUBSET Events]
    /\ doomed \in [Cleaners -> SUBSET (Nat \X Events)]
    /\ leader \subseteq Nodes
    /\ paused \subseteq Nodes
    /\ clock \in Nat
    /\ faults \in Nat
    /\ failures \in [Events -> Nat]
    /\ expired \subseteq Procs
    /\ lapsed \subseteq Nodes
    /\ excused \subseteq Events

Init ==
    /\ TablesInit
    /\ broker = {}
    /\ pc = [p \in Procs |-> Start(p)]
    /\ job = [p \in Procs |-> NoJob]
    /\ rows = [n \in Nodes |-> {}]
    /\ batch = [n \in Nodes |-> {}]
    /\ doomed = [c \in Cleaners |-> {}]
    /\ leader = Nodes
    /\ paused = {}
    /\ clock = 1
    /\ faults = 0
    /\ failures = [e \in Events |-> 0]
    /\ expired = {}
    /\ lapsed = {}
    /\ excused = {}

Goto(p, label) == pc' = [pc EXCEPT ![p] = label]

\* The outcome of a write: it took effect, or failed, or both (the answer
\* was lost, the circuit breaker refused it).  With its context done a call
\* fails, whether or not the statement was under way.
Outcome(p, applied, err) ==
    /\ applied \/ err
    /\ p \in expired => err
    /\ err => p \in expired \/ faults < MaxFaults
    /\ faults' = IF err /\ p \notin expired THEN faults + 1 ELSE faults

\* A read that failed.
ReadError(p) ==
    /\ p \in expired \/ faults < MaxFaults
    /\ faults' = IF p \in expired THEN faults ELSE faults + 1

\* A call of p that needs its context succeeds.
InTime(p) == p \notin expired

\* The context of p is cancelled: the call it belongs to returns.
Cancel(p) == expired' = expired \ {p}

\* p is done with its event: a request answers its client and a relay goes
\* on with its batch, under the context of the tick.
Leave(p, answer) ==
    /\ Goto(p, IF p \in Handlers THEN answer ELSE "claim")
    /\ job' = [job EXCEPT ![p] =
                 IF p \in Handlers THEN [NoJob EXCEPT !.ev = job[p].ev]
                                   ELSE NoJob]
    /\ expired' = expired \ ({p} \cap Handlers)

-----------------------------------------------------------------------------
(* handlePublishEvent, from the call of AppendEventExactlyOnce on.         *)

AppendNew(h) ==
    /\ pc[h] = "start"
    /\ \E e \in Events, applied, err \in BOOLEAN :
         /\ outbox[e] = "none"
         /\ Outcome(h, applied, err)
         /\ IF applied THEN InsertEvent(e) ELSE UNCHANGED tables
         /\ Goto(h, IF err THEN "failed" ELSE "publish")
         /\ IF err THEN Cancel(h) ELSE UNCHANGED expired
         /\ job' = [job EXCEPT ![h].ev = IF err THEN 0 ELSE e]
    /\ UNCHANGED <<broker, rows, batch, doomed, envVars, history>>

\* Mutant: a duplicate is answered as if its event had been published.
AppendDuplicateTrusts(h) ==
    /\ pc[h] = "start"
    /\ InTime(h)
    /\ \E e \in Events :
         /\ outbox[e] # "none"
         /\ Goto(h, "created")
         /\ job' = [job EXCEPT ![h].ev = e]
    /\ UNCHANGED <<tables, broker, rows, batch, doomed, envVars, faults,
                   expired, history>>

\* The idempotency key is bound to a stored event.
AppendDuplicate(h) ==
    /\ pc[h] = "start"
    /\ InTime(h)
    /\ \E e \in Events :
         /\ outbox[e] # "none"
         /\ Goto(h, IF outbox[e] = "published" THEN "created" ELSE "publish")
         /\ job' = [job EXCEPT ![h].ev = e]
    /\ UNCHANGED <<tables, broker, rows, batch, doomed, envVars, faults,
                   expired, history>>

AppendError(h) ==
    /\ pc[h] = "start"
    /\ ReadError(h)
    /\ Goto(h, "failed")
    /\ Cancel(h)
    /\ UNCHANGED <<tables, broker, job, rows, batch, doomed, envVars,
                   history>>

-----------------------------------------------------------------------------
(* publishWithRetry and what follows it, in requests and in relays.  A     *)
(* request publishes without holding a lease.                              *)

PublishAck(p) ==
    /\ pc[p] = "publish"
    /\ InTime(p)
    /\ broker' = broker \cup {job[p].ev}
    /\ Goto(p, "mark")
    /\ job' = [job EXCEPT ![p].attempt = 0]
    /\ UNCHANGED <<tables, rows, batch, doomed, envVars, faults, expired, history>>

\* Publish sends nothing once the context is done.
Sent(p) == IF InTime(p) THEN {job[p].ev} ELSE {}

\* Mutant: the error of the last attempt is dropped.
PublishErrorDropped(p) ==
    /\ pc[p] = "publish"
    /\ broker' \in {broker} \cup {broker \cup {e} : e \in Sent(p)}
    /\ IF InTime(p) /\ job[p].attempt + 1 < PublishRetryMax
       THEN \* the timer fires: next attempt
            /\ job' = [job EXCEPT ![p].attempt = @ + 1]
            /\ UNCHANGED pc
       ELSE \* the last attempt, or the context is done
            /\ job' = [job EXCEPT ![p].attempt = 0]
            /\ Goto(p, "mark")
    /\ UNCHANGED <<tables, rows, batch, doomed, envVars, faults, expired,
                   history>>

\* An attempt failed: refused by the open circuit, not stored, or stored with
\* the answer lost.
PublishError(p) ==
    /\ pc[p] = "publish"
    /\ broker' \in {broker} \cup {broker \cup {e} : e \in Sent(p)}
    /\ IF InTime(p) /\ job[p].attempt + 1 < PublishRetryMax
       THEN \* the timer fires: next attempt
            /\ job' = [job EXCEPT ![p].attempt = @ + 1]
            /\ UNCHANGED pc
       ELSE \* the last attempt, or the context is done
            /\ job' = [job EXCEPT ![p].attempt = 0]
            /\ Goto(p, "count")
    /\ UNCHANGED <<tables, rows, batch, doomed, envVars, faults, expired,
                   history>>

MarkOutboxPublished(p) ==
    /\ pc[p] = "mark"
    /\ \E applied, err \in BOOLEAN :
         /\ Outcome(p, applied, err)
         /\ IF applied THEN MarkPublished(job[p].ev) ELSE UNCHANGED tables
         /\ excused' = IF applied THEN excused \ {job[p].ev} ELSE excused
         /\ Leave(p, IF err THEN "failed" ELSE "created")
    /\ UNCHANGED <<broker, rows, batch, doomed, envVars, failures, lapsed>>

\* Mutant: a failure that cannot be recorded is answered like a success.
ReadRetryCountHides(p) ==
    /\ pc[p] = "count"
    /\ \/ /\ InTime(p)
          /\ job' = [job EXCEPT ![p].count = retry[job[p].ev].count + 1]
          /\ Goto(p, "record")
          /\ UNCHANGED <<faults, expired>>
       \/ /\ ReadError(p)
          /\ Leave(p, "created")
    /\ UNCHANGED <<tables, broker, rows, batch, doomed, envVars, history>>

\* RecordOutboxFailure: the read of retry_count ...
ReadRetryCount(p) ==
    /\ pc[p] = "count"
    /\ \/ /\ InTime(p)
          /\ job' = [job EXCEPT ![p].count = retry[job[p].ev].count + 1]
          /\ Goto(p, "record")
          /\ UNCHANGED <<faults, expired>>
       \/ /\ ReadError(p)
          /\ Leave(p, "queued")
    /\ UNCHANGED <<tables, broker, rows, batch, doomed, envVars, history>>

\* Mutant: the failure that quarantines the event writes no dead letter.
WriteRetryStateShy(p) ==
    /\ pc[p] = "record"
    /\ \E applied, err \in BOOLEAN :
         /\ Outcome(p, applied, err)
         /\ IF applied THEN UpdateRetryState(job[p].ev, job[p].count)
                       ELSE UNCHANGED tables
         /\ IF err \/ job[p].count <= QuarantineAfter
            THEN Leave(p, "queued")
            ELSE /\ Goto(p, "deadletter")
                 /\ job' = [job EXCEPT ![p].at = clock]
                 /\ UNCHANGED expired
         /\ failures' = IF applied THEN [failures EXCEPT ![job[p].ev] = @ + 1]
                                   ELSE failures
         /\ excused' = IF applied /\ err /\ job[p].count >= QuarantineAfter
                       THEN excused \cup {job[p].ev}
                       ELSE excused
    /\ UNCHANGED <<broker, rows, batch, doomed, envVars, lapsed>>

\* ... the update of the retry state ...
WriteRetryState(p) ==
    /\ pc[p] = "record"
    /\ \E applied, err \in BOOLEAN :
         /\ Outcome(p, applied, err)
         /\ IF applied THEN UpdateRetryState(job[p].ev, job[p].count)
                       ELSE UNCHANGED tables
         /\ IF err \/ job[p].count < QuarantineAfter
            THEN Leave(p, "queued")
            ELSE /\ Goto(p, "deadletter")
                 /\ job' = [job EXCEPT ![p].at = clock]
                 /\ UNCHANGED expired
         /\ failures' = IF applied THEN [failures EXCEPT ![job[p].ev] = @ + 1]
                                   ELSE failures
         /\ excused' = IF applied /\ err /\ job[p].count >= QuarantineAfter
                       THEN excused \cup {job[p].ev}
                       ELSE excused
    /\ UNCHANGED <<broker, rows, batch, doomed, envVars, lapsed>>

\* ... and, for a quarantined event, the dead letter.
WriteDeadLetter(p) ==
    /\ pc[p] = "deadletter"
    /\ \E applied, err \in BOOLEAN :
         /\ Outcome(p, applied, err)
         /\ IF applied THEN InsertDeadLetter(job[p].ev, job[p].at, job[p].count)
                       ELSE UNCHANGED tables
         /\ excused' = IF applied THEN excused \ {job[p].ev}
                                  ELSE excused \cup {job[p].ev}
         /\ Leave(p, "queued")
    /\ UNCHANGED <<broker, rows, batch, doomed, envVars, failures, lapsed>>

-----------------------------------------------------------------------------
(* runOutboxRelay and relayOutboxBatch.                                    *)

\* Batches and pages are worked off in clustering order.
IsFirst(e, S) == \A d \in S : e <= d

RelayTick(n) ==
    /\ pc[n] = "idle"
    /\ n \notin paused
    /\ n \in leader
    /\ rows' = [rows EXCEPT ![n] = PendingPage(FetchLimit)]
    /\ Goto(n, "scan")
    /\ UNCHANGED <<tables, broker, job, batch, doomed, envVars, faults,
                   expired, history>>

\* One row of the page: it is kept if its retry state, read now, lets it
\* through; a failed read skips it.
FilterRow(n) ==
    /\ pc[n] = "scan"
    /\ Cardinality(batch[n]) < BatchSize
    /\ \E e \in rows[n] :
         /\ IsFirst(e, rows[n])
         /\ rows' = [rows EXCEPT ![n] = @ \ {e}]
         /\ \/ /\ InTime(n)
               /\ batch' = [batch EXCEPT ![n] =
                              IF Eligible(e) THEN @ \cup {e} ELSE @]
               /\ UNCHANGED faults
            \/ ReadError(n) /\ UNCHANGED batch
    /\ UNCHANGED <<tables, broker, pc, job, doomed, envVars, expired, history>>

PageRead(n) ==
    /\ pc[n] = "scan"
    /\ rows[n] = {} \/ Cardinality(batch[n]) >= BatchSize
    /\ rows' = [rows EXCEPT ![n] = {}]
    /\ \/ Goto(n, "claim") /\ UNCHANGED <<batch, faults, expired>>
       \/ /\ ReadError(n)
          /\ Cancel(n)
          /\ Goto(n, "idle")
          /\ batch' = [batch EXCEPT ![n] = {}]
    /\ UNCHANGED <<tables, broker, job, doomed, envVars, history>>

ClaimOutboxLease(n) ==
    /\ pc[n] = "claim"
    /\ \E e \in batch[n] :
         /\ IsFirst(e, batch[n])
         /\ batch' = [batch EXCEPT ![n] = @ \ {e}]
         /\ \/ \* applied: n relays the event
               /\ InTime(n)
               /\ TakeLease(e)
               /\ Goto(n, "publish")
               /\ job' = [job EXCEPT ![n].ev = e]
               /\ lapsed' = lapsed \ {n}
               /\ UNCHANGED faults
            \/ \* not applied: somebody holds the lease, or the row is gone
               /\ InTime(n)
               /\ ~LeaseFree(e)
               /\ UNCHANGED <<tables, pc, job, faults, lapsed>>
            \/ \* an error, which may hide that the lease was taken
               /\ ReadError(n)
               /\ TakeLease(e) \/ UNCHANGED tables
               /\ UNCHANGED <<pc, job, lapsed>>
    /\ UNCHANGED <<broker, rows, doomed, envVars, expired, failures,
                   excused>>

BatchDone(n) ==
    /\ pc[n] = "claim"
    /\ batch[n] = {}
    /\ Cancel(n)
    /\ Goto(n, "idle")
    /\ UNCHANGED <<tables, broker, job, rows, batch, doomed, envVars, faults,
                   history>>

-----------------------------------------------------------------------------
(* ReplayDeadLetter: a read of dead_letters_by_id, then the batch.         *)

ReadDeadLetter(a) ==
    /\ pc[a] = "start"
    /\ InTime(a)
    /\ \E e \in Events :
         /\ dlById[e].exists
         /\ job' = [job EXCEPT ![a] = [ev |-> e, attempt |-> 0,
                                       count |-> dlById[e].count,
                                       at |-> dlById[e].at]]
    /\ Goto(a, "requeue")
    /\ UNCHANGED <<tables, broker, rows, batch, doomed, envVars, faults,
                   expired, history>>

ReplayDeadLetter(a) ==
    /\ pc[a] = "requeue"
    /\ \E applied, err \in BOOLEAN :
         /\ Outcome(a, applied, err)
         /\ IF applied
            THEN RequeueDeadLetter(job[a].ev, job[a].at, job[a].count)
            ELSE UNCHANGED tables
         /\ excused' = IF applied THEN excused \ {job[a].ev} ELSE excused
    /\ Cancel(a)
    /\ Goto(a, "done")
    /\ job' = [job EXCEPT ![a] = NoJob]
    /\ UNCHANGED <<broker, rows, batch, doomed, envVars, failures, lapsed>>

-----------------------------------------------------------------------------
(* runCleanupLoop and the dead-letter part of CleanupExpired.              *)

ReadAgedDeadLetters(c) ==
    /\ pc[c] = "idle"
    /\ \E cutoff \in 1..clock :
         /\ AgedDeadLetters(cutoff, CleanupBatch) # {}
         /\ doomed' = [doomed EXCEPT ![c] =
                         AgedDeadLetters(cutoff, CleanupBatch)]
    /\ Goto(c, "purge")
    /\ UNCHANGED <<tables, broker, job, rows, batch, envVars, faults,
                   expired, history>>

CleanupExpired(c) ==
    /\ pc[c] = "purge"
    /\ \E row \in doomed[c], applied, err \in BOOLEAN :
         /\ \A s \in doomed[c] : ~Earlier(s, row)
         /\ Outcome(c, applied, err)
         /\ IF applied THEN DeleteDeadLetter(row[2], row[1])
                       ELSE UNCHANGED tables
         /\ excused' = IF applied /\ dlById[row[2]].exists
                       THEN excused \cup {row[2]}
                       ELSE excused
         /\ doomed' = [doomed EXCEPT ![c] = @ \ {row}]
         /\ Goto(c, IF doomed[c] = {row} THEN "idle" ELSE "purge")
    /\ UNCHANGED <<broker, job, rows, batch, envVars, expired, failures,
                   lapsed>>

-----------------------------------------------------------------------------
(* The environment.                                                        *)

\* The process, or its whole node, dies and is started again.  What IsLeader()
\* answers on the new node is left to LeaderChange.
Crash(p) ==
    /\ faults < MaxFaults
    /\ faults' = faults + 1
    /\ pc[p] \notin {"start", "idle", "done"} \cup Answered
    /\ Goto(p, IF p \in Handlers THEN "failed"
               ELSE IF p \in Admins THEN "done" ELSE "idle")
    /\ job' = [job EXCEPT ![p] = NoJob]
    /\ rows' = [n \in Nodes |-> IF n = p THEN {} ELSE rows[n]]
    /\ batch' = [n \in Nodes |-> IF n = p THEN {} ELSE batch[n]]
    /\ doomed' = [c \in Cleaners |-> IF c = p THEN {} ELSE doomed[c]]
    /\ Cancel(p)
    /\ excused' = IF pc[p] = "deadletter" THEN excused \cup {job[p].ev}
                                          ELSE excused
    /\ paused' = paused \ {p}
    /\ UNCHANGED <<tables, broker, leader, clock, failures, lapsed>>

\* The 20 seconds of a relay tick are over, or the client of a request is gone
\* or was answered by the request timeout.  The cleanup has no deadline.
DeadlinePasses(p) ==
    /\ p \notin expired \cup Cleaners
    /\ pc[p] \notin {"idle", "done"} \cup Answered
    /\ p \in Admins => pc[p] # "start"
    /\ expired' = expired \cup {p}
    /\ UNCHANGED <<tables, broker, procVars, envVars, faults, history>>

\* lease_until of the row passes.
LeaseExpires(e) ==
    /\ retry[e].leased
    /\ retry' = [retry EXCEPT ![e].leased = FALSE]
    /\ lapsed' = lapsed \cup {n \in Nodes : /\ pc[n] \in Working
                                            /\ job[n].ev = e}
    /\ UNCHANGED <<outbox, byState, dlByTime, dlById, broker, procVars,
                   envVars, faults, expired, failures, excused>>

\* next_attempt_at of the row passes.
BackoffElapses(e) ==
    /\ ~retry[e].due
    /\ retry' = [retry EXCEPT ![e].due = TRUE]
    /\ UNCHANGED <<outbox, byState, dlByTime, dlById, broker, procVars,
                   envVars, faults, expired, history>>

ClockAdvances ==
    /\ clock < MaxClock
    /\ clock' = clock + 1
    /\ UNCHANGED <<tables, broker, procVars, leader, paused, faults, expired, history>>

\* handleOutboxRelayAdmin on node n.
PauseOrResume(n) ==
    /\ paused' = IF n \in paused THEN paused \ {n} ELSE paused \cup {n}
    /\ UNCHANGED <<tables, broker, procVars, leader, clock, faults, expired, history>>

\* What IsLeader() answers on node n changes.
LeaderChange(n) ==
    /\ leader' = IF n \in leader THEN leader \ {n} ELSE leader \cup {n}
    /\ UNCHANGED <<tables, broker, procVars, paused, clock, faults, expired, history>>

-----------------------------------------------------------------------------
PublishStep(p) ==
    \/ PublishAck(p)
    \/ PublishError(p)
    \/ MarkOutboxPublished(p)
    \/ ReadRetryCount(p)
    \/ WriteRetryState(p)
    \/ WriteDeadLetter(p)

HandlerStep(h) ==
    AppendNew(h) \/ AppendDuplicate(h) \/ AppendError(h) \/ PublishStep(h)

RelayStep(n) ==
    \/ RelayTick(n)
    \/ FilterRow(n)
    \/ PageRead(n)
    \/ ClaimOutboxLease(n)
    \/ BatchDone(n)
    \/ PublishStep(n)

AdminStep(a) == ReadDeadLetter(a) \/ ReplayDeadLetter(a)

CleanerStep(c) == ReadAgedDeadLetters(c) \/ CleanupExpired(c)

Environment ==
    \/ \E p \in Procs : Crash(p) \/ DeadlinePasses(p)
    \/ \E e \in Events : LeaseExpires(e) \/ BackoffElapses(e)
    \/ ClockAdvances
    \/ \E n \in Switched : PauseOrResume(n) \/ LeaderChange(n)

Next ==
    \/ \E h \in Handlers : HandlerStep(h)
    \/ \E n \in Nodes : RelayStep(n)
    \/ \E a \in Admins : AdminStep(a)
    \/ \E c \in Cleaners : CleanerStep(c)
    \/ Environment

Spec == Init /\ [][Next]_vars

\* A request that has been accepted runs to its answer, a relay loop keeps
\* running, and time passes; nothing is promised about the broker, about
\* leadership or about when a client or an operator calls.
Fairness ==
    /\ \A h \in Handlers : WF_vars(PublishStep(h))
    /\ \A n \in Nodes : WF_vars(RelayStep(n))
    /\ \A e \in Events : WF_vars(LeaseExpires(e)) /\ WF_vars(BackoffElapses(e))

FairSpec == Spec /\ Fairness

-----------------------------------------------------------------------------
(* Properties that hold.                                                   *)

\* No event is lost: an event whose append batch was applied is either still
\* indexed for the relays or stored in the broker, whatever crashes, failed
\* store calls, replays and cleanups happened since.
NoEventLost ==
    \A e \in Events : outbox[e] # "none" => e \in byState \/ e \in broker

\* An indexed event can be claimed: its retry row exists, so the conditional
\* update of ClaimOutboxLease, which never applies to a missing row, can apply
\* once the lease is over.  MarkOutboxPublished deletes retry rows while
\* RecordOutboxFailure and ReplayDeadLetter upsert them.
IndexedIsClaimable ==
    \A e \in Events : e \in byState => retry[e].exists

\* What a client is told is true: after 201/200 the broker has the event, also
\* for a duplicate whose request did not publish itself, and after 202
\* ("queued") the event is stored and not lost.
AnswersAreTrue ==
    \A h \in Handlers :
        /\ pc[h] = "created" => job[h].ev \in broker
        /\ pc[h] = "queued" => job[h].ev \in byState \cup broker

\* Quarantine is earned: neither lost updates, replays nor stale writers of
\* RecordOutboxFailure quarantine an event, or write its dead letter, before
\* QuarantineAfter runs of publishWithRetry for it have failed and were recorded.
QuarantineIsEarned ==
    \A e \in Events :
        retry[e].quarantined \/ dlById[e].exists =>
            failures[e] >= QuarantineAfter

\* A dead letter that can be replayed (dead_letters_by_id) is listed under its
\* quarantine time (dead_letters_by_time), so that an operator finds it and the
\* cleanup reaches it.
ReplayableIsListed ==
    \A e \in Events : dlById[e].exists => <<dlById[e].at, e>> \in dlByTime

\* The quarantined events that no operator can replay and no process is about to
\* make replayable: relays skip them and ReplayDeadLetter does not find them.
HiddenQuarantines ==
    {e \in Events : /\ retry[e].quarantined
                    /\ ~dlById[e].exists
                    /\ \A p \in Procs : pc[p] = "deadletter" => job[p].ev # e}

\* A quarantined event stays within the operator's reach: whatever requests,
\* relays, replays and cleanups race, it is hidden only if the statement that
\* should have written its dead letter failed or was cut off by a crash or a
\* deadline, or if the cleanup deleted the letter, and nothing has replaced the
\* letter, replayed the event or marked it published since.
HiddenIsExcused == HiddenQuarantines \subseteq excused

\* The background relay settles every stored event: it reaches the broker or is
\* quarantined, provided some node stays leader, is not left paused and ends up
\* finishing its ticks within their 20 seconds.  Time passes and goroutines run;
\* the broker may refuse every single publish, and every other context expire.
RelaySettles ==
    (\E n \in Nodes : <>[](n \in leader \ (paused \cup expired))) =>
        \A e \in Events : e \in byState ~> (e \in broker \/ retry[e].quarantined)

-----------------------------------------------------------------------------
(* The tables, the broker and the requests as module EventDelivery sees    *)
(* them.                                                                   *)

\* What the client of request h has been told.
Told(h) ==
    IF pc[h] \in {"created", "queued"}
    THEN [says |-> pc[h], of |-> job[h].ev]
    ELSE [says |-> IF pc[h] = "failed" THEN "failed" ELSE "nothing", of |-> 0]

Delivery == INSTANCE EventDelivery WITH
    Clients   <- Handlers,
    accepted  <- {e \in Events : outbox[e] # "none"},
    waiting   <- byState,
    delivered <- broker,
    answer    <- [h \in Handlers |-> Told(h)]

\* The outbox implements event delivery: a stored event is in front of a relay
\* or in the broker at every step of every process, it is taken out of
\* outbox_by_state only once the broker has it, and a request is answered once
\* and truthfully, whatever crashes, failed store calls, lost publish answers,
\* replays and cleanups interleave.
DeliverySpec == Delivery!Spec

-----------------------------------------------------------------------------
(* A claim of the documentation that the code does not keep.               *)

\* Leasing prevents duplicate relay processing: of two relays that publish the
\* same event, the lease of one has run out.
LeaseExcludes ==
    \A m, n \in Nodes :
        /\ m # n
        /\ {pc[m], pc[n]} \subseteq {"publish", "mark", "count", "record"}
        /\ job[m].ev = job[n].ev
        => m \in lapsed \/ n \in lapsed
=============================================================================
