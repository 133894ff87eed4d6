---------------------------- MODULE OutboxProofs ----------------------------
(***************************************************************************)
(* Proofs that the safety properties of module Outbox hold for every       *)
(* number of events, nodes and requests and every setting of the limits.   *)
(*                                                                         *)
(* None of the properties is inductive: each rests on what the processes   *)
(* carry between two statements.  Inv adds that: whatever a process works  *)
(* on has a row, what it is about to mark is in the broker, and a count it *)
(* is about to write is covered by failures that really happened.          *)
(***************************************************************************)
EXTENDS Outbox, TLAPS

Stored(e) == e \in Events /\ outbox[e] # "none"

\* What a process holds between two statements.
JobFor(p) ==
    /\ pc[p] \in Working \cup {"requeue", "queued"} => Stored(job[p].ev)
    /\ pc[p] \in {"mark", "created"} => job[p].ev \in broker
    /\ pc[p] = "record" => job[p].count <= failures[job[p].ev] + 1
    /\ pc[p] \in {"deadletter", "requeue"} =>
         job[p].count <= failures[job[p].ev] /\ job[p].count >= QuarantineAfter

JobOK == \A p \in Procs : JobFor(p)

\* What a relay is going to read or claim.
BatchOK ==
    \A n \in Nodes : \A e \in rows[n] \cup batch[n] : outbox[e] # "none"

\* How the tables of one event fit together.
RowsOK ==
    \A e \in Events :
        /\ outbox[e] = "pending" <=> e \in byState
        /\ outbox[e] = "published" => e \in broker
        /\ e \in byState => retry[e].exists
        /\ retry[e].count <= failures[e]
        /\ retry[e].quarantined => retry[e].count >= QuarantineAfter
        /\ dlById[e].exists =>
             /\ outbox[e] # "none"
             /\ <<dlById[e].at, e>> \in dlByTime
             /\ dlById[e].count >= QuarantineAfter
             /\ dlById[e].count <= failures[e]

Inv == TypeOK /\ JobOK /\ BatchOK /\ RowsOK

-----------------------------------------------------------------------------
(* Every statement keeps the tables well typed and, given what its caller  *)
(* holds, keeps the rows of its event together.                            *)

\* The append batch.
LEMMA InsertEventKeepsRows ==
    ASSUME TablesTypeOK, RowsOK, failures \in [Events -> Nat],
           NEW e \in Events, outbox[e] = "none", InsertEvent(e),
           UNCHANGED <<broker, failures>>
    PROVE  TablesTypeOK' /\ RowsOK' /\ \A d \in Events : Stored(d) => Stored(d)'
<1>1. TablesTypeOK'
  BY DEF TablesTypeOK, InsertEvent, NoRetryRow, RetryRow
<1>2. RowsOK'
  BY QuarantineAssumption
     DEF RowsOK, TablesTypeOK, InsertEvent, NoRetryRow, RetryRow, DeadLetterRow
<1>3. \A d \in Events : Stored(d) => Stored(d)'
  BY DEF TablesTypeOK, InsertEvent, Stored
<1> QED
  BY <1>1, <1>2, <1>3

\* The batch of MarkOutboxPublished, for an event the broker has.
LEMMA MarkPublishedKeepsRows ==
    ASSUME TablesTypeOK, RowsOK, failures \in [Events -> Nat],
           NEW e \in Events, outbox[e] # "none", e \in broker, MarkPublished(e),
           UNCHANGED <<broker, failures>>
    PROVE  TablesTypeOK' /\ RowsOK' /\ \A d \in Events : Stored(d) => Stored(d)'
<1>1. TablesTypeOK'
  BY DEF TablesTypeOK, MarkPublished, NoRetryRow, RetryRow
<1>2. RowsOK'
  BY QuarantineAssumption
     DEF RowsOK, TablesTypeOK, MarkPublished, NoRetryRow, RetryRow, DeadLetterRow
<1>3. \A d \in Events : Stored(d) => Stored(d)'
  BY DEF TablesTypeOK, MarkPublished, Stored
<1> QED
  BY <1>1, <1>2, <1>3

\* The conditional update of ClaimOutboxLease.
LEMMA TakeLeaseKeepsRows ==
    ASSUME TablesTypeOK, RowsOK, NEW e \in Events, TakeLease(e),
           UNCHANGED <<broker, failures>>
    PROVE  TablesTypeOK' /\ RowsOK' /\ \A d \in Events : Stored(d) => Stored(d)'
<1>1. TablesTypeOK'
  BY DEF TablesTypeOK, TakeLease, RetryRow
<1>2. RowsOK'
  BY DEF RowsOK, TablesTypeOK, TakeLease, RetryRow
<1>3. \A d \in Events : Stored(d) => Stored(d)'
  BY DEF TakeLease, Stored
<1> QED
  BY <1>1, <1>2, <1>3

\* The update of RecordOutboxFailure, for a count that failures cover.
LEMMA UpdateRetryStateKeepsRows ==
    ASSUME TablesTypeOK, RowsOK, failures \in [Events -> Nat],
           NEW e \in Events, NEW k \in Nat, k <= failures[e] + 1,
           UpdateRetryState(e, k), UNCHANGED broker,
           failures' = [failures EXCEPT ![e] = @ + 1]
    PROVE  TablesTypeOK' /\ RowsOK' /\ \A d \in Events : Stored(d) => Stored(d)'
<1>1. TablesTypeOK'
  BY QuarantineAssumption DEF TablesTypeOK, UpdateRetryState, RetryRow
<1>2. RowsOK'
  <2>1. /\ failures'[e] = failures[e] + 1
        /\ \A d \in Events : failures[d] \in Nat /\ failures[d] <= failures'[d]
        /\ \A d \in Events : failures'[d] \in Nat
    OBVIOUS
  <2>2. ASSUME NEW d \in Events
        PROVE  /\ retry'[d].count <= failures'[d]
               /\ retry'[d].quarantined => retry'[d].count >= QuarantineAfter
               /\ d \in byState => retry'[d].exists
    BY <2>1, QuarantineAssumption
       DEF RowsOK, TablesTypeOK, UpdateRetryState, RetryRow
  <2>3. ASSUME NEW d \in Events, dlById[d].exists
        PROVE  dlById[d].count <= failures'[d]
    <3>1. dlById[d].count \in Nat /\ dlById[d].count <= failures[d]
      BY <2>3 DEF RowsOK, TablesTypeOK, DeadLetterRow
    <3> QED
      BY <2>1, <3>1
  <2> QED
    BY <2>2, <2>3 DEF RowsOK, UpdateRetryState
<1>3. \A d \in Events : Stored(d) => Stored(d)'
  BY DEF UpdateRetryState, Stored
<1> QED
  BY <1>1, <1>2, <1>3

\* The dead-letter batch of RecordOutboxFailure.
LEMMA InsertDeadLetterKeepsRows ==
    ASSUME TablesTypeOK, RowsOK, failures \in [Events -> Nat],
           NEW e \in Events, outbox[e] # "none", NEW t \in Nat, NEW k \in Nat,
           k <= failures[e], k >= QuarantineAfter,
           InsertDeadLetter(e, t, k), UNCHANGED <<broker, failures>>
    PROVE  TablesTypeOK' /\ RowsOK' /\ \A d \in Events : Stored(d) => Stored(d)'
<1>1. TablesTypeOK'
  BY DEF TablesTypeOK, InsertDeadLetter, DeadLetterRow
<1>2. RowsOK'
  BY QuarantineAssumption DEF RowsOK, TablesTypeOK, InsertDeadLetter, DeadLetterRow
<1>3. \A d \in Events : Stored(d) => Stored(d)'
  BY DEF InsertDeadLetter, Stored
<1> QED
  BY <1>1, <1>2, <1>3

\* The batch of ReplayDeadLetter, from a row it read before.
LEMMA RequeueDeadLetterKeepsRows ==
    ASSUME TablesTypeOK, RowsOK, failures \in [Events -> Nat],
           NEW e \in Events, NEW t \in Nat, NEW k \in Nat, k <= failures[e],
           RequeueDeadLetter(e, t, k), UNCHANGED <<broker, failures>>
    PROVE  TablesTypeOK' /\ RowsOK' /\ \A d \in Events : Stored(d) => Stored(d)'
<1>1. TablesTypeOK'
  BY DEF TablesTypeOK, RequeueDeadLetter, RetryRow, DeadLetterRow, NoDeadLetter
<1>2. RowsOK'
  BY DEF RowsOK, TablesTypeOK, RequeueDeadLetter, RetryRow, DeadLetterRow,
         NoDeadLetter
<1>3. \A d \in Events : Stored(d) => Stored(d)'
  BY DEF TablesTypeOK, RequeueDeadLetter, Stored
<1> QED
  BY <1>1, <1>2, <1>3

\* The batch of CleanupExpired for one dead letter.
LEMMA DeleteDeadLetterKeepsRows ==
    ASSUME TablesTypeOK, RowsOK, NEW e \in Events, NEW t \in Nat,
           DeleteDeadLetter(e, t), UNCHANGED <<broker, failures>>
    PROVE  TablesTypeOK' /\ RowsOK' /\ \A d \in Events : Stored(d) => Stored(d)'
<1>1. TablesTypeOK'
  BY DEF TablesTypeOK, DeleteDeadLetter, DeadLetterRow, NoDeadLetter
<1>2. RowsOK'
  BY DEF RowsOK, TablesTypeOK, DeleteDeadLetter, DeadLetterRow, NoDeadLetter
<1>3. \A d \in Events : Stored(d) => Stored(d)'
  BY DEF DeleteDeadLetter, Stored
<1> QED
  BY <1>1, <1>2, <1>3

\* No statement.
LEMMA NoStatementKeepsRows ==
    ASSUME TablesTypeOK, RowsOK, UNCHANGED tables, UNCHANGED failures,
           broker \subseteq broker'
    PROVE  TablesTypeOK' /\ RowsOK' /\ \A d \in Events : Stored(d) => Stored(d)'
  BY DEF TablesTypeOK, RowsOK, Stored, tables

-----------------------------------------------------------------------------
(* Steps of one process.                                                   *)

\* A step that reports no failure leaves the counts of failures where they were.
LEMMA FailuresStay ==
    ASSUME Inv, UNCHANGED failures
    PROVE  \A d \in Events : failures[d] <= failures'[d]
  BY DEF Inv, TypeOK

\* A step of p that keeps the tables in order, takes nothing away from what
\* the others rely on and leaves p with a job in order, keeps Inv.
LEMMA ProcessStepKeepsInv ==
    ASSUME Inv, NEW p \in Procs,
           TypeOK', RowsOK', JobFor(p)',
           \A d \in Events : Stored(d) => Stored(d)',
           broker \subseteq broker',
           \A d \in Events : failures[d] <= failures'[d],
           \A q \in Procs \ {p} : pc'[q] = pc[q] /\ job'[q] = job[q],
           \A n \in Nodes : rows'[n] \cup batch'[n] \subseteq
                              rows[n] \cup batch[n] \cup byState
    PROVE  Inv'
<1>1. ASSUME NEW q \in Procs \ {p} PROVE JobFor(q)'
  <2>1. JobFor(q) /\ pc'[q] = pc[q] /\ job'[q] = job[q]
    BY <1>1 DEF Inv, JobOK
  <2>2. pc[q] \in Working \cup {"requeue", "queued"} => Stored(job[q].ev)'
    BY <2>1 DEF JobFor, Stored
  <2>3. ASSUME pc[q] \in {"record", "deadletter", "requeue"}
        PROVE  /\ pc[q] = "record" => job[q].count <= failures'[job[q].ev] + 1
               /\ pc[q] # "record" => job[q].count <= failures'[job[q].ev]
    <3>1. /\ job[q].ev \in Events
          /\ job[q].count \in Nat
          /\ pc[q] = "record" => job[q].count <= failures[job[q].ev] + 1
          /\ pc[q] # "record" => job[q].count <= failures[job[q].ev]
      BY <1>1, <2>1, <2>3 DEF JobFor, Stored, Working, Inv, TypeOK, Job
    <3>2. failures \in [Events -> Nat] /\ failures' \in [Events -> Nat]
      BY DEF Inv, TypeOK
    <3> QED
      BY <3>1, <3>2
  <2> QED
    BY <2>1, <2>2, <2>3 DEF JobFor
<1>2. JobOK'
  BY <1>1 DEF JobOK, Procs
<1>3. BatchOK'
  BY DEF Inv, TypeOK, TablesTypeOK, BatchOK, RowsOK, Stored
<1> QED
  BY <1>2, <1>3 DEF Inv

\* handlePublishEvent's append of a new event keeps Inv.
LEMMA AppendNewKeepsInv ==
    ASSUME Inv, NEW h \in Handlers, AppendNew(h)
    PROVE  Inv'
<1>1. PICK e \in Events, applied \in BOOLEAN, err \in BOOLEAN :
        /\ outbox[e] = "none"
        /\ Outcome(h, applied, err)
        /\ IF applied THEN InsertEvent(e) ELSE UNCHANGED tables
        /\ Goto(h, IF err THEN "failed" ELSE "publish")
        /\ IF err THEN Cancel(h) ELSE UNCHANGED expired
        /\ job' = [job EXCEPT ![h].ev = IF err THEN 0 ELSE e]
  BY DEF AppendNew
<1>2. UNCHANGED <<broker, rows, batch, doomed, envVars, history>>
  BY DEF AppendNew
<1>3. /\ TablesTypeOK' /\ RowsOK' /\ \A d \in Events : Stored(d) => Stored(d)'
      /\ ~err => Stored(e)'
  <2>1. CASE applied
    BY <1>1, <1>2, <2>1, InsertEventKeepsRows
       DEF Inv, TypeOK, TablesTypeOK, InsertEvent, Stored, history
  <2>2. CASE ~applied
    BY <1>1, <1>2, <2>2, NoStatementKeepsRows DEF Inv, TypeOK, Outcome, history
  <2> QED
    BY <2>1, <2>2
<1>4. h \in Procs
  BY DEF Procs
<1>5. TypeOK'
  <2>1. job' \in [Procs -> Job]
    BY <1>1, <1>4, EventsAssumption DEF Inv, TypeOK, Job
  <2>2. pc' \in [Procs -> Labels]
    BY <1>1, <1>4 DEF Inv, TypeOK, Goto, Labels, Working, Answered
  <2>3. faults' \in Nat /\ expired' \subseteq Procs
    BY <1>1 DEF Inv, TypeOK, Outcome, Cancel
  <2> QED
    BY <1>2, <1>3, <2>1, <2>2, <2>3 DEF Inv, TypeOK, envVars, history
<1>6. JobFor(h)'
  BY <1>1, <1>3, <1>4 DEF JobFor, Goto, Inv, TypeOK, Job, Working
<1> QED
  BY <1>1, <1>2, <1>3, <1>4, <1>5, <1>6, ProcessStepKeepsInv
     DEF Goto, Inv, TypeOK, history

\* A duplicate of a stored event, found by its key, keeps Inv.
LEMMA AppendDuplicateKeepsInv ==
    ASSUME Inv, NEW h \in Handlers, AppendDuplicate(h)
    PROVE  Inv'
<1>1. PICK e \in Events :
        /\ outbox[e] # "none"
        /\ Goto(h, IF outbox[e] = "published" THEN "created" ELSE "publish")
        /\ job' = [job EXCEPT ![h].ev = e]
  BY DEF AppendDuplicate
<1>2. UNCHANGED <<tables, broker, rows, batch, doomed, envVars, faults,
                  expired, history>>
  BY DEF AppendDuplicate
<1>3. TablesTypeOK' /\ RowsOK' /\ \A d \in Events : Stored(d) => Stored(d)'
  BY <1>2, NoStatementKeepsRows DEF Inv, TypeOK, history
<1>4. h \in Procs
  BY DEF Procs
<1>5. TypeOK'
  <2>1. job' \in [Procs -> Job]
    BY <1>1, <1>4, EventsAssumption DEF Inv, TypeOK, Job
  <2>2. pc' \in [Procs -> Labels]
    BY <1>1, <1>4 DEF Inv, TypeOK, Goto, Labels, Working, Answered
  <2> QED
    BY <1>2, <1>3, <2>1, <2>2 DEF Inv, TypeOK, envVars, history
<1>6. JobFor(h)'
  <2>1. Stored(e)' /\ (outbox[e] = "published" => e \in broker')
    BY <1>1, <1>2, <1>3 DEF Stored, Inv, RowsOK
  <2> QED
    BY <1>1, <1>4, <2>1 DEF JobFor, Goto, Inv, TypeOK, Job, Working
<1> QED
  BY <1>1, <1>2, <1>3, <1>4, <1>5, <1>6, ProcessStepKeepsInv
     DEF Goto, Inv, TypeOK, history

\* An append that failed keeps Inv.
LEMMA AppendErrorKeepsInv ==
    ASSUME Inv, NEW h \in Handlers, AppendError(h)
    PROVE  Inv'
<1>1. TablesTypeOK' /\ RowsOK' /\ \A d \in Events : Stored(d) => Stored(d)'
  BY NoStatementKeepsRows DEF AppendError, Inv, TypeOK, history
<1>2. h \in Procs
  BY DEF Procs
<1>3. TypeOK'
  <2>1. pc' \in [Procs -> Labels] /\ faults' \in Nat /\ expired' \subseteq Procs
    BY <1>2 DEF AppendError, ReadError, Inv, TypeOK, Goto, Labels, Answered,
                Cancel
  <2> QED
    BY <1>1, <2>1 DEF AppendError, Inv, TypeOK, envVars, history
<1>4. JobFor(h)'
  BY <1>2 DEF AppendError, JobFor, Goto, Inv, TypeOK, Working
<1> QED
  BY <1>1, <1>2, <1>3, <1>4, ProcessStepKeepsInv
     DEF AppendError, Goto, Inv, TypeOK, history

\* An acknowledged publish puts the event where the mark relies on it.
LEMMA PublishAckKeepsInv ==
    ASSUME Inv, NEW p \in Procs, PublishAck(p)
    PROVE  Inv'
<1>1. Stored(job[p].ev)
  BY DEF PublishAck, Inv, JobOK, JobFor, Working
<1>2. TablesTypeOK' /\ RowsOK' /\ \A d \in Events : Stored(d) => Stored(d)'
  BY NoStatementKeepsRows DEF PublishAck, Inv, TypeOK, history
<1>3. job' \in [Procs -> Job] /\ job'[p].ev = job[p].ev
  BY DEF PublishAck, Inv, TypeOK, Job
<1>4. TypeOK'
  <2>1. pc' \in [Procs -> Labels]
    BY DEF PublishAck, Inv, TypeOK, Goto, Labels, Working
  <2> QED
    BY <1>1, <1>2, <1>3, <2>1 DEF PublishAck, Inv, TypeOK, envVars, Stored,
       history
<1>5. JobFor(p)'
  BY <1>1, <1>2, <1>3 DEF PublishAck, JobFor, Goto, Inv, TypeOK, Stored, Working
<1> QED
  BY <1>2, <1>4, <1>5, ProcessStepKeepsInv DEF PublishAck, Goto, Inv, TypeOK,
     history

\* A failed attempt of publishWithRetry keeps Inv.
LEMMA PublishErrorKeepsInv ==
    ASSUME Inv, NEW p \in Procs, PublishError(p)
    PROVE  Inv'
<1>1. Stored(job[p].ev) /\ pc[p] = "publish"
  BY DEF PublishError, Inv, JobOK, JobFor, Working
<1>2. TablesTypeOK' /\ RowsOK' /\ \A d \in Events : Stored(d) => Stored(d)'
  BY NoStatementKeepsRows DEF PublishError, Inv, TypeOK, history
<1>3. /\ job' \in [Procs -> Job]
      /\ job'[p].ev = job[p].ev
      /\ \A q \in Procs \ {p} : job'[q] = job[q]
  <2>1. job[p].attempt + 1 \in Nat
    BY DEF Inv, TypeOK, Job
  <2>2. PICK k \in Nat : job' = [job EXCEPT ![p].attempt = k]
    BY <2>1 DEF PublishError
  <2> QED
    BY <2>2 DEF Inv, TypeOK, Job
<1>4. /\ pc' \in [Procs -> Labels]
      /\ pc'[p] \in {"publish", "count"}
      /\ \A q \in Procs \ {p} : pc'[q] = pc[q]
  BY <1>1 DEF PublishError, Inv, TypeOK, Goto, Labels, Working
<1>5. TypeOK'
  BY <1>1, <1>2, <1>3, <1>4 DEF PublishError, Inv, TypeOK, envVars, Stored,
       Sent, history
<1>6. JobFor(p)'
  BY <1>1, <1>2, <1>3, <1>4 DEF JobFor, Stored, Working
<1> QED
  BY <1>2, <1>3, <1>4, <1>5, <1>6, ProcessStepKeepsInv
     DEF PublishError, Inv, TypeOK, history

\* Leave keeps the local state of p in order.
LEMMA LeaveKeepsJob ==
    ASSUME TypeOK, NEW p \in Procs, NEW answer \in Answered, Leave(p, answer)
    PROVE  /\ job' \in [Procs -> Job]
           /\ pc' \in [Procs -> Labels]
           /\ \A q \in Procs \ {p} : pc'[q] = pc[q] /\ job'[q] = job[q]
           /\ pc'[p] \in {answer, "claim"}
           /\ pc'[p] = answer => job'[p].ev = job[p].ev
           /\ expired' \subseteq Procs
<1>1. NoJob \in Job
  BY DEF NoJob, Job
<1>2. /\ [NoJob EXCEPT !.ev = job[p].ev] \in Job
      /\ [NoJob EXCEPT !.ev = job[p].ev].ev = job[p].ev
  BY DEF NoJob, Job, TypeOK
<1>3. job' \in [Procs -> Job] /\ \A q \in Procs \ {p} : job'[q] = job[q]
  BY <1>1, <1>2 DEF Leave, TypeOK
<1>4. pc' \in [Procs -> Labels] /\ \A q \in Procs \ {p} : pc'[q] = pc[q]
  BY DEF Leave, Goto, TypeOK, Labels
<1>5. CASE p \in Handlers
  BY <1>2, <1>3, <1>4, <1>5 DEF Leave, Goto, TypeOK
<1>6. CASE p \notin Handlers
  BY <1>3, <1>4, <1>6 DEF Leave, Goto, TypeOK, Answered
<1>7. expired' \subseteq Procs
  BY DEF Leave, TypeOK
<1> QED
  BY <1>7, <1>3, <1>4, <1>5, <1>6

\* MarkOutboxPublished marks only what the broker has.
LEMMA MarkOutboxPublishedKeepsInv ==
    ASSUME Inv, NEW p \in Procs, MarkOutboxPublished(p)
    PROVE  Inv'
<1>1. Stored(job[p].ev) /\ job[p].ev \in broker
  BY DEF MarkOutboxPublished, Inv, JobOK, JobFor, Working
<1>2. PICK applied \in BOOLEAN, err \in BOOLEAN :
        /\ Outcome(p, applied, err)
        /\ IF applied THEN MarkPublished(job[p].ev) ELSE UNCHANGED tables
        /\ excused' = IF applied THEN excused \ {job[p].ev} ELSE excused
        /\ Leave(p, IF err THEN "failed" ELSE "created")
  BY DEF MarkOutboxPublished
<1>3. UNCHANGED <<broker, rows, batch, doomed, envVars, failures, lapsed>>
  BY DEF MarkOutboxPublished
<1>4. TablesTypeOK' /\ RowsOK' /\ \A d \in Events : Stored(d) => Stored(d)'
  <2>1. CASE applied
    BY <1>1, <1>2, <1>3, <2>1, MarkPublishedKeepsRows DEF Inv, TypeOK, Stored
  <2>2. CASE ~applied
    BY <1>2, <1>3, <2>2, NoStatementKeepsRows DEF Inv, TypeOK
  <2> QED
    BY <2>1, <2>2
<1>5. PICK answer \in {"failed", "created"} : Leave(p, answer)
  BY <1>2
<1>6. /\ job' \in [Procs -> Job]
      /\ pc' \in [Procs -> Labels]
      /\ \A q \in Procs \ {p} : pc'[q] = pc[q] /\ job'[q] = job[q]
      /\ pc'[p] \in {answer, "claim"}
      /\ pc'[p] = answer => job'[p].ev = job[p].ev
      /\ expired' \subseteq Procs
  BY <1>5, LeaveKeepsJob DEF Inv, Answered
<1>7. TypeOK'
  BY <1>2, <1>3, <1>4, <1>6 DEF Inv, TypeOK, envVars, Outcome
<1>8. JobFor(p)'
  BY <1>1, <1>3, <1>5, <1>6 DEF JobFor, Working
<1> QED
  BY <1>3, <1>4, <1>6, <1>7, <1>8, ProcessStepKeepsInv DEF Inv, TypeOK

\* The count RecordOutboxFailure computes is at most one ahead of the failures
\* that were recorded.
LEMMA ReadRetryCountKeepsInv ==
    ASSUME Inv, NEW p \in Procs, ReadRetryCount(p)
    PROVE  Inv'
<1>1. Stored(job[p].ev)
  BY DEF ReadRetryCount, Inv, JobOK, JobFor, Working
<1>2. UNCHANGED <<tables, broker, rows, batch, doomed, envVars, history>>
  BY DEF ReadRetryCount
<1>3. TablesTypeOK' /\ RowsOK' /\ \A d \in Events : Stored(d) => Stored(d)'
  BY <1>2, NoStatementKeepsRows DEF Inv, TypeOK, history
<1>4. CASE ReadError(p) /\ Leave(p, "queued")
  <2>1. /\ job' \in [Procs -> Job]
        /\ pc' \in [Procs -> Labels]
        /\ \A q \in Procs \ {p} : pc'[q] = pc[q] /\ job'[q] = job[q]
        /\ pc'[p] \in {"queued", "claim"}
        /\ pc'[p] = "queued" => job'[p].ev = job[p].ev
        /\ expired' \subseteq Procs
    BY <1>4, LeaveKeepsJob DEF Inv, Answered
  <2>2. TypeOK'
    BY <1>2, <1>3, <1>4, <2>1 DEF Inv, TypeOK, envVars, history, ReadError
  <2>3. JobFor(p)'
    BY <1>1, <1>3, <2>1 DEF JobFor, Working, Stored
  <2> QED
    BY <1>2, <1>3, <2>1, <2>2, <2>3, ProcessStepKeepsInv DEF Inv, TypeOK, history
<1>5. CASE /\ job' = [job EXCEPT ![p].count = retry[job[p].ev].count + 1]
           /\ Goto(p, "record")
           /\ UNCHANGED <<faults, expired>>
  <2> DEFINE e == job[p].ev
  <2>1. /\ e \in Events
        /\ retry[e].count \in Nat
        /\ failures[e] \in Nat
        /\ retry[e].count <= failures[e]
    BY <1>1 DEF Inv, TypeOK, TablesTypeOK, RetryRow, RowsOK, Stored
  <2>2. /\ job' \in [Procs -> Job]
        /\ job'[p].ev = e
        /\ job'[p].count = retry[e].count + 1
        /\ \A q \in Procs \ {p} : job'[q] = job[q]
    BY <1>5, <2>1 DEF Inv, TypeOK, Job
  <2>3. pc' \in [Procs -> Labels] /\ pc'[p] = "record"
    BY <1>5 DEF Inv, TypeOK, Goto, Labels, Working
  <2>4. TypeOK'
    BY <1>2, <1>3, <1>5, <2>2, <2>3 DEF Inv, TypeOK, envVars, history
  <2>5. JobFor(p)'
    BY <1>1, <1>2, <1>3, <2>1, <2>2, <2>3 DEF JobFor, Stored, history
  <2> QED
    BY <1>2, <1>3, <1>5, <2>2, <2>4, <2>5, ProcessStepKeepsInv
       DEF Goto, Inv, TypeOK, history
<1> QED
  BY <1>4, <1>5 DEF ReadRetryCount

\* RecordOutboxFailure's update, from a count it read before, keeps Inv.
LEMMA WriteRetryStateKeepsInv ==
    ASSUME Inv, NEW p \in Procs, WriteRetryState(p)
    PROVE  Inv'
<1> DEFINE e == job[p].ev
           k == job[p].count
<1>1. Stored(e) /\ k \in Nat /\ k <= failures[e] + 1 /\ failures[e] \in Nat
  BY DEF WriteRetryState, Inv, JobOK, JobFor, Working, TypeOK, Job, Stored
<1>2. PICK applied \in BOOLEAN, err \in BOOLEAN :
        /\ Outcome(p, applied, err)
        /\ IF applied THEN UpdateRetryState(e, k) ELSE UNCHANGED tables
        /\ IF err \/ k < QuarantineAfter
           THEN Leave(p, "queued")
           ELSE /\ Goto(p, "deadletter")
                /\ job' = [job EXCEPT ![p].at = clock]
                /\ UNCHANGED expired
        /\ failures' = IF applied THEN [failures EXCEPT ![e] = @ + 1]
                                  ELSE failures
        /\ excused' = IF applied /\ err /\ k >= QuarantineAfter
                      THEN excused \cup {e} ELSE excused
  BY DEF WriteRetryState
<1>3. UNCHANGED <<broker, rows, batch, doomed, envVars, lapsed>>
  BY DEF WriteRetryState
<1>4. TablesTypeOK' /\ RowsOK' /\ \A d \in Events : Stored(d) => Stored(d)'
  <2>1. CASE applied
    BY <1>1, <1>2, <1>3, <2>1, UpdateRetryStateKeepsRows DEF Inv, TypeOK, Stored
  <2>2. CASE ~applied
    BY <1>2, <1>3, <2>2, NoStatementKeepsRows DEF Inv, TypeOK
  <2> QED
    BY <2>1, <2>2
<1>5. /\ failures' \in [Events -> Nat]
      /\ \A d \in Events : failures[d] <= failures'[d]
      /\ ~err => k <= failures'[e]
  BY <1>1, <1>2 DEF Inv, TypeOK, Outcome, Stored
<1>6. /\ job' \in [Procs -> Job]
      /\ pc' \in [Procs -> Labels]
      /\ expired' \subseteq Procs
      /\ \A q \in Procs \ {p} : pc'[q] = pc[q] /\ job'[q] = job[q]
      /\ \/ pc'[p] = "claim"
         \/ pc'[p] = "queued" /\ job'[p].ev = e
         \/ /\ pc'[p] = "deadletter" /\ ~err
            /\ job'[p].ev = e
            /\ job'[p].count = k
            /\ k >= QuarantineAfter
  <2>1. CASE err \/ k < QuarantineAfter
    BY <1>2, <2>1, LeaveKeepsJob DEF Inv, Answered
  <2>2. CASE ~(err \/ k < QuarantineAfter)
    <3>1. /\ pc' = [pc EXCEPT ![p] = "deadletter"]
          /\ job' = [job EXCEPT ![p].at = clock]
          /\ k >= QuarantineAfter
      BY <1>1, <1>2, <2>2, QuarantineAssumption DEF Goto
    <3>2. /\ job' \in [Procs -> Job]
          /\ job'[p].ev = e /\ job'[p].count = k
          /\ \A q \in Procs \ {p} : job'[q] = job[q]
      BY <3>1 DEF Inv, TypeOK, Job
    <3>3. pc' \in [Procs -> Labels] /\ expired' \subseteq Procs
      BY <1>2, <2>2, <3>1 DEF Inv, TypeOK, Labels, Working
    <3> QED
      BY <2>2, <3>1, <3>2, <3>3 DEF Inv, TypeOK
  <2> QED
    BY <2>1, <2>2
<1>7. TypeOK'
  BY <1>1, <1>2, <1>3, <1>4, <1>5, <1>6
     DEF Inv, TypeOK, envVars, Outcome, Stored
<1>8. JobFor(p)'
  BY <1>1, <1>3, <1>4, <1>5, <1>6 DEF JobFor, Working, Stored
<1> QED
  BY <1>3, <1>4, <1>5, <1>6, <1>7, <1>8, ProcessStepKeepsInv DEF Inv, TypeOK

\* RecordOutboxFailure's dead letter, from the same count, keeps Inv.
LEMMA WriteDeadLetterKeepsInv ==
    ASSUME Inv, NEW p \in Procs, WriteDeadLetter(p)
    PROVE  Inv'
<1>1. /\ Stored(job[p].ev)
      /\ job[p].count \in Nat /\ job[p].at \in Nat
      /\ job[p].count <= failures[job[p].ev]
      /\ job[p].count >= QuarantineAfter
  BY DEF WriteDeadLetter, Inv, JobOK, JobFor, Working, TypeOK, Job
<1>2. PICK applied \in BOOLEAN, err \in BOOLEAN :
        /\ Outcome(p, applied, err)
        /\ IF applied THEN InsertDeadLetter(job[p].ev, job[p].at, job[p].count)
                      ELSE UNCHANGED tables
        /\ excused' = IF applied THEN excused \ {job[p].ev}
                                 ELSE excused \cup {job[p].ev}
        /\ Leave(p, "queued")
  BY DEF WriteDeadLetter
<1>3. UNCHANGED <<broker, rows, batch, doomed, envVars, failures, lapsed>>
  BY DEF WriteDeadLetter
<1>4. TablesTypeOK' /\ RowsOK' /\ \A d \in Events : Stored(d) => Stored(d)'
  <2>1. CASE applied
    BY <1>1, <1>2, <1>3, <2>1, InsertDeadLetterKeepsRows DEF Inv, TypeOK, Stored
  <2>2. CASE ~applied
    BY <1>2, <1>3, <2>2, NoStatementKeepsRows DEF Inv, TypeOK
  <2> QED
    BY <2>1, <2>2
<1>5. /\ job' \in [Procs -> Job]
      /\ pc' \in [Procs -> Labels]
      /\ \A q \in Procs \ {p} : pc'[q] = pc[q] /\ job'[q] = job[q]
      /\ pc'[p] \in {"queued", "claim"}
      /\ pc'[p] = "queued" => job'[p].ev = job[p].ev
      /\ expired' \subseteq Procs
  BY <1>2, LeaveKeepsJob DEF Inv, Answered
<1>6. TypeOK'
  BY <1>1, <1>2, <1>3, <1>4, <1>5 DEF Inv, TypeOK, envVars, Outcome, Stored
<1>7. JobFor(p)'
  BY <1>1, <1>4, <1>5 DEF JobFor, Working, Stored
<1> QED
  BY <1>3, <1>4, <1>5, <1>6, <1>7, ProcessStepKeepsInv DEF Inv, TypeOK

\* The relay's read of a page keeps Inv.
LEMMA RelayTickKeepsInv ==
    ASSUME Inv, NEW n \in Nodes, RelayTick(n)
    PROVE  Inv'
<1>1. TablesTypeOK' /\ RowsOK' /\ \A d \in Events : Stored(d) => Stored(d)'
  BY NoStatementKeepsRows DEF RelayTick, Inv, TypeOK, history
<1>2. n \in Procs
  BY DEF Procs
<1>3. PendingPage(FetchLimit) \subseteq byState /\ byState \subseteq Events
  BY DEF PendingPage, Inv, TypeOK, TablesTypeOK
<1>4. TypeOK'
  <2>1. pc' \in [Procs -> Labels]
    BY <1>2 DEF RelayTick, Inv, TypeOK, Goto, Labels
  <2>2. rows' \in [Nodes -> SUBSET Events]
    BY <1>3 DEF RelayTick, Inv, TypeOK
  <2> QED
    BY <1>1, <2>1, <2>2 DEF RelayTick, Inv, TypeOK, envVars, history
<1>5. JobFor(n)'
  BY <1>2 DEF RelayTick, JobFor, Goto, Inv, TypeOK, Working
<1>6. broker \subseteq broker' /\ \A d \in Events : failures[d] <= failures'[d]
  BY FailuresStay DEF RelayTick, history
<1>7. \A q \in Procs \ {n} : pc'[q] = pc[q] /\ job'[q] = job[q]
  BY <1>2 DEF RelayTick, Goto, Inv, TypeOK
<1>8. \A m \in Nodes : rows'[m] \cup batch'[m] \subseteq
                             rows[m] \cup batch[m] \cup byState
  BY <1>3 DEF RelayTick, Inv, TypeOK
<1> QED
  BY <1>1, <1>2, <1>4, <1>5, <1>6, <1>7, <1>8, ProcessStepKeepsInv

\* The filter of PendingOutboxEvents keeps Inv.
LEMMA FilterRowKeepsInv ==
    ASSUME Inv, NEW n \in Nodes, FilterRow(n)
    PROVE  Inv'
<1>1. TablesTypeOK' /\ RowsOK' /\ \A d \in Events : Stored(d) => Stored(d)'
  BY NoStatementKeepsRows DEF FilterRow, Inv, TypeOK, history
<1>2. n \in Procs
  BY DEF Procs
<1>3. PICK e \in rows[n] :
        /\ rows' = [rows EXCEPT ![n] = @ \ {e}]
        /\ \/ /\ batch' = [batch EXCEPT ![n] = IF Eligible(e) THEN @ \cup {e} ELSE @]
              /\ UNCHANGED faults
           \/ ReadError(n) /\ UNCHANGED batch
  BY DEF FilterRow
<1>4. /\ rows' \in [Nodes -> SUBSET Events]
      /\ batch' \in [Nodes -> SUBSET Events]
      /\ \A m \in Nodes : rows'[m] \cup batch'[m] \subseteq rows[m] \cup batch[m]
  BY <1>3 DEF Inv, TypeOK
<1>5. TypeOK'
  BY <1>1, <1>3, <1>4 DEF FilterRow, ReadError, Inv, TypeOK, envVars, history
<1>6. JobFor(n)'
  BY <1>1, <1>2 DEF FilterRow, JobFor, Inv, JobOK, Stored, Working
<1>7. broker \subseteq broker' /\ \A d \in Events : failures[d] <= failures'[d]
  BY FailuresStay DEF FilterRow, history
<1>8. \A q \in Procs \ {n} : pc'[q] = pc[q] /\ job'[q] = job[q]
  BY DEF FilterRow
<1>9. \A m \in Nodes : rows'[m] \cup batch'[m] \subseteq
                             rows[m] \cup batch[m] \cup byState
  BY <1>4
<1> QED
  BY <1>1, <1>2, <1>5, <1>6, <1>7, <1>8, <1>9, ProcessStepKeepsInv

\* The end of PendingOutboxEvents keeps Inv.
LEMMA PageReadKeepsInv ==
    ASSUME Inv, NEW n \in Nodes, PageRead(n)
    PROVE  Inv'
<1>1. TablesTypeOK' /\ RowsOK' /\ \A d \in Events : Stored(d) => Stored(d)'
  BY NoStatementKeepsRows DEF PageRead, Inv, TypeOK, history
<1>2. n \in Procs
  BY DEF Procs
<1>3. /\ rows' \in [Nodes -> SUBSET Events]
      /\ batch' \in [Nodes -> SUBSET Events]
      /\ \A m \in Nodes : rows'[m] \cup batch'[m] \subseteq rows[m] \cup batch[m]
  BY DEF PageRead, Inv, TypeOK
<1>4. pc' \in [Procs -> Labels] /\ pc'[n] \in {"claim", "idle"}
  BY <1>2 DEF PageRead, Inv, TypeOK, Goto, Labels
<1>5. TypeOK'
  BY <1>1, <1>3, <1>4 DEF PageRead, ReadError, Cancel, Inv, TypeOK, envVars, history
<1>6. JobFor(n)'
  BY <1>4 DEF JobFor, Working
<1> QED
  BY <1>1, <1>2, <1>3, <1>5, <1>6, ProcessStepKeepsInv
     DEF PageRead, Goto, Inv, TypeOK, history

\* ClaimOutboxLease, won, lost or failed, keeps Inv.
LEMMA ClaimOutboxLeaseKeepsInv ==
    ASSUME Inv, NEW n \in Nodes, ClaimOutboxLease(n)
    PROVE  Inv'
<1>1. PICK e \in batch[n] :
        /\ batch' = [batch EXCEPT ![n] = @ \ {e}]
        /\ \/ /\ TakeLease(e)
              /\ Goto(n, "publish")
              /\ job' = [job EXCEPT ![n].ev = e]
              /\ lapsed' = lapsed \ {n}
              /\ UNCHANGED faults
           \/ UNCHANGED <<tables, pc, job, faults, lapsed>>
           \/ /\ ReadError(n)
              /\ TakeLease(e) \/ UNCHANGED tables
              /\ UNCHANGED <<pc, job, lapsed>>
  BY DEF ClaimOutboxLease
<1>2. UNCHANGED <<broker, rows, doomed, envVars, expired, failures, excused>>
  BY DEF ClaimOutboxLease
<1>3. e \in Events /\ Stored(e) /\ n \in Procs
  BY DEF Inv, TypeOK, BatchOK, Stored, Procs
<1>4. TablesTypeOK' /\ RowsOK' /\ \A d \in Events : Stored(d) => Stored(d)'
  <2>1. CASE TakeLease(e)
    BY <1>2, <1>3, <2>1, TakeLeaseKeepsRows DEF Inv, TypeOK
  <2>2. CASE UNCHANGED tables
    BY <1>2, <2>2, NoStatementKeepsRows DEF Inv, TypeOK
  <2> QED
    BY <1>1, <2>1, <2>2
<1>5. /\ batch' \in [Nodes -> SUBSET Events]
      /\ \A m \in Nodes : rows'[m] \cup batch'[m] \subseteq rows[m] \cup batch[m]
  BY <1>1, <1>2 DEF Inv, TypeOK
<1>6. /\ job' \in [Procs -> Job]
      /\ pc' \in [Procs -> Labels]
      /\ \A q \in Procs \ {n} : pc'[q] = pc[q] /\ job'[q] = job[q]
      /\ \/ pc'[n] = "publish" /\ job'[n].ev = e
         \/ pc'[n] = "claim"
  <2>1. CASE Goto(n, "publish") /\ job' = [job EXCEPT ![n].ev = e]
    <3>1. job' \in [Procs -> Job] /\ job'[n].ev = e
      BY <1>3, <2>1, EventsAssumption DEF Inv, TypeOK, Job
    <3>2. pc' \in [Procs -> Labels] /\ pc'[n] = "publish"
      BY <1>3, <2>1 DEF Inv, TypeOK, Goto, Labels, Working
    <3> QED
      BY <2>1, <3>1, <3>2 DEF Goto, Inv, TypeOK
  <2>2. CASE UNCHANGED <<pc, job>>
    BY <2>2 DEF ClaimOutboxLease, Inv, TypeOK
  <2> QED
    BY <1>1, <2>1, <2>2
<1>7. TypeOK'
  BY <1>1, <1>2, <1>4, <1>5, <1>6 DEF ReadError, Inv, TypeOK, envVars
<1>8. JobFor(n)'
  BY <1>3, <1>4, <1>6 DEF JobFor, Working, Stored
<1> QED
  BY <1>2, <1>3, <1>4, <1>5, <1>6, <1>7, <1>8, ProcessStepKeepsInv
     DEF Inv, TypeOK

\* The end of relayOutboxBatch keeps Inv.
LEMMA BatchDoneKeepsInv ==
    ASSUME Inv, NEW n \in Nodes, BatchDone(n)
    PROVE  Inv'
<1>1. TablesTypeOK' /\ RowsOK' /\ \A d \in Events : Stored(d) => Stored(d)'
  BY NoStatementKeepsRows DEF BatchDone, Inv, TypeOK, history
<1>2. n \in Procs
  BY DEF Procs
<1>3. pc' \in [Procs -> Labels] /\ pc'[n] = "idle"
  BY <1>2 DEF BatchDone, Inv, TypeOK, Goto, Labels
<1>4. TypeOK'
  BY <1>1, <1>3 DEF BatchDone, Cancel, Inv, TypeOK, envVars, history
<1>5. JobFor(n)'
  BY <1>3 DEF JobFor, Working
<1>6. broker \subseteq broker' /\ \A d \in Events : failures[d] <= failures'[d]
  BY FailuresStay DEF BatchDone, history
<1>7. \A q \in Procs \ {n} : pc'[q] = pc[q] /\ job'[q] = job[q]
  BY DEF BatchDone, Goto, Inv, TypeOK
<1>8. \A m \in Nodes : rows'[m] \cup batch'[m] \subseteq
                             rows[m] \cup batch[m] \cup byState
  BY DEF BatchDone
<1> QED
  BY <1>1, <1>2, <1>4, <1>5, <1>6, <1>7, <1>8, ProcessStepKeepsInv

\* The dead letter a replay reads has an earned count.
LEMMA ReadDeadLetterKeepsInv ==
    ASSUME Inv, NEW a \in Admins, ReadDeadLetter(a)
    PROVE  Inv'
<1>1. PICK e \in Events :
        /\ dlById[e].exists
        /\ job' = [job EXCEPT ![a] = [ev |-> e, attempt |-> 0,
                                      count |-> dlById[e].count,
                                      at |-> dlById[e].at]]
  BY DEF ReadDeadLetter
<1>2. /\ Stored(e)
      /\ dlById[e].count \in Nat /\ dlById[e].at \in Nat
      /\ dlById[e].count <= failures[e]
      /\ dlById[e].count >= QuarantineAfter
  BY <1>1 DEF Inv, RowsOK, TypeOK, TablesTypeOK, DeadLetterRow, Stored
<1>3. TablesTypeOK' /\ RowsOK' /\ \A d \in Events : Stored(d) => Stored(d)'
  BY NoStatementKeepsRows DEF ReadDeadLetter, Inv, TypeOK, history
<1>4. a \in Procs
  BY DEF Procs
<1>5. /\ job' \in [Procs -> Job]
      /\ job'[a].ev = e
      /\ job'[a].count = dlById[e].count
      /\ \A q \in Procs \ {a} : job'[q] = job[q]
  BY <1>1, <1>2, <1>4, EventsAssumption DEF Inv, TypeOK, Job
<1>6. pc' \in [Procs -> Labels] /\ pc'[a] = "requeue"
  BY <1>4 DEF ReadDeadLetter, Inv, TypeOK, Goto, Labels
<1>7. TypeOK'
  BY <1>3, <1>5, <1>6 DEF ReadDeadLetter, Inv, TypeOK, envVars, history
<1>8. JobFor(a)'
  BY <1>2, <1>3, <1>5, <1>6 DEF ReadDeadLetter, JobFor, Stored, history
<1>9. broker \subseteq broker' /\ \A d \in Events : failures[d] <= failures'[d]
  BY FailuresStay DEF ReadDeadLetter, history
<1>10. \A q \in Procs \ {a} : pc'[q] = pc[q] /\ job'[q] = job[q]
  BY <1>5 DEF ReadDeadLetter, Goto, Inv, TypeOK
<1>11. \A m \in Nodes : rows'[m] \cup batch'[m] \subseteq
                             rows[m] \cup batch[m] \cup byState
  BY DEF ReadDeadLetter
<1> QED
  BY <1>3, <1>4, <1>7, <1>8, <1>9, <1>10, <1>11, ProcessStepKeepsInv

\* ReplayDeadLetter's batch, from a row it read before, keeps Inv.
LEMMA ReplayDeadLetterKeepsInv ==
    ASSUME Inv, NEW a \in Admins, ReplayDeadLetter(a)
    PROVE  Inv'
<1>1. a \in Procs
  BY DEF Procs
<1>2. /\ Stored(job[a].ev)
      /\ job[a].count \in Nat /\ job[a].at \in Nat
      /\ job[a].count <= failures[job[a].ev]
  BY <1>1 DEF ReplayDeadLetter, Inv, JobOK, JobFor, TypeOK, Job
<1>3. PICK applied \in BOOLEAN, err \in BOOLEAN :
        /\ Outcome(a, applied, err)
        /\ IF applied THEN RequeueDeadLetter(job[a].ev, job[a].at, job[a].count)
                      ELSE UNCHANGED tables
        /\ excused' = IF applied THEN excused \ {job[a].ev} ELSE excused
  BY DEF ReplayDeadLetter
<1>4. UNCHANGED <<broker, rows, batch, doomed, envVars, failures, lapsed>>
  BY DEF ReplayDeadLetter
<1>5. TablesTypeOK' /\ RowsOK' /\ \A d \in Events : Stored(d) => Stored(d)'
  <2>1. CASE applied
    BY <1>2, <1>3, <1>4, <2>1, RequeueDeadLetterKeepsRows DEF Inv, TypeOK, Stored
  <2>2. CASE ~applied
    BY <1>3, <1>4, <2>2, NoStatementKeepsRows DEF Inv, TypeOK
  <2> QED
    BY <2>1, <2>2
<1>6. job' \in [Procs -> Job] /\ \A q \in Procs \ {a} : job'[q] = job[q]
  BY <1>1 DEF ReplayDeadLetter, Inv, TypeOK, Job, NoJob
<1>7. pc' \in [Procs -> Labels] /\ pc'[a] = "done"
  BY <1>1 DEF ReplayDeadLetter, Inv, TypeOK, Goto, Labels
<1>8. TypeOK'
  <2>1. expired' \subseteq Procs
    BY DEF ReplayDeadLetter, Cancel, Inv, TypeOK
  <2> QED
    BY <1>3, <1>4, <1>5, <1>6, <1>7, <2>1 DEF Inv, TypeOK, envVars, Outcome
<1>9. JobFor(a)'
  BY <1>7 DEF JobFor, Working
<1>10. broker \subseteq broker' /\ \A d \in Events : failures[d] <= failures'[d]
  BY <1>4, FailuresStay
<1>11. \A q \in Procs \ {a} : pc'[q] = pc[q] /\ job'[q] = job[q]
  BY <1>6 DEF ReplayDeadLetter, Goto, Inv, TypeOK
<1>12. \A m \in Nodes : rows'[m] \cup batch'[m] \subseteq
                             rows[m] \cup batch[m] \cup byState
  BY <1>4
<1> QED
  BY <1>1, <1>5, <1>8, <1>9, <1>10, <1>11, <1>12, ProcessStepKeepsInv

\* The cleanup's read of aged dead letters keeps Inv.
LEMMA ReadAgedDeadLettersKeepsInv ==
    ASSUME Inv, NEW c \in Cleaners, ReadAgedDeadLetters(c)
    PROVE  Inv'
<1>1. TablesTypeOK' /\ RowsOK' /\ \A d \in Events : Stored(d) => Stored(d)'
  BY NoStatementKeepsRows DEF ReadAgedDeadLetters, Inv, TypeOK, history
<1>2. c \in Procs
  BY DEF Procs
<1>3. pc' \in [Procs -> Labels] /\ pc'[c] = "purge"
  BY <1>2 DEF ReadAgedDeadLetters, Inv, TypeOK, Goto, Labels
<1>4. doomed' \in [Cleaners -> SUBSET (Nat \X Events)]
  <2>1. PICK cutoff \in 1..clock :
          doomed' = [doomed EXCEPT ![c] = AgedDeadLetters(cutoff, CleanupBatch)]
    BY DEF ReadAgedDeadLetters
  <2>2. AgedDeadLetters(cutoff, CleanupBatch) \subseteq Nat \X Events
    BY DEF AgedDeadLetters, Inv, TypeOK, TablesTypeOK
  <2> QED
    BY <2>1, <2>2 DEF Inv, TypeOK
<1>5. TypeOK'
  BY <1>1, <1>3, <1>4 DEF ReadAgedDeadLetters, Inv, TypeOK, envVars, history
<1>6. JobFor(c)'
  BY <1>3 DEF JobFor, Working
<1>7. broker \subseteq broker' /\ \A d \in Events : failures[d] <= failures'[d]
  BY FailuresStay DEF ReadAgedDeadLetters, history
<1>8. \A q \in Procs \ {c} : pc'[q] = pc[q] /\ job'[q] = job[q]
  BY DEF ReadAgedDeadLetters, Goto, Inv, TypeOK
<1>9. \A m \in Nodes : rows'[m] \cup batch'[m] \subseteq
                             rows[m] \cup batch[m] \cup byState
  BY DEF ReadAgedDeadLetters
<1> QED
  BY <1>1, <1>2, <1>5, <1>6, <1>7, <1>8, <1>9, ProcessStepKeepsInv

\* The cleanup's deletion of a dead letter it read before keeps Inv.
LEMMA CleanupExpiredKeepsInv ==
    ASSUME Inv, NEW c \in Cleaners, CleanupExpired(c)
    PROVE  Inv'
<1>1. PICK row \in doomed[c], applied \in BOOLEAN, err \in BOOLEAN :
        /\ Outcome(c, applied, err)
        /\ IF applied THEN DeleteDeadLetter(row[2], row[1]) ELSE UNCHANGED tables
        /\ excused' = IF applied /\ dlById[row[2]].exists
                      THEN excused \cup {row[2]} ELSE excused
        /\ doomed' = [doomed EXCEPT ![c] = @ \ {row}]
        /\ Goto(c, IF doomed[c] = {row} THEN "idle" ELSE "purge")
  BY DEF CleanupExpired
<1>2. UNCHANGED <<broker, job, rows, batch, envVars, expired, failures,
                  lapsed>>
  BY DEF CleanupExpired
<1>3. c \in Procs /\ row[1] \in Nat /\ row[2] \in Events
  BY DEF Procs, Inv, TypeOK
<1>4. TablesTypeOK' /\ RowsOK' /\ \A d \in Events : Stored(d) => Stored(d)'
  <2>1. CASE applied
    BY <1>1, <1>2, <1>3, <2>1, DeleteDeadLetterKeepsRows DEF Inv, TypeOK
  <2>2. CASE ~applied
    BY <1>1, <1>2, <2>2, NoStatementKeepsRows DEF Inv, TypeOK
  <2> QED
    BY <2>1, <2>2
<1>5. pc' \in [Procs -> Labels] /\ pc'[c] \in {"idle", "purge"}
  BY <1>1, <1>3 DEF Inv, TypeOK, Goto, Labels
<1>6. doomed' \in [Cleaners -> SUBSET (Nat \X Events)]
  BY <1>1 DEF Inv, TypeOK
<1>7. TypeOK'
  BY <1>1, <1>2, <1>3, <1>4, <1>5, <1>6 DEF Inv, TypeOK, envVars, Outcome
<1>8. JobFor(c)'
  BY <1>5 DEF JobFor, Working
<1>9. broker \subseteq broker' /\ \A d \in Events : failures[d] <= failures'[d]
  BY <1>2, FailuresStay
<1>10. \A q \in Procs \ {c} : pc'[q] = pc[q] /\ job'[q] = job[q]
  BY <1>1, <1>2 DEF Goto, Inv, TypeOK
<1>11. \A m \in Nodes : rows'[m] \cup batch'[m] \subseteq
                             rows[m] \cup batch[m] \cup byState
  BY <1>2
<1> QED
  BY <1>3, <1>4, <1>7, <1>8, <1>9, <1>10, <1>11, ProcessStepKeepsInv

\* A crash at any statement keeps Inv.
LEMMA CrashKeepsInv ==
    ASSUME Inv, NEW p \in Procs, Crash(p)
    PROVE  Inv'
<1>1. TablesTypeOK' /\ RowsOK' /\ \A d \in Events : Stored(d) => Stored(d)'
  BY NoStatementKeepsRows DEF Crash, Inv, TypeOK
<1>2. job' \in [Procs -> Job] /\ \A q \in Procs \ {p} : job'[q] = job[q]
  BY DEF Crash, Inv, TypeOK, Job, NoJob
<1>3. pc' \in [Procs -> Labels] /\ pc'[p] \in {"failed", "done", "idle"}
  BY DEF Crash, Inv, TypeOK, Goto, Labels, Answered
<1>4. /\ rows' \in [Nodes -> SUBSET Events]
      /\ batch' \in [Nodes -> SUBSET Events]
      /\ \A m \in Nodes : rows'[m] \cup batch'[m] \subseteq rows[m] \cup batch[m]
  BY DEF Crash, Inv, TypeOK
<1>5. doomed' \in [Cleaners -> SUBSET (Nat \X Events)]
  BY DEF Crash, Inv, TypeOK
<1>6. TypeOK'
  <2>1. expired' \subseteq Procs /\ excused' \subseteq Events
    BY DEF Crash, Cancel, Inv, JobOK, JobFor, Stored, Working, TypeOK
  <2> QED
    BY <1>1, <1>2, <1>3, <1>4, <1>5, <2>1 DEF Crash, Inv, TypeOK
<1>7. JobFor(p)'
  BY <1>3 DEF JobFor, Working
<1>8. broker \subseteq broker' /\ \A d \in Events : failures[d] <= failures'[d]
  BY FailuresStay DEF Crash
<1>9. \A q \in Procs \ {p} : pc'[q] = pc[q] /\ job'[q] = job[q]
  BY <1>2 DEF Crash, Goto, Inv, TypeOK
<1>10. \A m \in Nodes : rows'[m] \cup batch'[m] \subseteq
                             rows[m] \cup batch[m] \cup byState
  BY <1>4
<1> QED
  BY <1>1, <1>6, <1>7, <1>8, <1>9, <1>10, ProcessStepKeepsInv

-----------------------------------------------------------------------------
(* Steps of the environment.                                               *)

\* A step that changes no process, no publish state, no count and no
\* quarantine keeps JobOK and BatchOK.
LEMMA QuietStepKeepsInv ==
    ASSUME Inv, TypeOK', RowsOK',
           UNCHANGED <<outbox, broker, pc, job, rows, batch, failures>>
    PROVE  Inv'
<1>1. JobOK'
  BY DEF Inv, JobOK, JobFor, Stored
<1>2. BatchOK'
  BY DEF Inv, BatchOK
<1> QED
  BY <1>1, <1>2 DEF Inv

\* The end of a lease or of a backoff keeps Inv.
LEMMA TimerKeepsInv ==
    ASSUME Inv, NEW e \in Events, LeaseExpires(e) \/ BackoffElapses(e)
    PROVE  Inv'
<1>1. /\ retry' \in [Events -> RetryRow]
      /\ \A d \in Events : /\ retry'[d].exists = retry[d].exists
                           /\ retry'[d].count = retry[d].count
                           /\ retry'[d].quarantined = retry[d].quarantined
  <2>1. retry \in [Events -> RetryRow]
    BY DEF Inv, TypeOK, TablesTypeOK
  <2>2. CASE retry' = [retry EXCEPT ![e].leased = FALSE]
    BY <2>1, <2>2 DEF RetryRow
  <2>3. CASE retry' = [retry EXCEPT ![e].due = TRUE]
    BY <2>1, <2>3 DEF RetryRow
  <2> QED
    BY <2>2, <2>3 DEF LeaseExpires, BackoffElapses
<1>2. UNCHANGED <<outbox, byState, dlByTime, dlById, broker, procVars, envVars,
                  faults, expired, failures, excused>>
  BY DEF LeaseExpires, BackoffElapses, history
<1>3. lapsed' \subseteq Nodes
  BY DEF LeaseExpires, BackoffElapses, history, Inv, TypeOK
<1>4. TypeOK'
  BY <1>1, <1>2, <1>3 DEF Inv, TypeOK, TablesTypeOK, procVars, envVars
<1>5. RowsOK'
  BY <1>1, <1>2 DEF Inv, RowsOK
<1> QED
  BY <1>2, <1>4, <1>5, QuietStepKeepsInv DEF procVars

\* A deadline that passes keeps Inv.
LEMMA DeadlineKeepsInv ==
    ASSUME Inv, NEW p \in Procs, DeadlinePasses(p)
    PROVE  Inv'
<1>1. /\ UNCHANGED <<tables, broker, procVars, envVars, faults, history>>
      /\ expired' \subseteq Procs
  BY DEF DeadlinePasses, Inv, TypeOK
<1>2. TypeOK'
  BY <1>1 DEF Inv, TypeOK, TablesTypeOK, tables, procVars, envVars, history
<1>3. RowsOK'
  BY <1>1 DEF Inv, RowsOK, tables, history
<1> QED
  BY <1>1, <1>2, <1>3, QuietStepKeepsInv DEF tables, procVars, history

\* Time, a change of leadership and the pause endpoint keep Inv.
LEMMA SwitchKeepsInv ==
    ASSUME Inv,
           \/ ClockAdvances
           \/ \E n \in Switched : PauseOrResume(n) \/ LeaderChange(n)
    PROVE  Inv'
<1>1. UNCHANGED <<tables, broker, procVars, faults, expired, history>>
  BY DEF ClockAdvances, PauseOrResume, LeaderChange
<1>2. clock' \in Nat /\ leader' \subseteq Nodes /\ paused' \subseteq Nodes
  BY LimitsAssumption
     DEF ClockAdvances, PauseOrResume, LeaderChange, Inv, TypeOK
<1>3. TypeOK'
  BY <1>1, <1>2 DEF Inv, TypeOK, TablesTypeOK, tables, procVars, history
<1>4. RowsOK'
  BY <1>1 DEF Inv, RowsOK, tables, history
<1> QED
  BY <1>1, <1>3, <1>4, QuietStepKeepsInv DEF tables, procVars, history

-----------------------------------------------------------------------------
(* The theorems.                                                           *)

\* Empty tables and idle processes satisfy Inv.
LEMMA InitInv == Init => Inv
<1> SUFFICES ASSUME Init PROVE Inv
  OBVIOUS
<1>1. TablesTypeOK
  BY DEF Init, TablesInit, TablesTypeOK, NoRetryRow, RetryRow, NoDeadLetter,
         DeadLetterRow
<1>2. pc \in [Procs -> Labels] /\ \A p \in Procs : pc[p] \in {"start", "idle"}
  BY DEF Init, Start, Labels
<1>3. TypeOK
  BY <1>1, <1>2 DEF Init, TypeOK, Job, NoJob
<1>4. JobOK
  BY <1>2 DEF JobOK, JobFor, Working
<1>5. BatchOK
  BY DEF Init, BatchOK
<1>6. RowsOK
  <2>1. \A e \in Events : /\ outbox[e] = "none" /\ e \notin byState
                          /\ retry[e] = NoRetryRow /\ dlById[e] = NoDeadLetter
                          /\ failures[e] = 0
    BY DEF Init, TablesInit
  <2> QED
    BY <2>1 DEF RowsOK, NoRetryRow, NoDeadLetter
<1> QED
  BY <1>3, <1>4, <1>5, <1>6 DEF Inv

\* Every step of the outbox keeps Inv.
LEMMA NextInv == Inv /\ [Next]_vars => Inv'
<1> SUFFICES ASSUME Inv, [Next]_vars PROVE Inv'
  OBVIOUS
<1>1. ASSUME NEW p \in Procs, PublishStep(p) PROVE Inv'
  BY <1>1, PublishAckKeepsInv, PublishErrorKeepsInv,
     MarkOutboxPublishedKeepsInv, ReadRetryCountKeepsInv,
     WriteRetryStateKeepsInv, WriteDeadLetterKeepsInv DEF PublishStep
<1>2. ASSUME NEW h \in Handlers, HandlerStep(h) PROVE Inv'
  BY <1>1, <1>2, AppendNewKeepsInv, AppendDuplicateKeepsInv,
     AppendErrorKeepsInv DEF HandlerStep, Procs
<1>3. ASSUME NEW n \in Nodes, RelayStep(n) PROVE Inv'
  BY <1>1, <1>3, RelayTickKeepsInv, FilterRowKeepsInv, PageReadKeepsInv,
     ClaimOutboxLeaseKeepsInv, BatchDoneKeepsInv DEF RelayStep, Procs
<1>4. ASSUME NEW a \in Admins, AdminStep(a) PROVE Inv'
  BY <1>4, ReadDeadLetterKeepsInv, ReplayDeadLetterKeepsInv DEF AdminStep
<1>5. ASSUME NEW c \in Cleaners, CleanerStep(c) PROVE Inv'
  BY <1>5, ReadAgedDeadLettersKeepsInv, CleanupExpiredKeepsInv DEF CleanerStep
<1>6. CASE Environment
  BY <1>6, CrashKeepsInv, DeadlineKeepsInv, TimerKeepsInv,
     SwitchKeepsInv DEF Environment
<1>7. CASE UNCHANGED vars
  <2>1. TypeOK'
    BY <1>7 DEF Inv, TypeOK, TablesTypeOK, vars, tables, procVars, envVars, history
  <2>2. RowsOK'
    BY <1>7 DEF Inv, RowsOK, vars, tables, history
  <2> QED
    BY <1>7, <2>1, <2>2, QuietStepKeepsInv DEF vars, tables, procVars, history
<1> QED
  BY <1>2, <1>3, <1>4, <1>5, <1>6, <1>7 DEF Next

\* Inv is an invariant of the outbox, for any events, nodes, requests and limits.
THEOREM InvHolds == Spec => []Inv
  BY InitInv, NextInv, PTL DEF Spec

\* The variables of the outbox model keep their types.
THEOREM TypeCorrect == Spec => []TypeOK
<1>1. Inv => TypeOK
  BY DEF Inv
<1> QED
  BY <1>1, InvHolds, PTL

\* An event whose append batch was applied is never lost: the relays' index or
\* the broker has it, after any sequence of crashes, failed or half-failed store
\* calls, late failure reports, replays and cleanups.
THEOREM EventsAreNotLost == Spec => []NoEventLost
<1>1. Inv => NoEventLost
  BY DEF Inv, TypeOK, TablesTypeOK, RowsOK, NoEventLost
<1> QED
  BY <1>1, InvHolds, PTL

\* An event in the relays' index always has the retry row ClaimOutboxLease needs.
THEOREM IndexedEventsAreClaimable == Spec => []IndexedIsClaimable
<1>1. Inv => IndexedIsClaimable
  BY DEF Inv, RowsOK, IndexedIsClaimable
<1> QED
  BY <1>1, InvHolds, PTL

\* The answers 201/200 and 202 of the publish endpoint are true.
THEOREM ClientsAreToldTheTruth == Spec => []AnswersAreTrue
<1>1. ASSUME Inv, NEW h \in Handlers
      PROVE  /\ pc[h] = "created" => job[h].ev \in broker
             /\ pc[h] = "queued" => job[h].ev \in byState \cup broker
  <2>1. JobFor(h)
    BY <1>1 DEF Inv, JobOK, Procs
  <2>2. pc[h] = "queued" => Stored(job[h].ev)
    BY <2>1 DEF JobFor
  <2> QED
    BY <1>1, <2>1, <2>2
       DEF JobFor, Stored, Inv, RowsOK, TypeOK, TablesTypeOK
<1>2. Inv => AnswersAreTrue
  BY <1>1 DEF AnswersAreTrue
<1> QED
  BY <1>2, InvHolds, PTL

\* No event is quarantined or dead-lettered before QuarantineAfter publish runs
\* failed, however the read-modify-writes of RecordOutboxFailure interleave.
THEOREM QuarantineNeedsFailures == Spec => []QuarantineIsEarned
<1>1. ASSUME Inv, NEW e \in Events, retry[e].quarantined \/ dlById[e].exists
      PROVE  failures[e] >= QuarantineAfter
  <2>1. retry[e].count \in Nat /\ dlById[e].count \in Nat /\ failures[e] \in Nat
    BY <1>1 DEF Inv, TypeOK, TablesTypeOK, RetryRow, DeadLetterRow
  <2>2. \E k \in Nat : QuarantineAfter <= k /\ k <= failures[e]
    BY <1>1, <2>1 DEF Inv, RowsOK
  <2> QED
    BY <2>1, <2>2, QuarantineAssumption
<1>2. Inv => QuarantineIsEarned
  BY <1>1 DEF QuarantineIsEarned
<1> QED
  BY <1>2, InvHolds, PTL

\* A dead letter that can be replayed is in the list an operator sees.
THEOREM ReplayableLettersAreListed == Spec => []ReplayableIsListed
<1>1. Inv => ReplayableIsListed
  BY DEF Inv, RowsOK, ReplayableIsListed
<1> QED
  BY <1>1, InvHolds, PTL

-----------------------------------------------------------------------------
(* Quarantined events that no operator can replay.                         *)

\* A step that is p's leaves the other processes where they are.
OthersStay(p) == \A q \in Procs \ {p} : pc'[q] = pc[q] /\ job'[q] = job[q]

\* A step neither quarantines e nor takes the dead letter of a quarantined e.
StaysOpen(e) ==
    retry'[e].quarantined =>
        retry[e].quarantined /\ (dlById[e].exists => dlById'[e].exists)

\* A step of p leaves e as hidden and as excused as it was.
LeftAlone(p, e) ==
    /\ StaysOpen(e)
    /\ e \in excused => e \in excused'
    /\ pc[p] = "deadletter" => job[p].ev # e

\* After a step e is within reach or excused.
Accounted(e) == e \in excused' \/ e \notin HiddenQuarantines'

\* What holds after a step of one process, event by event, is HiddenIsExcused.
LEMMA EventByEvent ==
    ASSUME HiddenIsExcused, NEW p \in Procs, OthersStay(p),
           \A e \in Events : LeftAlone(p, e) \/ Accounted(e)
    PROVE  HiddenIsExcused'
<1>1. ASSUME NEW e \in Events, e \in HiddenQuarantines', LeftAlone(p, e)
      PROVE  e \in excused'
  <2>1. /\ retry'[e].quarantined /\ ~dlById'[e].exists
        /\ \A q \in Procs : pc'[q] = "deadletter" => job'[q].ev # e
    BY <1>1 DEF HiddenQuarantines
  <2>2. retry[e].quarantined /\ ~dlById[e].exists
    BY <1>1, <2>1 DEF LeftAlone, StaysOpen
  <2>3. \A q \in Procs : pc[q] = "deadletter" => job[q].ev # e
    BY <1>1, <2>1 DEF OthersStay, LeftAlone
  <2>4. e \in HiddenQuarantines
    BY <2>2, <2>3 DEF HiddenQuarantines
  <2> QED
    BY <1>1, <2>4 DEF HiddenIsExcused, LeftAlone
<1>2. \A e \in Events : e \in HiddenQuarantines' => e \in excused'
  BY <1>1 DEF Accounted
<1> QED
  BY <1>2 DEF HiddenIsExcused, HiddenQuarantines

\* What the statements do to the rows of the events: an append, a publish mark, a
\* lease, a replay and a dead letter quarantine nothing and hide nothing.
LEMMA StatementsStayOpen ==
    ASSUME TablesTypeOK, NEW d \in Events, NEW t, NEW k,
           \/ InsertEvent(d) \/ MarkPublished(d) \/ TakeLease(d)
           \/ InsertDeadLetter(d, t, k) \/ RequeueDeadLetter(d, t, k)
           \/ UNCHANGED tables
    PROVE  \A e \in Events : StaysOpen(e)
<1> USE DEF StaysOpen, TablesTypeOK, RetryRow, DeadLetterRow
<1>1. CASE InsertEvent(d)
  BY <1>1 DEF InsertEvent, NoRetryRow
<1>2. CASE MarkPublished(d)
  BY <1>2 DEF MarkPublished, NoRetryRow
<1>3. CASE TakeLease(d)
  BY <1>3 DEF TakeLease
<1>4. CASE InsertDeadLetter(d, t, k)
  BY <1>4 DEF InsertDeadLetter
<1>5. CASE RequeueDeadLetter(d, t, k)
  BY <1>5 DEF RequeueDeadLetter
<1>6. CASE UNCHANGED tables
  BY <1>6 DEF tables
<1> QED
  BY <1>1, <1>2, <1>3, <1>4, <1>5, <1>6

\* A step of a process that is not about to write a dead letter, and that
\* excuses nothing, hides no event.
LEMMA QuietStepHidesNothing ==
    ASSUME HiddenIsExcused, NEW p \in Procs, OthersStay(p),
           pc[p] # "deadletter", \A e \in Events : StaysOpen(e),
           UNCHANGED excused
    PROVE  HiddenIsExcused'
<1>1. \A e \in Events : LeftAlone(p, e)
  BY DEF LeftAlone
<1> QED
  BY <1>1, EventByEvent

\* The publish mark takes its event out of quarantine.
LEMMA MarkHides ==
    ASSUME Inv, HiddenIsExcused, NEW p \in Procs, MarkOutboxPublished(p)
    PROVE  HiddenIsExcused'
<1>1. /\ OthersStay(p) /\ pc[p] = "mark" /\ job[p].ev \in Events /\ TablesTypeOK
  BY DEF MarkOutboxPublished, OthersStay, Goto, Leave, Inv, TypeOK, JobOK, JobFor,
         Stored, Working
<1>2. PICK applied \in BOOLEAN :
        /\ IF applied THEN MarkPublished(job[p].ev) ELSE UNCHANGED tables
        /\ excused' = IF applied THEN excused \ {job[p].ev} ELSE excused
  BY DEF MarkOutboxPublished
<1>3. \A e \in Events : StaysOpen(e)
  BY <1>1, <1>2, StatementsStayOpen
<1>4. applied => Accounted(job[p].ev)
  <2>1. applied => ~retry'[job[p].ev].quarantined
    <3>1. DOMAIN retry = Events
      BY <1>1 DEF TablesTypeOK
    <3>2. ~NoRetryRow.quarantined
      BY DEF NoRetryRow
    <3>3. applied => retry' = [retry EXCEPT ![job[p].ev] = NoRetryRow]
      BY <1>2 DEF MarkPublished
    <3>4. applied => retry'[job[p].ev] = NoRetryRow
      BY <1>1, <3>1, <3>3
    <3> QED
      BY <3>2, <3>4
  <2> QED
    BY <2>1 DEF Accounted, HiddenQuarantines
<1>5. \A e \in Events : LeftAlone(p, e) \/ Accounted(e)
  BY <1>1, <1>2, <1>3, <1>4 DEF LeftAlone
<1> QED
  BY <1>1, <1>5, EventByEvent

\* The first write of RecordOutboxFailure hides its event only when it reports an
\* error although it took effect.
LEMMA WriteRetryStateHides ==
    ASSUME Inv, HiddenIsExcused, NEW p \in Procs, WriteRetryState(p)
    PROVE  HiddenIsExcused'
<1>1. /\ job[p].ev \in Events /\ pc[p] = "record" /\ TablesTypeOK
      /\ job[p].count \in Nat /\ OthersStay(p)
  BY DEF Inv, TypeOK, Job, JobOK, JobFor, Stored, Working, WriteRetryState,
         OthersStay, Leave, Goto
<1>2. PICK applied \in BOOLEAN, err \in BOOLEAN :
        /\ IF applied THEN UpdateRetryState(job[p].ev, job[p].count)
                      ELSE UNCHANGED tables
        /\ IF err \/ job[p].count < QuarantineAfter
           THEN Leave(p, "queued")
           ELSE /\ Goto(p, "deadletter")
                /\ job' = [job EXCEPT ![p].at = clock]
        /\ excused' = IF applied /\ err /\ job[p].count >= QuarantineAfter
                      THEN excused \cup {job[p].ev} ELSE excused
  BY DEF WriteRetryState
<1>3. \A e \in Events : e \in excused => e \in excused'
  BY <1>2
<1>4. \A e \in Events \ {job[p].ev} : StaysOpen(e)
  BY <1>1, <1>2 DEF UpdateRetryState, tables, StaysOpen, TablesTypeOK
<1>5. StaysOpen(job[p].ev) \/ Accounted(job[p].ev)
  <2>1. CASE ~applied
    BY <1>2, <2>1 DEF tables, StaysOpen
  <2>2. CASE applied /\ job[p].count < QuarantineAfter
    <3>1. ~(job[p].count >= QuarantineAfter)
      BY <1>1, <2>2, QuarantineAssumption
    <3>2. UpdateRetryState(job[p].ev, job[p].count)
      BY <1>2, <2>2
    <3>3. retry'[job[p].ev].quarantined = (job[p].count >= QuarantineAfter)
      BY <1>1, <3>2 DEF UpdateRetryState, TablesTypeOK
    <3> QED
      BY <3>1, <3>3 DEF StaysOpen
  <2>3. CASE applied /\ err /\ ~(job[p].count < QuarantineAfter)
    <3>1. job[p].count >= QuarantineAfter
      BY <1>1, <2>3, QuarantineAssumption
    <3> QED
      BY <1>2, <2>3, <3>1 DEF Accounted
  <2>4. CASE ~err /\ ~(job[p].count < QuarantineAfter)
    <3>1. pc'[p] = "deadletter" /\ job'[p].ev = job[p].ev
      BY <1>2, <2>4 DEF Goto, Inv, TypeOK, Job
    <3> QED
      BY <3>1 DEF Accounted, HiddenQuarantines
  <2> QED
    BY <2>1, <2>2, <2>3, <2>4
<1>6. \A e \in Events : LeftAlone(p, e) \/ Accounted(e)
  BY <1>1, <1>3, <1>4, <1>5 DEF LeftAlone
<1> QED
  BY <1>1, <1>6, EventByEvent

\* The second write of RecordOutboxFailure hides its event only when it does not
\* take effect.
LEMMA WriteDeadLetterHides ==
    ASSUME Inv, HiddenIsExcused, NEW p \in Procs, WriteDeadLetter(p)
    PROVE  HiddenIsExcused'
<1>1. job[p].ev \in Events /\ OthersStay(p) /\ TablesTypeOK
  BY DEF Inv, TypeOK, JobOK, JobFor, Stored, Working, WriteDeadLetter,
         OthersStay, Leave, Goto
<1>2. PICK applied \in BOOLEAN :
        /\ IF applied THEN InsertDeadLetter(job[p].ev, job[p].at, job[p].count)
                      ELSE UNCHANGED tables
        /\ excused' = IF applied THEN excused \ {job[p].ev}
                                 ELSE excused \cup {job[p].ev}
  BY DEF WriteDeadLetter
<1>3. \A e \in Events : StaysOpen(e)
  BY <1>1, <1>2, StatementsStayOpen
<1>4. Accounted(job[p].ev)
  <2>1. applied => dlById'[job[p].ev].exists
    <3>1. DOMAIN dlById = Events
      BY <1>1 DEF TablesTypeOK
    <3> DEFINE row == [exists |-> TRUE, at |-> job[p].at, count |-> job[p].count]
    <3>2. row.exists = TRUE
      OBVIOUS
    <3>3. applied => dlById' = [dlById EXCEPT ![job[p].ev] = row]
      BY <1>2 DEF InsertDeadLetter
    <3> HIDE DEF row
    <3>4. applied => dlById'[job[p].ev] = row
      BY <1>1, <3>1, <3>3
    <3> QED
      BY <3>2, <3>4
  <2> QED
    BY <1>2, <2>1 DEF Accounted, HiddenQuarantines
<1>5. \A e \in Events : LeftAlone(p, e) \/ Accounted(e)
  BY <1>2, <1>3, <1>4 DEF LeftAlone
<1> QED
  BY <1>1, <1>5, EventByEvent

\* Every step of publishWithRetry and of what follows it accounts for its event.
LEMMA PublishStepHides ==
    ASSUME Inv, HiddenIsExcused, NEW p \in Procs, PublishStep(p)
    PROVE  HiddenIsExcused'
<1>1. CASE PublishAck(p) \/ PublishError(p) \/ ReadRetryCount(p)
  <2>1. OthersStay(p) /\ pc[p] # "deadletter" /\ UNCHANGED <<tables, excused>>
    BY <1>1 DEF PublishAck, PublishError, ReadRetryCount, OthersStay, Goto, Leave,
                Inv, TypeOK, history
  <2>2. \A e \in Events : StaysOpen(e)
    BY <2>1 DEF StaysOpen, tables
  <2> QED
    BY <2>1, <2>2, QuietStepHidesNothing
<1> QED
  BY <1>1, MarkHides, WriteRetryStateHides, WriteDeadLetterHides DEF PublishStep

\* A request's append hides no event.
LEMMA AppendHides ==
    ASSUME Inv, HiddenIsExcused, NEW h \in Handlers,
           AppendNew(h) \/ AppendDuplicate(h) \/ AppendError(h)
    PROVE  HiddenIsExcused'
<1>1. /\ OthersStay(h) /\ pc[h] # "deadletter" /\ h \in Procs /\ TablesTypeOK
      /\ UNCHANGED excused
  BY DEF AppendNew, AppendDuplicate, AppendError, OthersStay, Goto, Inv, TypeOK,
         Procs, history
<1>2. (\E d \in Events : InsertEvent(d)) \/ UNCHANGED tables
  BY DEF AppendNew, AppendDuplicate, AppendError
<1>3. \A e \in Events : StaysOpen(e)
  <2>1. CASE \E d \in Events : InsertEvent(d)
    BY <1>1, <2>1, StatementsStayOpen
  <2>2. CASE UNCHANGED tables
    BY <2>2 DEF StaysOpen, tables
  <2> QED
    BY <1>2, <2>1, <2>2
<1> QED
  BY <1>1, <1>3, QuietStepHidesNothing

\* A relay that reads pages and claims leases hides no event.
LEMMA RelayHides ==
    ASSUME Inv, HiddenIsExcused, NEW n \in Nodes,
           \/ RelayTick(n) \/ FilterRow(n) \/ PageRead(n)
           \/ ClaimOutboxLease(n) \/ BatchDone(n)
    PROVE  HiddenIsExcused'
<1>1. n \in Procs /\ TablesTypeOK /\ batch[n] \subseteq Events
  BY DEF Inv, TypeOK, Procs
<1>2. OthersStay(n) /\ pc[n] # "deadletter" /\ UNCHANGED excused
  BY DEF RelayTick, FilterRow, PageRead, ClaimOutboxLease, BatchDone,
         OthersStay, Goto, Inv, TypeOK, history
<1>3. (\E d \in Events : TakeLease(d)) \/ UNCHANGED tables
  BY <1>1 DEF RelayTick, FilterRow, PageRead, ClaimOutboxLease, BatchDone
<1>4. \A e \in Events : StaysOpen(e)
  <2>1. CASE \E d \in Events : TakeLease(d)
    BY <1>1, <2>1, StatementsStayOpen
  <2>2. CASE UNCHANGED tables
    BY <2>2 DEF StaysOpen, tables
  <2> QED
    BY <1>3, <2>1, <2>2
<1> QED
  BY <1>1, <1>2, <1>4, QuietStepHidesNothing

\* A replay takes the event out of quarantine with its dead letter.
LEMMA ReplayHides ==
    ASSUME Inv, HiddenIsExcused, NEW a \in Admins, AdminStep(a)
    PROVE  HiddenIsExcused'
<1>1. OthersStay(a) /\ pc[a] # "deadletter" /\ a \in Procs /\ TablesTypeOK
  BY DEF AdminStep, ReadDeadLetter, ReplayDeadLetter, OthersStay, Goto, Inv,
         TypeOK, Procs
<1>2. CASE ReadDeadLetter(a)
  BY <1>1, <1>2, QuietStepHidesNothing DEF ReadDeadLetter, StaysOpen, tables, history
<1>3. CASE ReplayDeadLetter(a)
  <2>1. job[a].ev \in Events
    BY <1>1, <1>3 DEF ReplayDeadLetter, Inv, JobOK, JobFor, Stored
  <2>2. PICK applied \in BOOLEAN :
          /\ IF applied THEN RequeueDeadLetter(job[a].ev, job[a].at, job[a].count)
                        ELSE UNCHANGED tables
          /\ excused' = IF applied THEN excused \ {job[a].ev} ELSE excused
    BY <1>3 DEF ReplayDeadLetter
  <2>3. \A e \in Events : StaysOpen(e)
    BY <1>1, <2>1, <2>2, StatementsStayOpen
  <2>4. applied => Accounted(job[a].ev)
    <3>1. applied => ~retry'[job[a].ev].quarantined
      BY <1>1, <2>1, <2>2 DEF RequeueDeadLetter, TablesTypeOK, RetryRow
    <3> QED
      BY <3>1 DEF Accounted, HiddenQuarantines
  <2>5. \A e \in Events : LeftAlone(a, e) \/ Accounted(e)
    BY <1>1, <2>2, <2>3, <2>4 DEF LeftAlone
  <2> QED
    BY <1>1, <2>5, EventByEvent
<1> QED
  BY <1>2, <1>3 DEF AdminStep

\* The cleanup excuses the event whose dead letter it deletes, also when the
\* letter is a newer one than the row it read.
LEMMA CleanupHides ==
    ASSUME Inv, HiddenIsExcused, NEW c \in Cleaners, CleanerStep(c)
    PROVE  HiddenIsExcused'
<1>1. c \in Procs /\ TablesTypeOK /\ pc[c] # "deadletter" /\ OthersStay(c)
  BY DEF Procs, CleanerStep, ReadAgedDeadLetters, CleanupExpired, OthersStay, Goto,
         Inv, TypeOK
<1>2. CASE ReadAgedDeadLetters(c)
  BY <1>1, <1>2, QuietStepHidesNothing
     DEF ReadAgedDeadLetters, StaysOpen, tables, history
<1>3. CASE CleanupExpired(c)
  <2>1. PICK row \in doomed[c], applied \in BOOLEAN :
          /\ IF applied THEN DeleteDeadLetter(row[2], row[1]) ELSE UNCHANGED tables
          /\ excused' = IF applied /\ dlById[row[2]].exists
                        THEN excused \cup {row[2]} ELSE excused
    BY <1>3 DEF CleanupExpired
  <2>2. ASSUME NEW e \in Events, e \notin excused'
        PROVE  StaysOpen(e)
    BY <1>1, <2>1, <2>2
       DEF DeleteDeadLetter, tables, StaysOpen, TablesTypeOK, DeadLetterRow
  <2>3. \A e \in Events : LeftAlone(c, e) \/ Accounted(e)
    BY <1>1, <2>1, <2>2 DEF LeftAlone, Accounted
  <2> QED
    BY <1>1, <2>3, EventByEvent
<1> QED
  BY <1>2, <1>3 DEF CleanerStep

\* A crash before the dead letter is written excuses the event; deadlines, timers,
\* the clock, pauses and changes of leadership hide none.
LEMMA EnvironmentHides ==
    ASSUME Inv, HiddenIsExcused, Environment \/ UNCHANGED vars
    PROVE  HiddenIsExcused'
<1>1. ASSUME NEW p \in Procs, Crash(p) PROVE HiddenIsExcused'
  <2>1. /\ OthersStay(p) /\ UNCHANGED tables
        /\ excused' = IF pc[p] = "deadletter" THEN excused \cup {job[p].ev}
                                              ELSE excused
    BY <1>1 DEF Crash, OthersStay, Goto, Inv, TypeOK
  <2>2. \A e \in Events : LeftAlone(p, e) \/ Accounted(e)
    BY <2>1 DEF LeftAlone, Accounted, StaysOpen, tables
  <2> QED
    BY <2>1, <2>2, EventByEvent
<1>2. ASSUME UNCHANGED <<pc, job, dlById, excused>>,
             \A e \in Events : retry'[e].quarantined = retry[e].quarantined
      PROVE  HiddenIsExcused'
  BY <1>2 DEF HiddenIsExcused, HiddenQuarantines
<1>3. ASSUME NEW e \in Events, LeaseExpires(e) \/ BackoffElapses(e)
      PROVE  HiddenIsExcused'
  <2>1. \A d \in Events : retry'[d].quarantined = retry[d].quarantined
    BY <1>3 DEF LeaseExpires, BackoffElapses, Inv, TypeOK, TablesTypeOK, RetryRow
  <2> QED
    BY <1>2, <1>3, <2>1 DEF LeaseExpires, BackoffElapses, procVars, history
<1>4. ASSUME \/ ClockAdvances \/ UNCHANGED vars
             \/ \E p \in Procs : DeadlinePasses(p)
             \/ \E n \in Switched : PauseOrResume(n) \/ LeaderChange(n)
      PROVE  HiddenIsExcused'
  BY <1>2, <1>4 DEF ClockAdvances, DeadlinePasses, PauseOrResume, LeaderChange,
                    vars, tables, procVars, history
<1> QED
  BY <1>1, <1>3, <1>4 DEF Environment

\* However requests, relays, replays and cleanups interleave in
\* RecordOutboxFailure and ReplayDeadLetter, an event is quarantined out of reach
\* of an operator only after the write of its dead letter failed or was cut off,
\* or after the cleanup deleted the letter.
THEOREM HiddenEventsAreExcused == Spec => []HiddenIsExcused
<1>1. Init => HiddenIsExcused
  BY DEF Init, TablesInit, NoRetryRow, HiddenQuarantines, HiddenIsExcused
<1>2. Inv /\ HiddenIsExcused /\ [Next]_vars => HiddenIsExcused'
  <2> SUFFICES ASSUME Inv, HiddenIsExcused, [Next]_vars PROVE HiddenIsExcused'
    OBVIOUS
  <2>1. ASSUME NEW h \in Handlers, HandlerStep(h) PROVE HiddenIsExcused'
    BY <2>1, AppendHides, PublishStepHides DEF HandlerStep, Procs
  <2>2. ASSUME NEW n \in Nodes, RelayStep(n) PROVE HiddenIsExcused'
    BY <2>2, RelayHides, PublishStepHides DEF RelayStep, Procs
  <2> QED
    BY <2>1, <2>2, ReplayHides, CleanupHides, EnvironmentHides DEF Next
<1> QED
  BY <1>1, <1>2, InvHolds, PTL DEF Spec
=============================================================================
