-------------------------- MODULE OutboxRefinement --------------------------
(***************************************************************************)
(* Proof that module Outbox implements module EventDelivery, for every     *)
(* value of the constants.  Each statement of the store is a step of the   *)
(* abstract store, and a step of a request is an abstract answer, because  *)
(* the invariant of OutboxProofs holds before and after it.                *)
(***************************************************************************)
EXTENDS OutboxProofs

-----------------------------------------------------------------------------
(* The store.                                                              *)

\* The append batch accepts the event; the mark retires what the broker has;
\* a replay puts a stored event back; a publish delivers a stored event.
LEMMA StatementsAreStoreSteps ==
    ASSUME Inv, NEW e \in Events
    PROVE  /\ outbox[e] = "none" /\ InsertEvent(e) /\ UNCHANGED broker =>
                Delivery!Accept(e)
           /\ Stored(e) /\ e \in broker /\ MarkPublished(e)
                /\ UNCHANGED broker => Delivery!Retire(e)
           /\ \A t, k : Stored(e) /\ RequeueDeadLetter(e, t, k)
                /\ UNCHANGED broker => Delivery!Requeue(e)
           /\ Stored(e) /\ UNCHANGED tables /\ broker' = broker \cup {e} =>
                Delivery!Deliver(e)
<1> USE DEF Inv, TypeOK, TablesTypeOK, Stored
<1>1. ASSUME outbox[e] = "none", InsertEvent(e), UNCHANGED broker
      PROVE  Delivery!Accept(e)
  BY <1>1 DEF InsertEvent, Delivery!Accept
<1>2. ASSUME Stored(e), e \in broker, MarkPublished(e), UNCHANGED broker
      PROVE  Delivery!Retire(e)
  BY <1>2 DEF MarkPublished, Delivery!Retire
<1>3. ASSUME NEW t, NEW k, Stored(e), RequeueDeadLetter(e, t, k), UNCHANGED broker
      PROVE  Delivery!Requeue(e)
  BY <1>3 DEF RequeueDeadLetter, Delivery!Requeue
<1>4. ASSUME Stored(e), UNCHANGED tables, broker' = broker \cup {e}
      PROVE  Delivery!Deliver(e)
  BY <1>4 DEF tables, Delivery!Deliver
<1> QED
  BY <1>1, <1>2, <1>3, <1>4

\* The other statements leave what the abstract store sees alone.
LEMMA QuietStatements ==
    ASSUME NEW e, NEW t, NEW k, UNCHANGED broker,
           \/ TakeLease(e)
           \/ UpdateRetryState(e, k)
           \/ InsertDeadLetter(e, t, k)
           \/ DeleteDeadLetter(e, t)
           \/ UNCHANGED tables
           \/ UNCHANGED <<outbox, byState>>
    PROVE  Delivery!StoreStep
<1>1. UNCHANGED <<outbox, byState, broker>>
  BY DEF TakeLease, UpdateRetryState, InsertDeadLetter, DeleteDeadLetter, tables
<1> QED
  BY <1>1 DEF Delivery!StoreStep, Delivery!store

\* Every step of the publishing code, in a request or in a relay, is a step of
\* the abstract store.
LEMMA PublishStepIsStoreStep ==
    ASSUME Inv, NEW p \in Procs, PublishStep(p)
    PROVE  Delivery!StoreStep
<1>1. Stored(job[p].ev)
  BY DEF PublishStep, PublishAck, PublishError, MarkOutboxPublished,
         ReadRetryCount, WriteRetryState, WriteDeadLetter, Working, Inv, JobOK,
         JobFor
<1>2. job[p].ev \in Events
  BY <1>1 DEF Stored
<1>3. CASE UNCHANGED tables /\ broker' \in {broker, broker \cup {job[p].ev}}
  <2>1. CASE broker' = broker
    BY <1>3, <2>1, QuietStatements
  <2>2. CASE broker' = broker \cup {job[p].ev}
    BY <1>1, <1>2, <1>3, <2>2, StatementsAreStoreSteps DEF Delivery!StoreStep
  <2> QED
    BY <1>3, <2>1, <2>2
<1>4. CASE PublishAck(p)
  BY <1>3, <1>4 DEF PublishAck
<1>5. CASE PublishError(p)
  BY <1>3, <1>5 DEF PublishError, Sent
<1>6. CASE MarkOutboxPublished(p)
  <2>1. job[p].ev \in broker
    BY <1>6 DEF MarkOutboxPublished, Inv, JobOK, JobFor
  <2>2. UNCHANGED broker /\ (MarkPublished(job[p].ev) \/ UNCHANGED tables)
    BY <1>6 DEF MarkOutboxPublished
  <2> QED
    BY <1>1, <1>2, <1>3, <2>1, <2>2, StatementsAreStoreSteps
       DEF Delivery!StoreStep
<1>7. CASE ReadRetryCount(p)
  BY <1>3, <1>7 DEF ReadRetryCount
<1>8. CASE WriteRetryState(p)
  BY <1>8, QuietStatements DEF WriteRetryState
<1>9. CASE WriteDeadLetter(p)
  BY <1>9, QuietStatements DEF WriteDeadLetter
<1> QED
  BY <1>4, <1>5, <1>6, <1>7, <1>8, <1>9 DEF PublishStep

\* Every step of the system is a step of the abstract store.
LEMMA NextIsStoreStep ==
    ASSUME Inv, Next
    PROVE  Delivery!StoreStep
<1> USE DEF Procs
<1>1. ASSUME NEW h \in Handlers, HandlerStep(h) PROVE Delivery!StoreStep
  <2>1. CASE AppendNew(h)
    <3>1. PICK e \in Events :
            /\ outbox[e] = "none"
            /\ InsertEvent(e) \/ UNCHANGED tables
            /\ UNCHANGED broker
      BY <2>1 DEF AppendNew
    <3> QED
      BY <3>1, StatementsAreStoreSteps, QuietStatements DEF Delivery!StoreStep
  <2>2. CASE AppendDuplicate(h) \/ AppendError(h)
    BY <2>2, QuietStatements DEF AppendDuplicate, AppendError
  <2> QED
    BY <1>1, <2>1, <2>2, PublishStepIsStoreStep DEF HandlerStep
<1>2. ASSUME NEW n \in Nodes, RelayStep(n) PROVE Delivery!StoreStep
  <2>1. CASE ClaimOutboxLease(n)
    BY <2>1, QuietStatements DEF ClaimOutboxLease
  <2>2. CASE RelayTick(n) \/ FilterRow(n) \/ PageRead(n) \/ BatchDone(n)
    BY <2>2, QuietStatements DEF RelayTick, FilterRow, PageRead, BatchDone
  <2> QED
    BY <1>2, <2>1, <2>2, PublishStepIsStoreStep DEF RelayStep
<1>3. ASSUME NEW a \in Admins, AdminStep(a) PROVE Delivery!StoreStep
  <2>1. CASE ReadDeadLetter(a)
    BY <2>1, QuietStatements DEF ReadDeadLetter
  <2>2. CASE ReplayDeadLetter(a)
    <3>1. Stored(job[a].ev)
      BY <2>2 DEF ReplayDeadLetter, Inv, JobOK, JobFor
    <3>2. /\ UNCHANGED broker
          /\ \/ RequeueDeadLetter(job[a].ev, job[a].at, job[a].count)
             \/ UNCHANGED tables
      BY <2>2 DEF ReplayDeadLetter
    <3>3. job[a].ev \in Events
      BY <3>1 DEF Stored
    <3> QED
      BY <3>1, <3>2, <3>3, StatementsAreStoreSteps, QuietStatements
         DEF Delivery!StoreStep
  <2> QED
    BY <1>3, <2>1, <2>2 DEF AdminStep
<1>4. ASSUME NEW c \in Cleaners, CleanerStep(c) PROVE Delivery!StoreStep
  <2>1. CASE ReadAgedDeadLetters(c)
    BY <2>1, QuietStatements DEF ReadAgedDeadLetters
  <2>2. CASE CleanupExpired(c)
    BY <2>2, QuietStatements DEF CleanupExpired
  <2> QED
    BY <1>4, <2>1, <2>2 DEF CleanerStep
<1>5. ASSUME Environment PROVE Delivery!StoreStep
  BY <1>5, QuietStatements
     DEF Environment, Crash, DeadlinePasses, LeaseExpires, BackoffElapses, ClockAdvances,
         PauseOrResume, LeaderChange, tables
<1> QED
  BY <1>1, <1>2, <1>3, <1>4, <1>5 DEF Next

-----------------------------------------------------------------------------
(* The answers.                                                            *)

\* A step in which at most one process p moves, and p only if it has not
\* answered yet, is an abstract answer or none: what p says is what the
\* invariant promises of a process that has answered.
LEMMA OneProcessAnswers ==
    ASSUME Inv, Inv', NEW p \in Procs,
           \A q \in Procs \ {p} : pc'[q] = pc[q] /\ job'[q] = job[q],
           pc[p] \notin Answered
    PROVE  Delivery!AnswerStep
<1> DEFINE old == [h \in Handlers |-> Told(h)]
           new == [h \in Handlers |-> Told(h)']
<1>1. \A h \in Handlers \ {p} : Told(h)' = Told(h)
  BY DEF Told, Procs
<1>2. CASE p \notin Handlers
  <2>1. new = old
    BY <1>1, <1>2
  <2> QED
    BY <2>1 DEF Delivery!AnswerStep
<1>3. CASE p \in Handlers
  <2>1. old[p] = [says |-> "nothing", of |-> 0]
    BY <1>3 DEF Told, Answered
  <2>2. new = [old EXCEPT ![p] = Told(p)']
    BY <1>1, <1>3
  <2>3. CASE pc'[p] = "created"
    <3>1. job'[p].ev \in broker' /\ Told(p)' = [says |-> "created", of |-> job'[p].ev]
      BY <2>3 DEF Inv, JobOK, JobFor, Told
    <3>2. \E e \in broker' :
            new = [old EXCEPT ![p] = [says |-> "created", of |-> e]]
      BY <2>2, <3>1
    <3> QED
      BY <1>3, <2>1, <3>2
         DEF Delivery!AnswerStep, Delivery!Tell, Delivery!NoAnswer
  <2>4. CASE pc'[p] = "queued"
    <3>1. /\ job'[p].ev \in {e \in Events : outbox'[e] # "none"}
          /\ Told(p)' = [says |-> "queued", of |-> job'[p].ev]
      BY <2>4 DEF Inv, JobOK, JobFor, Stored, Told
    <3>2. \E e \in {d \in Events : outbox'[d] # "none"} :
            new = [old EXCEPT ![p] = [says |-> "queued", of |-> e]]
      BY <2>2, <3>1
    <3> QED
      BY <1>3, <2>1, <3>2
         DEF Delivery!AnswerStep, Delivery!Tell, Delivery!NoAnswer
  <2>5. CASE pc'[p] = "failed"
    BY <1>3, <2>1, <2>2, <2>5
       DEF Delivery!AnswerStep, Delivery!Tell, Delivery!NoAnswer, Told
  <2>6. CASE pc'[p] \notin {"created", "queued", "failed"}
    <3>1. new = old
      BY <1>3, <2>1, <2>2, <2>6 DEF Told
    <3> QED
      BY <3>1 DEF Delivery!AnswerStep
  <2> QED
    BY <2>3, <2>4, <2>5, <2>6
<1> QED
  BY <1>2, <1>3

\* Every step of the system is an abstract answer or none.
LEMMA NextIsAnswerStep ==
    ASSUME Inv, Inv', Next
    PROVE  Delivery!AnswerStep
<1> DEFINE Moves(p) ==
             /\ \A q \in Procs \ {p} : pc'[q] = pc[q] /\ job'[q] = job[q]
             /\ pc[p] \notin Answered
<1> USE DEF Procs, Answered
<1>1. ASSUME NEW p \in Procs, PublishStep(p) PROVE Moves(p)
  BY <1>1 DEF PublishStep, PublishAck, PublishError, MarkOutboxPublished,
              ReadRetryCount, WriteRetryState, WriteDeadLetter, Leave, Goto,
              Inv, TypeOK
<1>2. ASSUME NEW h \in Handlers, HandlerStep(h) PROVE Moves(h)
  BY <1>1, <1>2 DEF HandlerStep, AppendNew, AppendDuplicate, AppendError, Goto,
                    Inv, TypeOK
<1>3. ASSUME NEW n \in Nodes, RelayStep(n) PROVE Moves(n)
  BY <1>1, <1>3 DEF RelayStep, RelayTick, FilterRow, PageRead,
                    ClaimOutboxLease, BatchDone, Goto, Inv, TypeOK
<1>4. ASSUME NEW a \in Admins, AdminStep(a) PROVE Moves(a)
  BY <1>4 DEF AdminStep, ReadDeadLetter, ReplayDeadLetter, Goto, Inv, TypeOK
<1>5. ASSUME NEW c \in Cleaners, CleanerStep(c) PROVE Moves(c)
  BY <1>5 DEF CleanerStep, ReadAgedDeadLetters, CleanupExpired, Goto, Inv, TypeOK
<1>6. ASSUME NEW p \in Procs, Crash(p) PROVE Moves(p)
  BY <1>6 DEF Crash, Goto, Inv, TypeOK
<1>7. CASE \E p \in Procs : Moves(p)
  BY <1>7, OneProcessAnswers
<1>8. CASE UNCHANGED <<pc, job>>
  BY <1>8 DEF Delivery!AnswerStep, Told
<1>9. ASSUME Environment PROVE (\E p \in Procs : Crash(p)) \/ UNCHANGED <<pc, job>>
  BY <1>9 DEF Environment, DeadlinePasses, LeaseExpires, BackoffElapses,
              ClockAdvances,
              PauseOrResume, LeaderChange, procVars
<1> HIDE DEF Moves
<1> QED
  BY <1>2, <1>3, <1>4, <1>5, <1>6, <1>7, <1>8, <1>9 DEF Next

-----------------------------------------------------------------------------
\* The outbox implements event delivery (DeliverySpec): whatever requests,
\* relays, replays, cleanups, crashes and failed calls interleave, a stored
\* event leaves outbox_by_state only once the broker has it and every client
\* gets one true answer.
THEOREM OutboxImplementsDelivery == Spec => DeliverySpec
<1>1. Init => Delivery!Init
  BY DEF Init, TablesInit, Delivery!Init, Delivery!NoAnswer, Told, Start, Procs
<1>2. Inv /\ Inv' /\ [Next]_vars =>
        [Delivery!Next]_<<Delivery!store, [h \in Handlers |-> Told(h)]>>
  <2>1. ASSUME Inv, Inv', Next PROVE Delivery!Next
    BY <2>1, NextIsStoreStep, NextIsAnswerStep DEF Delivery!Next
  <2>2. ASSUME UNCHANGED vars
        PROVE  UNCHANGED <<Delivery!store, [h \in Handlers |-> Told(h)]>>
    BY <2>2 DEF vars, tables, procVars, Delivery!store, Told
  <2> QED
    BY <2>1, <2>2
<1> QED
  BY <1>1, <1>2, InvHolds, PTL DEF Spec, DeliverySpec, Delivery!Spec
=============================================================================
