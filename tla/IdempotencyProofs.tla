-------------------------- MODULE IdempotencyProofs --------------------------
(***************************************************************************)
(* What Idempotency promises for any number of requests, keys, cleanup     *)
(* loops and faults and any TTL: answers name stored events, a key that no *)
(* two loops delete by the same row creates one event per TTL, and one     *)
(* fault leaves at most one key stuck.                                     *)
(***************************************************************************)
EXTENDS Idempotency, FiniteSetTheorems, TLAPS

\* The row of a key names a request that asked with that key, and a request
\* has neither key nor event before it runs.
RowsNameTheirKey ==
    /\ \A k \in Keys :
          keyRow[k] # NoEvent => key[keyRow[k]] = k /\ pc[keyRow[k]] # "start"
    /\ \A r \in Requests :
          /\ pc[r] = "lookup" =>
                /\ found[r] # NoEvent
                /\ key[found[r]] = key[r]
                /\ pc[found[r]] # "start"
          /\ pc[r] = "start" => key[r] = NoKey /\ r \notin stored /\ reply[r] = NoEvent
          /\ pc[r] = "index" => key[r] \in Keys

AnswerInv == TypeOK /\ RowsNameTheirKey /\ RepliesAreStored

\* A store without keys and requests that have not begun satisfy AnswerInv.
LEMMA InitAnswerInv == Init => AnswerInv
  BY IdempotencyAssumption
     DEF Init, AnswerInv, TypeOK, RowsNameTheirKey, RepliesAreStored, Running

\* Every statement, crash and tick keeps the answers true.
LEMMA NextAnswerInv == AnswerInv /\ [Next]_vars => AnswerInv'
<1> SUFFICES ASSUME AnswerInv, [Next]_vars PROVE AnswerInv'
  OBVIOUS
<1> USE IdempotencyAssumption
    DEF AnswerInv, TypeOK, RowsNameTheirKey, RepliesAreStored, Running, Goto,
        Outcome, rowVars, history
<1>1. ASSUME NEW r \in Requests, BindKey(r) PROVE AnswerInv'
  BY <1>1 DEF BindKey
<1>2. ASSUME NEW r \in Requests, SkipKey(r) PROVE AnswerInv'
  BY <1>2 DEF SkipKey
<1>3. ASSUME NEW r \in Requests, LookUp(r) PROVE AnswerInv'
  BY <1>3 DEF LookUp
<1>4. ASSUME NEW r \in Requests, IndexKey(r) PROVE AnswerInv'
  <2>1. <<clock, key[r]>> \in Nat \X Keys
    BY <1>4 DEF IndexKey
  <2>2. byCreated' \subseteq (Nat \X Keys)
    BY <1>4, <2>1 DEF IndexKey
  <2> QED
    BY <1>4, <2>2 DEF IndexKey
<1>5. ASSUME NEW r \in Requests, StoreEvent(r) PROVE AnswerInv'
  BY <1>5 DEF StoreEvent
<1>6. ASSUME NEW c \in Cleaners, ReadExpiredKeys(c) PROVE AnswerInv'
  BY <1>6 DEF ReadExpiredKeys
<1>7. ASSUME NEW c \in Cleaners, ForgetKey(c) PROVE AnswerInv'
  BY <1>7 DEF ForgetKey
<1>8. ASSUME NEW p \in Requests \cup Cleaners, Abort(p) PROVE AnswerInv'
  BY <1>8 DEF Abort
<1>9. CASE ClockAdvances
  BY <1>9 DEF ClockAdvances
<1>10. CASE UNCHANGED vars
  BY <1>10 DEF vars
<1> QED
  BY <1>1, <1>2, <1>3, <1>4, <1>5, <1>6, <1>7, <1>8, <1>9, <1>10
     DEF Next, RequestStep, CleanerStep

\* The invariant behind the answers.
THEOREM AnswerInvHolds == Spec => []AnswerInv
  BY InitAnswerInv, NextAnswerInv, PTL DEF Spec

\* Type correctness of rows, requests and cleanup loops.
THEOREM TypesHold == Spec => []TypeOK
<1>1. AnswerInv => TypeOK
  BY DEF AnswerInv
<1> QED
  BY <1>1, AnswerInvHolds, PTL

\* An answer of AppendEventExactlyOnce names a stored event with the caller's
\* own key, for any number of requests, keys and cleanup loops.
THEOREM RepliesHold == Spec => []RepliesAreStored
<1>1. AnswerInv => RepliesAreStored
  BY DEF AnswerInv
<1> QED
  BY <1>1, AnswerInvHolds, PTL

-----------------------------------------------------------------------------
(* Once per key and TTL.                                                   *)

\* r has bound its key, and its event is stored or may yet be.
Live(r) == key[r] \in Keys /\ (pc[r] \in {"index", "store"} \/ r \in stored)

\* A key that is not contested has at most one row in idempotency_by_created,
\* written by the request that it is still bound to.
RowsMatchKeys ==
    /\ \A row \in byCreated :
          row[2] \notin contested =>
             /\ keyRow[row[2]] # NoEvent
             /\ boundAt[keyRow[row[2]]] <= row[1]
             /\ \A other \in byCreated : other[2] = row[2] => other = row
    /\ \A r \in Requests :
          pc[r] = "index" /\ key[r] \notin contested =>
             /\ keyRow[key[r]] = r
             /\ \A row \in byCreated : row[2] # key[r]

\* A cleanup loop has read expired rows only.
DoomedAreExpired == \A c \in Cleaners : \A row \in doomed[c] : Expired(row)

\* A request that lost its key lost it to a cleanup, more than a TTL after it
\* bound it, and so before any other request could bind it.
LostKeysAreOld ==
    \A r \in Requests :
        Live(r) =>
           /\ boundAt[r] <= clock
           /\ keyRow[key[r]] # r /\ key[r] \notin contested =>
                 boundAt[r] + TTL < clock

LiveOncePerKey ==
    \A r, s \in Requests :
        Live(r) /\ Live(s) /\ r # s /\ key[r] = key[s] /\ key[r] \notin contested =>
            boundAt[r] - boundAt[s] > TTL \/ boundAt[s] - boundAt[r] > TTL

OnceInv ==
    AnswerInv /\ RowsMatchKeys /\ DoomedAreExpired /\ LostKeysAreOld /\ LiveOncePerKey

\* Every statement of requests and of the cleanup loops keeps OnceInv.
LEMMA NextOnceInv ==
    ASSUME OnceInv, [Next]_vars, AnswerInv'
    PROVE  OnceInv'
<1> USE IdempotencyAssumption
    DEF OnceInv, RowsMatchKeys, DoomedAreExpired, LostKeysAreOld, LiveOncePerKey,
        Live, Expired, AnswerInv, TypeOK, RowsNameTheirKey, Running, Goto,
        Outcome, rowVars, history
<1>1. ASSUME NEW r \in Requests, BindKey(r) PROVE OnceInv'
  BY <1>1 DEF BindKey
<1>2. ASSUME NEW r \in Requests, SkipKey(r) PROVE OnceInv'
  BY <1>2 DEF SkipKey
<1>3. ASSUME NEW r \in Requests, LookUp(r) PROVE OnceInv'
  BY <1>3 DEF LookUp
<1>4. ASSUME NEW r \in Requests, IndexKey(r) PROVE OnceInv'
  BY <1>4 DEF IndexKey
<1>5. ASSUME NEW r \in Requests, StoreEvent(r) PROVE OnceInv'
  BY <1>5 DEF StoreEvent
<1>6. ASSUME NEW c \in Cleaners, ReadExpiredKeys(c) PROVE OnceInv'
  BY <1>6 DEF ReadExpiredKeys
<1>7. ASSUME NEW c \in Cleaners, ForgetKey(c) PROVE OnceInv'
  <2>1. PICK row \in doomed[c] :
          /\ doomed' = [doomed EXCEPT ![c] = @ \ {row}]
          /\ \/ UNCHANGED <<keyRow, byCreated, contested>>
             \/ /\ keyRow' = [keyRow EXCEPT ![row[2]] = NoEvent]
                /\ byCreated' = byCreated \ {row}
                /\ contested' = IF row \notin byCreated /\ keyRow[row[2]] # NoEvent
                                THEN contested \cup {row[2]}
                                ELSE contested
    BY <1>7 DEF ForgetKey
  <2>2. /\ UNCHANGED <<stored, key, found, reply, clock, boundAt>>
        /\ \A r \in Requests : pc'[r] = pc[r]
    BY <1>7 DEF ForgetKey
  <2>3. /\ Expired(row)
        /\ row \in Nat \X Keys /\ row[1] \in Nat /\ row[2] \in Keys
    BY <2>1
  <2>4. RowsMatchKeys'
    BY <2>1, <2>2, <2>3
  <2>5. DoomedAreExpired'
    BY <2>1, <2>2
  <2>6. LostKeysAreOld'
    <3>1. ASSUME row \in byCreated, row[2] \notin contested
          PROVE  /\ keyRow[row[2]] \in Requests
                 /\ boundAt[keyRow[row[2]]] + TTL < clock
      BY <2>3, <3>1
    <3> QED
      BY <2>1, <2>2, <2>3, <3>1
  <2>7. LiveOncePerKey'
    BY <2>1, <2>2
  <2> QED
    BY <2>4, <2>5, <2>6, <2>7
<1>8. ASSUME NEW p \in Requests \cup Cleaners, Abort(p) PROVE OnceInv'
  BY <1>8 DEF Abort
<1>9. CASE ClockAdvances
  BY <1>9 DEF ClockAdvances
<1>10. CASE UNCHANGED vars
  BY <1>10 DEF vars
<1> QED
  BY <1>1, <1>2, <1>3, <1>4, <1>5, <1>6, <1>7, <1>8, <1>9, <1>10
     DEF Next, RequestStep, CleanerStep

\* A retry inside the TTL never creates a second event, unless two cleanup loops
\* deleted the key by the same row with a binding in between: for any number of
\* requests, keys, cleanup loops, failed statements and crashes, and any TTL and
\* batch size.
THEOREM OncePerKeyHolds == Spec => []OncePerKey
<1>1. Init => OnceInv
  BY InitAnswerInv
     DEF Init, OnceInv, RowsMatchKeys, DoomedAreExpired, LostKeysAreOld,
         LiveOncePerKey, Live
<1>2. OnceInv /\ [Next]_vars => OnceInv'
  BY NextOnceInv, NextAnswerInv DEF OnceInv
<1>3. OnceInv => OncePerKey
  BY DEF OnceInv, LiveOncePerKey, Live, OncePerKey, AnswerInv, TypeOK
<1> QED
  BY <1>1, <1>2, <1>3, PTL DEF Spec

OneCleaner == \A c, d \in Cleaners : c = d

\* With one cleanup loop in the cluster no key is ever contested: the rows it
\* read are there until it deletes them itself.  With OncePerKeyHolds, a single
\* runCleanupLoop leaves every key with one event per TTL, without exception.
THEOREM OneLoopContestsNothing ==
    ASSUME OneCleaner
    PROVE  Spec => [](contested = {})
<1> DEFINE Inv == /\ contested = {}
                  /\ \A c \in Cleaners : doomed[c] \subseteq byCreated
<1>1. Init => Inv
  BY DEF Init
<1>2. TypeOK /\ Inv /\ [Next]_vars => Inv'
  <2> SUFFICES ASSUME TypeOK, Inv, [Next]_vars PROVE Inv'
    OBVIOUS
  <2>1. ASSUME NEW c \in Cleaners, CleanerStep(c) PROVE Inv'
    BY <2>1, OneCleaner
       DEF OneCleaner, CleanerStep, ReadExpiredKeys, ForgetKey, TypeOK, rowVars, history
  <2>2. ASSUME NEW r \in Requests, RequestStep(r) PROVE Inv'
    BY <2>2 DEF RequestStep, BindKey, SkipKey, LookUp, IndexKey, StoreEvent,
                rowVars, history
  <2>3. ASSUME NEW p \in Requests \cup Cleaners, Abort(p) PROVE Inv'
    BY <2>3 DEF Abort, TypeOK, rowVars, history
  <2>4. CASE ClockAdvances \/ UNCHANGED vars
    BY <2>4 DEF ClockAdvances, vars, rowVars, history
  <2> QED
    BY <2>1, <2>2, <2>3, <2>4 DEF Next
<1> QED
  BY <1>1, <1>2, TypesHold, PTL DEF Spec

-----------------------------------------------------------------------------
(* Stuck keys.                                                             *)

\* A request that looks up the event of its key has not bound a key itself.
DuplicatesBindNothing ==
    \A r \in Requests : pc[r] = "lookup" => \A k \in Keys : keyRow[k] # r

\* The creation record of a key is written before the event.
RecordedBeforeStored ==
    \A r \in Requests :
        pc[r] = "store" =>
            \A k \in Keys : keyRow[k] = r => \E row \in byCreated : row[2] = k

StuckInv ==
    AnswerInv /\ DuplicatesBindNothing /\ RecordedBeforeStored /\ StuckKeysNeedFaults

\* At most one key gets stuck in a step, and only at the price of a fault.
LEMMA StuckStep ==
    ASSUME AnswerInv, DuplicatesBindNothing, RecordedBeforeStored, [Next]_vars
    PROVE  /\ DuplicatesBindNothing' /\ RecordedBeforeStored'
           /\ \/ StuckKeys' \subseteq StuckKeys /\ faults' \in {faults, faults + 1}
              \/ \E k \in Keys : StuckKeys' \subseteq StuckKeys \cup {k} /\ faults' = faults + 1
<1> DEFINE Goal == /\ DuplicatesBindNothing' /\ RecordedBeforeStored'
                   /\ \/ StuckKeys' \subseteq StuckKeys /\ faults' \in {faults, faults + 1}
                      \/ \E k \in Keys : /\ StuckKeys' \subseteq StuckKeys \cup {k}
                                         /\ faults' = faults + 1
<1> USE IdempotencyAssumption
    DEF AnswerInv, TypeOK, RowsNameTheirKey, DuplicatesBindNothing,
        RecordedBeforeStored, StuckKeys, Running, Goto, Outcome, rowVars, history
<1>1. ASSUME NEW r \in Requests, BindKey(r) PROVE Goal
  BY <1>1 DEF BindKey
<1>2. ASSUME NEW r \in Requests, SkipKey(r) PROVE Goal
  BY <1>2 DEF SkipKey
<1>3. ASSUME NEW r \in Requests, LookUp(r) PROVE Goal
  BY <1>3 DEF LookUp
<1>4. ASSUME NEW r \in Requests, IndexKey(r) PROVE Goal
  <2>1. /\ \A k \in Keys : keyRow[k] = r => k = key[r]
        /\ UNCHANGED <<keyRow, stored>> /\ byCreated \subseteq byCreated'
        /\ pc[r] = "index"
    <3>1. \A k \in Keys : keyRow[k] = r => k = key[r]
      OBVIOUS
    <3>2. byCreated' \in {byCreated, byCreated \cup {<<clock, key[r]>>}}
      BY <1>4 DEF IndexKey
    <3>3. byCreated \subseteq byCreated'
      BY <3>2
    <3> QED
      BY <1>4, <3>1, <3>3 DEF IndexKey
  <2>2. DuplicatesBindNothing'
    BY <1>4, <2>1 DEF IndexKey
  <2>3. CASE pc' = [pc EXCEPT ![r] = "store"]
    <3>1. <<clock, key[r]>> \in byCreated'
      BY <1>4, <2>3 DEF IndexKey
    <3>2. \E row \in byCreated' : row[2] = key[r]
      BY <3>1
    <3>3. RecordedBeforeStored'
      BY <2>1, <2>3, <3>2
    <3>4. StuckKeys' \subseteq StuckKeys
      BY <2>1, <2>3
    <3>5. faults' \in {faults, faults + 1}
      BY <1>4 DEF IndexKey
    <3> QED
      BY <2>2, <3>3, <3>4, <3>5
  <2>4. CASE pc' = [pc EXCEPT ![r] = "failed"]
    <3>1. RecordedBeforeStored'
      BY <2>1, <2>4
    <3>2. StuckKeys' \subseteq StuckKeys \cup {key[r]}
      BY <2>1, <2>4
    <3>3. faults' = faults + 1 /\ key[r] \in Keys
      BY <1>4, <2>4 DEF IndexKey
    <3> QED
      BY <2>2, <3>1, <3>2, <3>3
  <2> QED
    BY <1>4, <2>3, <2>4 DEF IndexKey
<1>5. ASSUME NEW r \in Requests, StoreEvent(r) PROVE Goal
  BY <1>5 DEF StoreEvent
<1>6. ASSUME NEW c \in Cleaners, ReadExpiredKeys(c) PROVE Goal
  BY <1>6 DEF ReadExpiredKeys
<1>7. ASSUME NEW c \in Cleaners, ForgetKey(c) PROVE Goal
  BY <1>7 DEF ForgetKey
<1>8. ASSUME NEW p \in Requests \cup Cleaners, Abort(p) PROVE Goal
  BY <1>8 DEF Abort
<1>9. CASE ClockAdvances
  BY <1>9 DEF ClockAdvances
<1>10. CASE UNCHANGED vars
  BY <1>10 DEF vars
<1> QED
  BY <1>1, <1>2, <1>3, <1>4, <1>5, <1>6, <1>7, <1>8, <1>9, <1>10
     DEF Next, RequestStep, CleanerStep

\* A bound on a set that grows by one element at most.
LEMMA GrowsByOne ==
    ASSUME NEW S, NEW T, NEW x, NEW n \in Nat,
           IsFiniteSet(S), Cardinality(S) <= n, T \subseteq S \cup {x}
    PROVE  /\ IsFiniteSet(T)
           /\ T \subseteq S => Cardinality(T) <= n
           /\ Cardinality(T) <= n + 1
<1>1. /\ IsFiniteSet(S \cup {x}) /\ Cardinality(S) \in Nat
      /\ Cardinality(S \cup {x}) \in Nat /\ Cardinality(S \cup {x}) <= Cardinality(S) + 1
  <2>1. IsFiniteSet(S \cup {x})
    BY FS_AddElement
  <2>2. Cardinality(S \cup {x}) = Cardinality(S) \/ Cardinality(S \cup {x}) = Cardinality(S) + 1
    BY FS_AddElement
  <2>3. Cardinality(S) \in Nat
    BY FS_CardinalityType
  <2> QED
    BY <2>1, <2>2, <2>3
<1>2. /\ IsFiniteSet(T) /\ Cardinality(T) \in Nat
      /\ Cardinality(T) <= Cardinality(S \cup {x})
  BY <1>1, FS_Subset, FS_CardinalityType
<1>3. T \subseteq S => Cardinality(T) <= Cardinality(S)
  BY FS_Subset
<1> QED
  BY <1>1, <1>2, <1>3

\* Every fault leaves at most one idempotency key without an event or without a
\* creation record that a cleanup could find it by, for any number of
\* requests, keys, cleanup loops and faults.
THEOREM StuckKeysAreFaults == Spec => []StuckKeysNeedFaults
<1>1. Init => StuckInv
  <2> SUFFICES ASSUME Init PROVE StuckInv
    OBVIOUS
  <2>1. StuckKeys = {} /\ DuplicatesBindNothing /\ faults = 0
    BY DEF Init, StuckKeys, DuplicatesBindNothing
  <2>3. RecordedBeforeStored
    BY DEF Init, RecordedBeforeStored
  <2>2. IsFiniteSet({}) /\ Cardinality({}) = 0
    BY FS_EmptySet
  <2> QED
    BY <2>1, <2>2, <2>3, InitAnswerInv DEF StuckInv, StuckKeysNeedFaults
<1>2. StuckInv /\ [Next]_vars => StuckInv'
  <2> SUFFICES ASSUME StuckInv, [Next]_vars PROVE StuckInv'
    OBVIOUS
  <2>1. AnswerInv' /\ DuplicatesBindNothing' /\ RecordedBeforeStored'
    BY NextAnswerInv, StuckStep DEF StuckInv
  <2>2. faults \in Nat /\ IsFiniteSet(StuckKeys) /\ Cardinality(StuckKeys) <= faults
    BY DEF StuckInv, StuckKeysNeedFaults, AnswerInv, TypeOK
  <2>3. ASSUME StuckKeys' \subseteq StuckKeys, faults' \in {faults, faults + 1}
        PROVE  StuckKeysNeedFaults'
    <3>1. StuckKeys' \subseteq StuckKeys \cup {0}
      BY <2>3
    <3>2. IsFiniteSet(StuckKeys') /\ Cardinality(StuckKeys') <= faults
      BY <2>2, <2>3, <3>1, GrowsByOne
    <3>3. Cardinality(StuckKeys') \in Nat
      BY <3>2, FS_CardinalityType
    <3> QED
      BY <2>2, <2>3, <3>2, <3>3 DEF StuckKeysNeedFaults
  <2>4. ASSUME NEW k \in Keys, StuckKeys' \subseteq StuckKeys \cup {k}, faults' = faults + 1
        PROVE  StuckKeysNeedFaults'
    BY <2>2, <2>4, GrowsByOne DEF StuckKeysNeedFaults
  <2> QED
    BY <2>1, <2>3, <2>4, StuckStep DEF StuckInv
<1>3. StuckInv => StuckKeysNeedFaults
  BY DEF StuckInv
<1> QED
  BY <1>1, <1>2, <1>3, PTL DEF Spec
=============================================================================
