----------------------------- MODULE Idempotency -----------------------------
(***************************************************************************)
(* Idempotency keys: the statements of AppendEventExactlyOnce that bind a  *)
(* key to an event, and the part of CleanupExpired that forgets old keys   *)
(* (internal/modules/cassstore).                                           *)
(*                                                                         *)
(* A request that creates an event gives it a fresh id, so an event is     *)
(* named by the request that created it.  The three writes of an append    *)
(* are separate statements: the conditional insert of the key, the insert  *)
(* of its creation time, and the batch with the event itself.              *)
(***************************************************************************)
EXTENDS Integers, FiniteSets

CONSTANTS
    Requests,      \* publish requests; each is served once
    Keys,          \* idempotency keys, with their stream
    NoKey,         \* a request without a key
    NoEvent,       \* a missing row of idempotency_keys
    Cleaners,      \* cleanup loops; every node runs one
    TTL,           \* IDEMPOTENCY_TTL_HOURS, at least 1
    CleanupBatch,  \* CLEANUP_BATCH_SIZE, at least 1
    MaxClock,      \* bound: how far time goes
    MaxFaults      \* bound: failed store calls and crashes

ASSUME IdempotencyAssumption ==
    /\ NoKey \notin Keys
    /\ NoEvent \notin Requests
    /\ Requests \cap Cleaners = {}
    /\ TTL \in Nat \ {0}
    /\ CleanupBatch \in Nat \ {0}
    /\ MaxClock \in Nat
    /\ MaxFaults \in Nat

VARIABLES
    keyRow,     \* idempotency_keys: the event a key is bound to, or NoEvent
    byCreated,  \* idempotency_by_created: rows <<created_at, key>>
    stored,     \* events_by_id and the outbox tables: events of the batch
    pc,         \* the next statement of each process
    key,        \* the key of a request
    found,      \* the event the conditional insert found in the way
    reply,      \* the event a request was answered with
    doomed,     \* per cleaner: expired rows it has read and will delete
    clock,
    faults,
    boundAt,    \* history: when the request bound its key
    contested   \* history: keys that a second cleanup loop deleted by the same
                \* row as a first one, after a request had bound them anew

rowVars == <<keyRow, byCreated, stored>>
history == <<boundAt, contested>>
vars == <<rowVars, pc, key, found, reply, doomed, clock, faults, history>>

Running == {"lookup", "index", "store"}

TypeOK ==
    /\ keyRow \in [Keys -> Requests \cup {NoEvent}]
    /\ byCreated \subseteq (Nat \X Keys)
    /\ stored \subseteq Requests
    /\ pc \in [Requests \cup Cleaners ->
                 Running \cup {"start", "answered", "failed", "idle", "purge"}]
    /\ key \in [Requests -> Keys \cup {NoKey}]
    /\ found \in [Requests -> Requests \cup {NoEvent}]
    /\ reply \in [Requests -> Requests \cup {NoEvent}]
    /\ doomed \in [Cleaners -> SUBSET (Nat \X Keys)]
    /\ clock \in Nat
    /\ faults \in Nat
    /\ boundAt \in [Requests -> Nat]
    /\ contested \subseteq Keys

Init ==
    /\ keyRow = [k \in Keys |-> NoEvent]
    /\ byCreated = {}
    /\ stored = {}
    /\ pc = [p \in Requests \cup Cleaners |->
               IF p \in Requests THEN "start" ELSE "idle"]
    /\ key = [r \in Requests |-> NoKey]
    /\ found = [r \in Requests |-> NoEvent]
    /\ reply = [r \in Requests |-> NoEvent]
    /\ doomed = [c \in Cleaners |-> {}]
    /\ clock = 1
    /\ faults = 0
    /\ boundAt = [r \in Requests |-> 0]
    /\ contested = {}

Goto(p, label) == pc' = [pc EXCEPT ![p] = label]

\* A write took effect, or failed, or both.
Outcome(applied, err) ==
    /\ applied \/ err
    /\ err => faults < MaxFaults
    /\ faults' = IF err THEN faults + 1 ELSE faults

-----------------------------------------------------------------------------
(* AppendEventExactlyOnce.                                                 *)

\* Mutant: the insert lost its IF NOT EXISTS.
BindKeyAlways(r) ==
    /\ pc[r] = "start"
    /\ \E k \in Keys, applied, err \in BOOLEAN :
         /\ key' = [key EXCEPT ![r] = k]
         /\ Outcome(applied, err)
         /\ keyRow' = IF applied THEN [keyRow EXCEPT ![k] = r] ELSE keyRow
         /\ Goto(r, IF err THEN "failed" ELSE "index")
    /\ boundAt' = [boundAt EXCEPT ![r] = clock]
    /\ UNCHANGED <<byCreated, stored, found, reply, doomed, clock, contested>>

\* Mutant: the request that bound the key takes itself for the duplicate.
BindKeyMisread(r) ==
    /\ pc[r] = "start"
    /\ \E k \in Keys :
         /\ key' = [key EXCEPT ![r] = k]
         /\ keyRow' = IF keyRow[k] = NoEvent THEN [keyRow EXCEPT ![k] = r] ELSE keyRow
         /\ found' = [found EXCEPT ![r] = keyRow'[k]]
    /\ Goto(r, "lookup")
    /\ boundAt' = [boundAt EXCEPT ![r] = clock]
    /\ UNCHANGED <<byCreated, stored, reply, doomed, clock, faults,
                   contested>>

\* INSERT INTO idempotency_keys ... IF NOT EXISTS
BindKey(r) ==
    /\ pc[r] = "start"
    /\ \E k \in Keys :
         /\ key' = [key EXCEPT ![r] = k]
         /\ \/ \* the key is free
               /\ keyRow[k] = NoEvent
               /\ \E applied, err \in BOOLEAN :
                    /\ Outcome(applied, err)
                    /\ keyRow' = IF applied THEN [keyRow EXCEPT ![k] = r]
                                            ELSE keyRow
                    /\ Goto(r, IF err THEN "failed" ELSE "index")
               /\ boundAt' = [boundAt EXCEPT ![r] = clock]
               /\ UNCHANGED found
            \/ \* the key is taken
               /\ keyRow[k] # NoEvent
               /\ Goto(r, "lookup")
               /\ found' = [found EXCEPT ![r] = keyRow[k]]
               /\ UNCHANGED <<keyRow, faults, boundAt>>
    /\ UNCHANGED <<byCreated, stored, reply, doomed, clock, contested>>

\* A request without a key goes straight to the batch.
SkipKey(r) ==
    /\ pc[r] = "start"
    /\ Goto(r, "store")
    /\ UNCHANGED <<rowVars, key, found, reply, doomed, clock, faults, history>>

\* Mutant: the answer carries the key in the place of the event id.
LookUpSwapped(r) ==
    /\ pc[r] = "lookup"
    /\ IF found[r] \in stored
       THEN Goto(r, "answered") /\ reply' = [reply EXCEPT ![r] = key[r]]
       ELSE Goto(r, "failed") /\ UNCHANGED reply
    /\ UNCHANGED <<rowVars, key, found, doomed, clock, faults, history>>

\* Mutant: the duplicate is answered from the key row alone.
LookUpUnchecked(r) ==
    /\ pc[r] = "lookup"
    /\ Goto(r, "answered")
    /\ reply' = [reply EXCEPT ![r] = found[r]]
    /\ UNCHANGED <<rowVars, key, found, doomed, clock, faults, history>>

\* SELECT ... FROM events_by_id: the duplicate is answered with the event the
\* key is bound to, or with an error if that event is not there.
LookUp(r) ==
    /\ pc[r] = "lookup"
    /\ IF found[r] \in stored
       THEN Goto(r, "answered") /\ reply' = [reply EXCEPT ![r] = found[r]]
       ELSE Goto(r, "failed") /\ UNCHANGED reply
    /\ UNCHANGED <<rowVars, key, found, doomed, clock, faults, history>>

\* INSERT INTO idempotency_by_created
IndexKey(r) ==
    /\ pc[r] = "index"
    /\ \E applied, err \in BOOLEAN :
         /\ Outcome(applied, err)
         /\ byCreated' = IF applied THEN byCreated \cup {<<clock, key[r]>>}
                                    ELSE byCreated
         /\ Goto(r, IF err THEN "failed" ELSE "store")
    /\ UNCHANGED <<keyRow, stored, key, found, reply, doomed, clock, history>>

\* The logged batch with the event.
StoreEvent(r) ==
    /\ pc[r] = "store"
    /\ \E applied, err \in BOOLEAN :
         /\ Outcome(applied, err)
         /\ stored' = IF applied THEN stored \cup {r} ELSE stored
         /\ Goto(r, IF err THEN "failed" ELSE "answered")
         /\ reply' = IF err THEN reply ELSE [reply EXCEPT ![r] = r]
    /\ UNCHANGED <<keyRow, byCreated, key, found, doomed, clock, history>>

-----------------------------------------------------------------------------
(* runCleanupLoop and the key part of CleanupExpired.                      *)

\* SELECT ... LIMIT CleanupBatch: the oldest rows, in any order of the keys.
FirstPage(page) ==
    /\ Cardinality(page) <= CleanupBatch
    /\ Cardinality(page) = CleanupBatch \/ page = byCreated
    /\ \A row \in page, s \in byCreated \ page : row[1] <= s[1]

Expired(row) == row[1] < clock - TTL

ReadExpiredKeys(c) ==
    /\ pc[c] = "idle"
    /\ \E page \in SUBSET byCreated :
         /\ FirstPage(page)
         /\ \E row \in page : Expired(row)
         /\ doomed' = [doomed EXCEPT ![c] = {row \in page : Expired(row)}]
    /\ Goto(c, "purge")
    /\ UNCHANGED <<rowVars, key, found, reply, clock, faults, history>>

\* One logged batch per row.  It deletes the key whatever it is bound to now.
ForgetKey(c) ==
    /\ pc[c] = "purge"
    /\ \E row \in doomed[c], applied, err \in BOOLEAN :
         /\ \A s \in doomed[c] : row[1] <= s[1]
         /\ Outcome(applied, err)
         /\ keyRow' = IF applied THEN [keyRow EXCEPT ![row[2]] = NoEvent]
                                 ELSE keyRow
         /\ byCreated' = IF applied THEN byCreated \ {row} ELSE byCreated
         /\ contested' =
              IF applied /\ row \notin byCreated /\ keyRow[row[2]] # NoEvent
              THEN contested \cup {row[2]}
              ELSE contested
         /\ doomed' = [doomed EXCEPT ![c] = @ \ {row}]
         /\ Goto(c, IF doomed[c] = {row} THEN "idle" ELSE "purge")
    /\ UNCHANGED <<stored, key, found, reply, clock, boundAt>>

-----------------------------------------------------------------------------
\* The process crashes, or a read of it fails.
Abort(p) ==
    /\ faults < MaxFaults
    /\ faults' = faults + 1
    /\ pc[p] \in Running \cup {"purge"}
    /\ Goto(p, IF p \in Requests THEN "failed" ELSE "idle")
    /\ doomed' = [c \in Cleaners |-> IF c = p THEN {} ELSE doomed[c]]
    /\ UNCHANGED <<rowVars, key, found, reply, clock, history>>

ClockAdvances ==
    /\ clock < MaxClock
    /\ clock' = clock + 1
    /\ UNCHANGED <<rowVars, pc, key, found, reply, doomed, faults, history>>

RequestStep(r) ==
    BindKey(r) \/ SkipKey(r) \/ LookUp(r) \/ IndexKey(r) \/ StoreEvent(r)

CleanerStep(c) == ReadExpiredKeys(c) \/ ForgetKey(c)

Next ==
    \/ \E r \in Requests : RequestStep(r)
    \/ \E c \in Cleaners : CleanerStep(c)
    \/ \E p \in Requests \cup Cleaners : Abort(p)
    \/ ClockAdvances

Spec == Init /\ [][Next]_vars

-----------------------------------------------------------------------------
\* Exactly once: two stored events with the same key were bound to it more than
\* TTL apart.  A retry inside the TTL never creates a second event, however
\* requests, failures, crashes and the cleanups of all nodes interleave, with one
\* exception: two loops that read the same expired row both delete its key, and a
\* binding made between the two deletions is lost with the second.
OncePerKey ==
    \A r, s \in stored :
        r # s /\ key[r] = key[s] /\ key[r] \in Keys \ contested =>
            boundAt[r] - boundAt[s] > TTL \/ boundAt[s] - boundAt[r] > TTL

\* An answer names a stored event with the caller's own key: a duplicate is never
\* answered with an id whose event was not written.
RepliesAreStored ==
    \A r \in Requests :
        reply[r] # NoEvent =>
            /\ reply[r] \in stored
            /\ key[reply[r]] = key[r]

\* A bound key that is of no use to anybody: its event is not stored and will not
\* be, so that every retry is answered with an error, or it has no creation
\* record and will get none, so that no cleanup ever finds it.
StuckKeys ==
    {k \in Keys : /\ keyRow[k] # NoEvent
                  /\ pc[keyRow[k]] \notin Running
                  /\ \/ keyRow[k] \notin stored
                     \/ \A row \in byCreated : row[2] # k}

\* A key gets stuck only by a failed statement or a crash between the insert of
\* the key and the batch with the event, and one fault leaves one key stuck at
\* most: no interleaving of retries and cleanups does, and none spreads it.
StuckKeysNeedFaults == IsFiniteSet(StuckKeys) /\ Cardinality(StuckKeys) <= faults
=============================================================================
