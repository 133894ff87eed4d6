---------------------------- MODULE OutboxTables ----------------------------
(***************************************************************************)
(* The outbox and dead-letter tables of the Cassandra store                *)
(* (internal/modules/cassstore), and the CQL statements the store runs on  *)
(* them.  One operator stands for one statement or one logged batch: these *)
(* are the atomic units of the store, and every interleaving of the        *)
(* processes of module Outbox happens between two of them.                 *)
(*                                                                         *)
(* Events are numbered in the order of (occurred_at, event_id), the        *)
(* clustering order of outbox_by_state.  An event is numbered by the time  *)
(* its request arrived, not by the time its batch was applied, so rows may *)
(* be inserted in any order.                                               *)
(*                                                                         *)
(* Time is not a clock.  next_attempt_at and lease_until are only ever     *)
(* compared with "now", so each is kept as the outcome of the comparison   *)
(* (due, leased) and two environment actions of module Outbox let it       *)
(* change.  quarantined_at is a key of dead_letters_by_time and is kept.   *)
(***************************************************************************)
EXTENDS Integers, FiniteSets

CONSTANTS
    Events,           \* event ids, numbered in clustering order
    QuarantineAfter   \* OUTBOX_QUARANTINE_AFTER, at least 1

ASSUME EventsAssumption == Events \subseteq Nat \ {0}

ASSUME QuarantineAssumption == QuarantineAfter \in Nat \ {0}

VARIABLES
    outbox,     \* outbox_events.publish_state, "none" where there is no row
    byState,    \* outbox_by_state: the events with a row under "pending"
    retry,      \* outbox_retry_state
    dlByTime,   \* dead_letters_by_time: the keys <<quarantined_at, event_id>>
    dlById      \* dead_letters_by_id

tables == <<outbox, byState, retry, dlByTime, dlById>>

-----------------------------------------------------------------------------
(* Rows.  A missing row reads as the defaults loadRetryState answers on    *)
(* ErrNotFound, which are also the zero values RecordOutboxFailure uses.   *)

RetryRow == [exists : BOOLEAN, count : Nat, due : BOOLEAN,
             leased : BOOLEAN, quarantined : BOOLEAN]

NoRetryRow == [exists |-> FALSE, count |-> 0, due |-> TRUE,
               leased |-> FALSE, quarantined |-> FALSE]

DeadLetterRow == [exists : BOOLEAN, at : Nat, count : Nat]

NoDeadLetter == [exists |-> FALSE, at |-> 0, count |-> 0]

TablesInit ==
    /\ outbox = [e \in Events |-> "none"]
    /\ byState = {}
    /\ retry = [e \in Events |-> NoRetryRow]
    /\ dlByTime = {}
    /\ dlById = [e \in Events |-> NoDeadLetter]

TablesTypeOK ==
    /\ outbox \in [Events -> {"none", "pending", "published"}]
    /\ byState \subseteq Events
    /\ retry \in [Events -> RetryRow]
    /\ dlByTime \subseteq (Nat \X Events)
    /\ dlById \in [Events -> DeadLetterRow]

-----------------------------------------------------------------------------
(* Writes.                                                                 *)

\* The logged batch at the end of AppendEventExactlyOnce.
InsertEvent(e) ==
    /\ outbox' = [outbox EXCEPT ![e] = "pending"]
    /\ byState' = byState \cup {e}
    /\ retry' = [retry EXCEPT ![e] = [NoRetryRow EXCEPT !.exists = TRUE]]
    /\ UNCHANGED <<dlByTime, dlById>>

\* Mutant: the state is written under another name than the readers compare with.
MarkPublishedMisspelt(e) ==
    /\ outbox' = [outbox EXCEPT ![e] = "publish"]
    /\ byState' = byState \ {e}
    /\ retry' = [retry EXCEPT ![e] = NoRetryRow]
    /\ UNCHANGED <<dlByTime, dlById>>

\* Mutant: the row of outbox_by_state is not deleted.
MarkPublishedKeepsIndex(e) ==
    /\ outbox' = [outbox EXCEPT ![e] = "published"]
    /\ retry' = [retry EXCEPT ![e] = NoRetryRow]
    /\ UNCHANGED <<byState, dlByTime, dlById>>

\* The logged batch of MarkOutboxPublished.
MarkPublished(e) ==
    /\ outbox' = [outbox EXCEPT ![e] = "published"]
    /\ byState' = byState \ {e}
    /\ retry' = [retry EXCEPT ![e] = NoRetryRow]
    /\ UNCHANGED <<dlByTime, dlById>>

\* Mutant: the claim is an insert IF NOT EXISTS, of a row the append has made.
LeaseFreeIfMissing(e) == ~retry[e].exists

\* The conditional update of ClaimOutboxLease, IF lease_until < now: it
\* applies to no missing row and to no row with a running lease.
LeaseFree(e) == retry[e].exists /\ ~retry[e].leased

TakeLease(e) ==
    /\ LeaseFree(e)
    /\ retry' = [retry EXCEPT ![e].leased = TRUE]
    /\ UNCHANGED <<outbox, byState, dlByTime, dlById>>

\* Mutant: quarantines one failure early.
UpdateRetryStateEarly(e, count) ==
    /\ retry' = [retry EXCEPT ![e] =
                   [exists |-> TRUE, count |-> count, due |-> FALSE,
                    leased |-> FALSE,
                    quarantined |-> count + 1 >= QuarantineAfter]]
    /\ UNCHANGED <<outbox, byState, dlByTime, dlById>>

\* The update of RecordOutboxFailure for the count it computed.  It has no
\* condition: it creates the row if there is none and ends any lease.
UpdateRetryState(e, count) ==
    /\ retry' = [retry EXCEPT ![e] =
                   [exists |-> TRUE, count |-> count, due |-> FALSE,
                    leased |-> FALSE,
                    quarantined |-> count >= QuarantineAfter]]
    /\ UNCHANGED <<outbox, byState, dlByTime, dlById>>

\* The logged batch of RecordOutboxFailure for a quarantined event.
InsertDeadLetter(e, at, count) ==
    /\ dlByTime' = dlByTime \cup {<<at, e>>}
    /\ dlById' = [dlById EXCEPT ![e] =
                    [exists |-> TRUE, at |-> at, count |-> count]]
    /\ UNCHANGED <<outbox, byState, retry>>

\* The logged batch of ReplayDeadLetter, from the row it read before.
RequeueDeadLetter(e, at, count) ==
    /\ outbox' = [outbox EXCEPT ![e] = "pending"]
    /\ byState' = byState \cup {e}
    /\ retry' = [retry EXCEPT ![e] =
                   [exists |-> TRUE, count |-> count, due |-> TRUE,
                    leased |-> FALSE, quarantined |-> FALSE]]
    /\ dlByTime' = dlByTime \ {<<at, e>>}
    /\ dlById' = [dlById EXCEPT ![e] = NoDeadLetter]

\* Mutant: the cleanup deletes the pending event with its dead letter.
DeleteDeadLetterAndEvent(e, at) ==
    /\ dlByTime' = dlByTime \ {<<at, e>>}
    /\ dlById' = [dlById EXCEPT ![e] = NoDeadLetter]
    /\ byState' = byState \ {e}
    /\ UNCHANGED <<outbox, retry>>

\* Mutant: the row of dead_letters_by_id is not deleted.
DeleteDeadLetterByTime(e, at) ==
    /\ dlByTime' = dlByTime \ {<<at, e>>}
    /\ UNCHANGED <<outbox, byState, retry, dlById>>

\* The logged batch of CleanupExpired for one aged dead letter.
DeleteDeadLetter(e, at) ==
    /\ dlByTime' = dlByTime \ {<<at, e>>}
    /\ dlById' = [dlById EXCEPT ![e] = NoDeadLetter]
    /\ UNCHANGED <<outbox, byState, retry>>

-----------------------------------------------------------------------------
(* Reads.                                                                  *)

\* The first n rows of outbox_by_state in clustering order.
PendingPage(n) ==
    {e \in byState : Cardinality({d \in byState : d < e}) < n}

\* The filter of PendingOutboxEvents on the retry state of a row.
Eligible(e) == ~retry[e].quarantined /\ retry[e].due /\ ~retry[e].leased

\* The rows among the first n of dead_letters_by_time, oldest first, that
\* were quarantined before the cutoff.
Earlier(r, s) == r[1] < s[1] \/ (r[1] = s[1] /\ r[2] < s[2])

AgedDeadLetters(cutoff, n) ==
    {r \in dlByTime : /\ Cardinality({s \in dlByTime : Earlier(s, r)}) < n
                      /\ r[1] < cutoff}
=============================================================================
