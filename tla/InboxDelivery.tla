---------------------------- MODULE InboxDelivery ----------------------------
(***************************************************************************)
(* What the inbox promises to consumers, without subscriptions, channels,  *)
(* requests or rows.  Of every message with an id, each consumer has one   *)
(* chance: it is open, then granted to one stream, then delivered there.   *)
(* A fault may spend the chance, and nothing else does.  A chance that is  *)
(* spent does not come back.                                               *)
(*                                                                         *)
(* Module EventStream implements this specification.                       *)
(***************************************************************************)
EXTENDS Sequences

CONSTANTS
    Streams,    \* stream requests
    Consumers,  \* consumer names
    Messages,   \* messages, by message id
    Unnamed     \* the messages that carry no message id

VARIABLES
    consumer,   \* the consumer of each stream
    chance,     \* per consumer and message with an id: what became of it
    received,   \* per stream, what its client got, in order
    excused     \* <<consumer, message>> with a fault on the way

vars == <<consumer, chance, received, excused>>

Chances == Consumers \X (Messages \ Unnamed)

Init ==
    /\ consumer \in [Streams -> Consumers]
    /\ chance = [row \in Chances |-> "open"]
    /\ received = [s \in Streams |-> <<>>]
    /\ excused = {}

Grant(row) ==
    /\ chance[row] = "open"
    /\ chance' = [chance EXCEPT ![row] = "granted"]
    /\ UNCHANGED <<consumer, received, excused>>

Deliver(s, m) ==
    /\ \/ /\ m \in Unnamed
          /\ UNCHANGED chance
       \/ /\ m \notin Unnamed
          /\ chance[<<consumer[s], m>>] = "granted"
          /\ chance' = [chance EXCEPT ![<<consumer[s], m>>] = "delivered"]
    /\ received' = [received EXCEPT ![s] = Append(@, m)]
    /\ UNCHANGED <<consumer, excused>>

\* Something fails on the way of a message to a consumer.
Fail(row) ==
    /\ excused' = excused \cup {row}
    /\ \/ UNCHANGED chance
       \/ /\ row \in Chances
          /\ chance[row] \in {"open", "granted"}
          /\ chance' = [chance EXCEPT ![row] = "lost"]
    /\ UNCHANGED <<consumer, received>>

Next ==
    \/ \E row \in Chances : Grant(row)
    \/ \E s \in Streams, m \in Messages : Deliver(s, m)
    \/ \E row \in Consumers \X Messages : Fail(row)

Spec == Init /\ [][Next]_vars
=============================================================================
