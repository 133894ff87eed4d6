---------------------------- MODULE EventDelivery ----------------------------
(***************************************************************************)
(* What the control plane promises about an event, without tables, relays, *)
(* leases or retries.  An event is accepted once; from then on it waits    *)
(* for a relay until the broker has it, and it is never forgotten before.  *)
(* A client is answered once, and the answer is true when it is given.     *)
(*                                                                         *)
(* Module Outbox implements this specification.                            *)
(***************************************************************************)
CONSTANTS
    Events,     \* event ids
    Clients     \* publish requests

VARIABLES
    accepted,   \* events the store has taken
    waiting,    \* events a relay will still look at
    delivered,  \* events the broker has
    answer      \* what each client was told, and about which event

store == <<accepted, waiting, delivered>>

NoAnswer == [says |-> "nothing", of |-> 0]

Init ==
    /\ accepted = {}
    /\ waiting = {}
    /\ delivered = {}
    /\ answer = [c \in Clients |-> NoAnswer]

Accept(e) ==
    /\ e \notin accepted
    /\ accepted' = accepted \cup {e}
    /\ waiting' = waiting \cup {e}
    /\ UNCHANGED delivered

Deliver(e) ==
    /\ e \in accepted
    /\ delivered' = delivered \cup {e}
    /\ UNCHANGED <<accepted, waiting>>

\* Only an event the broker has is taken off the relays' hands.
Retire(e) ==
    /\ e \in delivered
    /\ waiting' = waiting \ {e}
    /\ UNCHANGED <<accepted, delivered>>

Requeue(e) ==
    /\ e \in accepted
    /\ waiting' = waiting \cup {e}
    /\ UNCHANGED <<accepted, delivered>>

\* c gets its only answer.  "created" says that the broker has the event,
\* "queued" that it is accepted; "failed" promises nothing.
Tell(c) ==
    /\ answer[c] = NoAnswer
    /\ \/ \E e \in delivered' :
            answer' = [answer EXCEPT ![c] = [says |-> "created", of |-> e]]
       \/ \E e \in accepted' :
            answer' = [answer EXCEPT ![c] = [says |-> "queued", of |-> e]]
       \/ answer' = [answer EXCEPT ![c] = [says |-> "failed", of |-> 0]]

StoreStep ==
    \/ \E e \in Events : Accept(e) \/ Deliver(e) \/ Retire(e) \/ Requeue(e)
    \/ UNCHANGED store

AnswerStep == (\E c \in Clients : Tell(c)) \/ UNCHANGED answer

\* One statement of the store and the answer that follows it are one step.
Next == StoreStep /\ AnswerStep

Spec == Init /\ [][Next]_<<store, answer>>
=============================================================================
