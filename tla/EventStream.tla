----------------------------- MODULE EventStream -----------------------------
(***************************************************************************)
(* The live event stream (GET /stream): handleStream, the subscription of  *)
(* the event bus behind it and the inbox table that removes duplicates.    *)
(*                                                                         *)
(* Subscribe is a plain NATS subscription: a subscriber gets every message *)
(* sent while it is subscribed, in order, at most once each.  JetStream's  *)
(* own duplicate window does not cover it, so an event that was published  *)
(* twice (a retry after a lost answer, a request and a relay) arrives      *)
(* twice, and only the claim of <<consumer, message id>> in inbox_consumed *)
(* keeps the second copy from the client.                                  *)
(*                                                                         *)
(* A stream is one request.  A client that reconnects is another stream,   *)
(* which may name the same consumer, on the same or on another node.       *)
(***************************************************************************)
EXTENDS Naturals, Sequences, Functions

CONSTANTS
    Streams,       \* stream requests; each is served once
    Consumers,     \* consumer names
    Messages,      \* messages, by message id
    Unnamed,       \* the messages that carry no message id
    None,          \* no message
    Instrumented,  \* whether the request comes through instrument, as Run wires it
    Capacity,      \* room in the channel between callback and handler (128)
    MaxPublishes,  \* bound: messages sent, duplicates included
    MaxFaults      \* bound: failed claims, broken connections and crashes

ASSUME StreamAssumption ==
    /\ Unnamed \subseteq Messages
    /\ None \notin Messages
    /\ Instrumented \in BOOLEAN
    /\ Capacity \in Nat \ {0}
    /\ MaxPublishes \in Nat
    /\ MaxFaults \in Nat

VARIABLES
    consumer,    \* the consumer name each request gave
    pc,          \* where each handler is
    current,     \* the message a handler has taken from its channel
    subscribed,  \* the streams with a subscription
    wire,        \* per stream: sent to the subscription, callback not yet run
    ch,          \* per stream: the channel
    inbox,       \* rows <<consumer, message id>> of inbox_consumed
    done,        \* the streams whose request context is done
    faults,      \* failed claims, broken connections and crashes so far
    sent,        \* history: all messages sent, in order
    received,    \* history: per stream, what its client got, in order
    excused      \* history: <<consumer, message>> with a fault on the way

vars == <<consumer, pc, current, subscribed, wire, ch, inbox, done, faults,
          sent, received, excused>>

Labels == {"start", "waiting", "claim", "write", "closed", "failed",
           "unsupported"}

Claims == Consumers \X Messages

TypeOK ==
    /\ consumer \in [Streams -> Consumers]
    /\ pc \in [Streams -> Labels]
    /\ current \in [Streams -> Messages \cup {None}]
    /\ subscribed \subseteq Streams
    /\ wire \in [Streams -> Seq(Messages)]
    /\ ch \in [Streams -> Seq(Messages)]
    /\ \A s \in Streams : Len(ch[s]) <= Capacity
    /\ inbox \subseteq Claims
    /\ done \subseteq Streams
    /\ faults \in 0..MaxFaults
    /\ sent \in Seq(Messages)
    /\ received \in [Streams -> Seq(Messages)]
    /\ excused \subseteq Claims

Init ==
    /\ consumer \in [Streams -> Consumers]
    /\ pc = [s \in Streams |-> "start"]
    /\ current = [s \in Streams |-> None]
    /\ subscribed = {}
    /\ wire = [s \in Streams |-> <<>>]
    /\ ch = [s \in Streams |-> <<>>]
    /\ inbox = {}
    /\ done = {}
    /\ faults = 0
    /\ sent = <<>>
    /\ received = [s \in Streams |-> <<>>]
    /\ excused = {}

Goto(s, label) == pc' = [pc EXCEPT ![s] = label]

Fault == faults < MaxFaults /\ faults' = faults + 1

\* The row the claim of handler s is about.
Row(s) == <<consumer[s], current[s]>>

-----------------------------------------------------------------------------
(* The event bus.                                                          *)

\* A publish, first or repeated.  Every subscription gets it, or misses it.
Publish(m) ==
    /\ Len(sent) < MaxPublishes
    /\ sent' = Append(sent, m)
    /\ \E reached \in SUBSET subscribed :
         wire' = [s \in Streams |-> IF s \in reached THEN Append(wire[s], m)
                                                     ELSE wire[s]]
    /\ UNCHANGED <<consumer, pc, current, subscribed, ch, inbox, done, faults,
                   received, excused>>

\* Mutant: the callback does not look at the room left.
CallbackUnbounded(s) ==
    /\ s \in subscribed
    /\ wire[s] # <<>>
    /\ wire' = [wire EXCEPT ![s] = Tail(@)]
    /\ ch' = [ch EXCEPT ![s] = Append(@, Head(wire[s]))]
    /\ UNCHANGED <<consumer, pc, current, subscribed, inbox, done, faults, sent,
                   received, excused>>

\* The subscription's callback: into the channel, or dropped if it is full.
Callback(s) ==
    /\ s \in subscribed
    /\ wire[s] # <<>>
    /\ wire' = [wire EXCEPT ![s] = Tail(@)]
    /\ ch' = [ch EXCEPT ![s] =
                IF Len(@) < Capacity THEN Append(@, Head(wire[s])) ELSE @]
    /\ UNCHANGED <<consumer, pc, current, subscribed, inbox, done, faults, sent,
                   received, excused>>

\* Mutant: the subscription stays.
UnsubscribeKeeps(s) ==
    /\ wire' = [wire EXCEPT ![s] = <<>>]
    /\ UNCHANGED subscribed

\* sub.Unsubscribe: what the callback has not seen is dropped.
Unsubscribe(s) ==
    /\ subscribed' = subscribed \ {s}
    /\ wire' = [wire EXCEPT ![s] = <<>>]

-----------------------------------------------------------------------------
(* handleStream.                                                           *)

\* The ResponseWriter the handler is given.  net/http's own can flush;
\* statusRecorder embeds the interface ResponseWriter, so its methods are
\* Header, Write and WriteHeader.
Writer == IF Instrumented THEN "statusRecorder" ELSE "response"

Flushers == {"response"}

Open(s) ==
    /\ pc[s] = "start"
    /\ \/ \* no Flusher, or Subscribe answers an error
          /\ Goto(s, IF Writer \in Flushers THEN "failed" ELSE "unsupported")
          /\ UNCHANGED subscribed
       \/ /\ Writer \in Flushers
          /\ Goto(s, "waiting")
          /\ subscribed' = subscribed \cup {s}
    /\ UNCHANGED <<consumer, current, wire, ch, inbox, done, faults, sent,
                   received, excused>>

\* Mutant: the message is left in the channel.
TakeMessagePeeks(s) ==
    /\ pc[s] = "waiting"
    /\ ch[s] # <<>>
    /\ current' = [current EXCEPT ![s] = Head(ch[s])]
    /\ Goto(s, IF Head(ch[s]) \in Unnamed THEN "write" ELSE "claim")
    /\ UNCHANGED <<consumer, subscribed, wire, ch, inbox, done, faults, sent,
                   received, excused>>

\* Mutant: the handler ends after the message instead of going on.
WriteOnce(s) ==
    /\ pc[s] = "write"
    /\ received' = [received EXCEPT ![s] = Append(@, current[s])]
    /\ Goto(s, "closed")
    /\ UNCHANGED <<consumer, current, subscribed, wire, ch, inbox, done, faults,
                   sent, excused>>

\* The select picks a message.  One without an id is not claimed.
TakeMessage(s) ==
    /\ pc[s] = "waiting"
    /\ ch[s] # <<>>
    /\ current' = [current EXCEPT ![s] = Head(ch[s])]
    /\ ch' = [ch EXCEPT ![s] = Tail(@)]
    /\ Goto(s, IF Head(ch[s]) \in Unnamed THEN "write" ELSE "claim")
    /\ UNCHANGED <<consumer, subscribed, wire, inbox, done, faults, sent,
                   received, excused>>

\* Mutant: a plain INSERT, which applies whether or not the row is there.
ClaimInboxMessageAlways(s) ==
    /\ pc[s] = "claim"
    /\ inbox' = inbox \cup {Row(s)}
    /\ Goto(s, "write")
    /\ UNCHANGED <<consumer, current, subscribed, wire, ch, done, faults, sent,
                   received, excused>>

\* Mutant: the row is written and the answer of the condition is read upside down.
ClaimInboxMessageReversed(s) ==
    /\ pc[s] = "claim"
    /\ inbox' = inbox \cup {Row(s)}
    /\ Goto(s, IF Row(s) \in inbox THEN "write" ELSE "waiting")
    /\ UNCHANGED <<consumer, current, subscribed, wire, ch, done, faults, sent,
                   received, excused>>

\* Mutant: a claim that failed counts as applied.
ClaimInboxMessageHopeful(s) ==
    /\ pc[s] = "claim"
    /\ \/ /\ Row(s) \notin inbox
          /\ inbox' = inbox \cup {Row(s)}
          /\ Goto(s, "write")
          /\ UNCHANGED <<faults, excused>>
       \/ /\ Row(s) \in inbox
          /\ Goto(s, "waiting")
          /\ UNCHANGED <<inbox, faults, excused>>
       \/ /\ Fault \/ (s \in done /\ UNCHANGED faults)
          /\ inbox' \in {inbox, inbox \cup {Row(s)}}
          /\ excused' = excused \cup {Row(s)}
          /\ Goto(s, "write")
    /\ UNCHANGED <<consumer, current, subscribed, wire, ch, done, sent, received>>

\* INSERT ... IF NOT EXISTS: applied, refused, or an error (a timeout, a
\* finished request, an open circuit) that may hide an applied insert.  The
\* handler writes the message only if it was told "applied".
ClaimInboxMessage(s) ==
    /\ pc[s] = "claim"
    /\ \/ /\ Row(s) \notin inbox
          /\ inbox' = inbox \cup {Row(s)}
          /\ Goto(s, "write")
          /\ UNCHANGED <<faults, excused>>
       \/ /\ Row(s) \in inbox
          /\ Goto(s, "waiting")
          /\ UNCHANGED <<inbox, faults, excused>>
       \/ /\ Fault \/ (s \in done /\ UNCHANGED faults)
          /\ inbox' \in {inbox, inbox \cup {Row(s)}}
          /\ excused' = excused \cup {Row(s)}
          /\ Goto(s, "waiting")
    /\ UNCHANGED <<consumer, current, subscribed, wire, ch, done, sent, received>>

\* Write and Flush, whose errors are dropped.  A write to a broken connection
\* ends the request context.
Write(s) ==
    /\ pc[s] = "write"
    /\ \/ /\ s \notin done
          /\ received' = [received EXCEPT ![s] = Append(@, current[s])]
          /\ UNCHANGED <<done, faults, excused>>
       \/ /\ Fault \/ (s \in done /\ UNCHANGED faults)
          /\ done' = done \cup {s}
          /\ excused' = excused \cup {Row(s)}
          /\ UNCHANGED received
    /\ Goto(s, "waiting")
    /\ UNCHANGED <<consumer, current, subscribed, wire, ch, inbox, sent>>

\* The select finds the context done.
Return(s) ==
    /\ pc[s] = "waiting"
    /\ s \in done
    /\ Goto(s, "closed")
    /\ Unsubscribe(s)
    /\ ch' = [ch EXCEPT ![s] = <<>>]
    /\ UNCHANGED <<consumer, current, inbox, done, faults, sent, received, excused>>

\* The goroutine Subscribe leaves behind.
UnsubscribeWhenDone(s) ==
    /\ s \in done \cap subscribed
    /\ Unsubscribe(s)
    /\ UNCHANGED <<consumer, pc, current, ch, inbox, done, faults, sent, received,
                   excused>>

-----------------------------------------------------------------------------
(* The client and the node.                                                *)

Serving(s) == pc[s] \in {"waiting", "claim", "write"}

\* The client goes away, or the server closes the connection.
Disconnect(s) ==
    /\ Serving(s)
    /\ done' = done \cup {s}
    /\ UNCHANGED <<consumer, pc, current, subscribed, wire, ch, inbox, faults,
                   sent, received, excused>>

\* The node dies; a claim under way may still be applied.
Crash(s) ==
    /\ Serving(s)
    /\ Fault
    /\ IF pc[s] = "claim" THEN inbox' \in {inbox, inbox \cup {Row(s)}}
                          ELSE UNCHANGED inbox
    /\ excused' = IF pc[s] = "waiting" THEN excused ELSE excused \cup {Row(s)}
    /\ Goto(s, "closed")
    /\ done' = done \cup {s}
    /\ Unsubscribe(s)
    /\ ch' = [ch EXCEPT ![s] = <<>>]
    /\ UNCHANGED <<consumer, current, sent, received>>

-----------------------------------------------------------------------------
HandlerStep(s) ==
    Open(s) \/ TakeMessage(s) \/ ClaimInboxMessage(s) \/ Write(s) \/ Return(s)

BusStep(s) == Callback(s) \/ UnsubscribeWhenDone(s)

Next ==
    \/ \E m \in Messages : Publish(m)
    \/ \E s \in Streams : HandlerStep(s) \/ BusStep(s) \/ Disconnect(s) \/ Crash(s)

Spec == Init /\ [][Next]_vars

\* Goroutines run: the handler, the callback and the one that unsubscribes.
\* Nothing is promised about clients, publishers and faults.
Fairness ==
    \A s \in Streams :
        WF_vars(HandlerStep(s)) /\ WF_vars(Callback(s)) /\ WF_vars(UnsubscribeWhenDone(s))

FairSpec == Spec /\ Fairness

-----------------------------------------------------------------------------
(* Properties.                                                             *)

\* A consumer gets a message at most once, over all its streams, reconnects and
\* nodes, although the message is published again, claims fail after they took
\* effect and nodes die between claim and write.
AtMostOncePerConsumer ==
    \A s, t \in Streams : consumer[s] = consumer[t] =>
        \A i \in DOMAIN received[s], j \in DOMAIN received[t] :
            /\ received[s][i] = received[t][j]
            /\ received[s][i] \notin Unnamed
            => s = t /\ i = j

\* A claim is never wasted without a fault: a message whose row is in
\* inbox_consumed has been received by a stream of that consumer, or is about to
\* be written, unless a claim of it failed, or its stream or node went away.
ClaimedReachesConsumer ==
    \A row \in inbox \ excused :
        \E s \in Streams :
            /\ consumer[s] = row[1]
            /\ \/ row[2] \in Range(received[s])
               \/ pc[s] = "write" /\ current[s] = row[2]

\* A stream keeps the order of publication: what a client gets is what was sent,
\* with gaps, never reordered, however callback, full channel and handler interleave.
ReceivedInOrder ==
    \A s \in Streams :
        \E at \in [DOMAIN received[s] -> DOMAIN sent] :
            /\ \A i \in DOMAIN received[s] : received[s][i] = sent[at[i]]
            /\ \A i, j \in DOMAIN received[s] : i < j => at[i] < at[j]

\* A message that got into a channel reaches the consumer, by this stream or by
\* another of its streams, unless there is a fault or the stream ends.
BufferedIsReceived ==
    \A s \in Streams, m \in Messages :
        m \in Range(ch[s]) ~>
            \/ s \in done
            \/ \E t \in Streams : consumer[t] = consumer[s] /\ m \in Range(received[t])
            \/ <<consumer[s], m>> \in excused

\* A request that is over leaves nothing behind: its handler returns and its
\* subscription is dropped, by the handler or by the goroutine of Subscribe.
StreamsLetGo ==
    \A s \in Streams : s \in done ~> (~Serving(s) /\ s \notin subscribed)

-----------------------------------------------------------------------------
(* The inbox as consumers see it.                                          *)

\* What became of the one chance of a consumer to get a message.
Chance(row) ==
    IF row \notin inbox THEN "open"
    ELSE IF \E s \in Streams : consumer[s] = row[1] /\ row[2] \in Range(received[s])
         THEN "delivered"
    ELSE IF \E s \in Streams : pc[s] = "write" /\ Row(s) = row THEN "granted"
    ELSE "lost"

Chances == [row \in Consumers \X (Messages \ Unnamed) |-> Chance(row)]

Inbox == INSTANCE InboxDelivery WITH chance <- Chances

\* handleStream and ClaimInboxMessage give every consumer one chance per message:
\* a claim is granted to one stream, which delivers the message or loses it to a
\* fault, and no later publish, claim or stream revives or repeats it.
OneChanceEach == Inbox!Spec

-----------------------------------------------------------------------------
(* A claim of the documentation that the code does not keep.               *)

\* GET /stream is a live event stream: handleStream turns no request away with
\* "streaming unsupported".
StreamIsSupported == \A s \in Streams : pc[s] # "unsupported"
=============================================================================
