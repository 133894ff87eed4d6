-------------------------- MODULE EventStreamProofs --------------------------
(***************************************************************************)
(* What the inbox promises to consumers, for any number of streams,        *)
(* consumers, messages and faults, and any capacity of the channels: no    *)
(* duplicates, no wasted claims, the order of publication, and that        *)
(* EventStream implements InboxDelivery.                                   *)
(***************************************************************************)
EXTENDS EventStream, TLAPS

\* A handler that claims or writes has a message in hand, and claims only
\* messages with an id.
InHand ==
    \A s \in Streams :
        /\ pc[s] \in {"claim", "write"} => current[s] \in Messages
        /\ pc[s] = "claim" => current[s] \notin Unnamed

\* What a client got was claimed for its consumer.
ReceivedIsClaimed ==
    \A s \in Streams : \A i \in DOMAIN received[s] :
        received[s][i] \notin Unnamed => <<consumer[s], received[s][i]>> \in inbox

\* The handler that writes a claimed message is the only one of its consumer
\* that does, and no stream of the consumer has got the message before.
WriterOwnsClaim ==
    \A s \in Streams :
        pc[s] = "write" /\ current[s] \notin Unnamed =>
            /\ Row(s) \in inbox
            /\ \A t \in Streams :
                  consumer[t] = consumer[s] =>
                     /\ \A i \in DOMAIN received[t] : received[t][i] # current[s]
                     /\ t # s /\ pc[t] = "write" => current[t] # current[s]

Inv ==
    /\ TypeOK
    /\ InHand
    /\ ReceivedIsClaimed
    /\ WriterOwnsClaim
    /\ AtMostOncePerConsumer
    /\ ClaimedReachesConsumer

\* No stream is served and nothing is claimed at the start.
LEMMA InitInv == Init => Inv
  BY StreamAssumption
     DEF Init, Inv, TypeOK, Labels, InHand, ReceivedIsClaimed, WriterOwnsClaim,
         AtMostOncePerConsumer, ClaimedReachesConsumer, Claims

\* Steps that touch neither inbox, handlers' messages nor what clients got.
LEMMA QuietSteps ==
    ASSUME Inv, TypeOK',
           UNCHANGED <<consumer, current, inbox, received, excused>>,
           \A s \in Streams :
              \/ pc'[s] = pc[s]
              \/ pc[s] # "write" /\ pc'[s] \notin {"claim", "write"}
    PROVE  Inv'
  BY DEF Inv, TypeOK, InHand, ReceivedIsClaimed, WriterOwnsClaim,
         AtMostOncePerConsumer, ClaimedReachesConsumer, Row

\* Type correctness of every step.
LEMMA NextTypeOK ==
    ASSUME Inv, [Next]_vars
    PROVE  TypeOK'
<1> USE StreamAssumption DEF Inv, TypeOK, InHand, Labels, Claims, Goto, Fault, Row
<1>1. ASSUME NEW m \in Messages, Publish(m) PROVE TypeOK'
  BY <1>1 DEF Publish
<1>2. ASSUME NEW s \in Streams, Callback(s) PROVE TypeOK'
  BY <1>2 DEF Callback
<1>3. ASSUME NEW s \in Streams, Open(s) PROVE TypeOK'
  BY <1>3 DEF Open
<1>4. ASSUME NEW s \in Streams, TakeMessage(s) PROVE TypeOK'
  BY <1>4 DEF TakeMessage
<1>5. ASSUME NEW s \in Streams, ClaimInboxMessage(s) PROVE TypeOK'
  <2>1. Row(s) \in Claims
    BY <1>5 DEF ClaimInboxMessage
  <2>2. pc' \in [Streams -> Labels] /\ faults' \in 0..MaxFaults
    <3>1. pc' \in [Streams -> Labels]
      BY <1>5 DEF ClaimInboxMessage
    <3>2. faults' = faults \/ (faults < MaxFaults /\ faults' = faults + 1)
      BY <1>5 DEF ClaimInboxMessage
    <3> QED
      BY <3>1, <3>2
  <2>3. inbox' \subseteq Claims /\ excused' \subseteq Claims
    BY <1>5, <2>1 DEF ClaimInboxMessage
  <2> QED
    BY <1>5, <2>2, <2>3 DEF ClaimInboxMessage
<1>6. ASSUME NEW s \in Streams, Write(s) PROVE TypeOK'
  <2>1. Row(s) \in Claims
    BY <1>6 DEF Write
  <2>2. pc' \in [Streams -> Labels] /\ faults' \in 0..MaxFaults
    BY <1>6 DEF Write
  <2>3. excused' \subseteq Claims /\ done' \subseteq Streams
    BY <1>6, <2>1 DEF Write
  <2>4. received' \in [Streams -> Seq(Messages)]
    <3>1. current[s] \in Messages
      BY <1>6 DEF Write
    <3>2. received' = received \/ received' = [received EXCEPT ![s] = Append(@, current[s])]
      BY <1>6 DEF Write
    <3>3. Append(received[s], current[s]) \in Seq(Messages)
      BY <3>1
    <3> QED
      BY <3>2, <3>3
  <2> QED
    BY <1>6, <2>2, <2>3, <2>4 DEF Write
<1>7. ASSUME NEW s \in Streams, Return(s) PROVE TypeOK'
  BY <1>7 DEF Return, Unsubscribe
<1>8. ASSUME NEW s \in Streams, UnsubscribeWhenDone(s) PROVE TypeOK'
  BY <1>8 DEF UnsubscribeWhenDone, Unsubscribe
<1>9. ASSUME NEW s \in Streams, Disconnect(s) PROVE TypeOK'
  BY <1>9 DEF Disconnect
<1>10. ASSUME NEW s \in Streams, Crash(s) PROVE TypeOK'
  BY <1>10 DEF Crash, Unsubscribe, Serving
<1>11. CASE UNCHANGED vars
  BY <1>11 DEF vars
<1> QED
  BY <1>1, <1>2, <1>3, <1>4, <1>5, <1>6, <1>7, <1>8, <1>9, <1>10, <1>11
     DEF Next, HandlerStep, BusStep

\* A claim that is applied gives the message to one writer; a refused or failed
\* one gives it to nobody.
LEMMA ClaimKeepsInv ==
    ASSUME Inv, TypeOK', NEW s \in Streams, ClaimInboxMessage(s)
    PROVE  Inv'
<1>1. /\ UNCHANGED <<consumer, current, received>>
      /\ current[s] \in Messages \ Unnamed
      /\ pc[s] = "claim" /\ pc'[s] \in {"write", "waiting"}
      /\ \A t \in Streams \ {s} : pc'[t] = pc[t]
  BY DEF ClaimInboxMessage, InHand, Inv, TypeOK, Goto
<1>2. /\ inbox \subseteq inbox' /\ inbox' \subseteq inbox \cup {Row(s)}
      /\ excused \subseteq excused'
      /\ Row(s) \in inbox' \ inbox => Row(s) \in excused' \/ pc'[s] = "write"
      /\ pc'[s] = "write" => Row(s) \in inbox' \ inbox
  BY DEF ClaimInboxMessage, Inv, TypeOK, Goto
<1>3. InHand' /\ ReceivedIsClaimed'
  BY <1>1, <1>2 DEF InHand, ReceivedIsClaimed, Inv
<1>4. WriterOwnsClaim'
  <2> SUFFICES ASSUME NEW q \in Streams, pc'[q] = "write", current[q] \notin Unnamed,
                      NEW t \in Streams, consumer[t] = consumer[q]
               PROVE  /\ Row(q) \in inbox'
                      /\ \A i \in DOMAIN received[t] : received[t][i] # current[q]
                      /\ t # q /\ pc'[t] = "write" => current[t] # current[q]
    BY <1>1 DEF WriterOwnsClaim, Row
  <2>1. CASE q = s
    BY <1>1, <1>2, <2>1 DEF WriterOwnsClaim, ReceivedIsClaimed, Row, Inv
  <2>2. CASE q # s
    BY <1>1, <1>2, <2>2 DEF WriterOwnsClaim, Row, Inv
  <2> QED
    BY <2>1, <2>2
<1>5. AtMostOncePerConsumer'
  BY <1>1 DEF AtMostOncePerConsumer, Inv
<1>6. ClaimedReachesConsumer'
  <2> SUFFICES ASSUME NEW row \in inbox' \ excused'
               PROVE  \E q \in Streams :
                         /\ consumer[q] = row[1]
                         /\ \/ row[2] \in Range(received[q])
                            \/ pc'[q] = "write" /\ current[q] = row[2]
    BY <1>1 DEF ClaimedReachesConsumer
  <2>1. CASE row \in inbox
    BY <1>1, <1>2, <2>1 DEF ClaimedReachesConsumer, Inv
  <2>2. CASE row \notin inbox
    BY <1>1, <1>2, <2>2 DEF Row
  <2> QED
    BY <2>1, <2>2
<1> QED
  BY <1>3, <1>4, <1>5, <1>6 DEF Inv

\* A write that fails is excused.
LEMMA FailedWriteKeepsInv ==
    ASSUME Inv, TypeOK', NEW s \in Streams, Write(s), UNCHANGED received,
           excused' = excused \cup {Row(s)}
    PROVE  Inv'
<1>1. /\ UNCHANGED <<consumer, current, inbox, received>>
      /\ pc[s] = "write" /\ pc'[s] = "waiting"
      /\ \A t \in Streams \ {s} : pc'[t] = pc[t]
  BY DEF Write, Inv, TypeOK, Goto
<1>2. InHand' /\ ReceivedIsClaimed' /\ WriterOwnsClaim' /\ AtMostOncePerConsumer'
  BY <1>1
     DEF Inv, InHand, ReceivedIsClaimed, WriterOwnsClaim, AtMostOncePerConsumer, Row
<1>3. ClaimedReachesConsumer'
  <2> SUFFICES ASSUME NEW row \in inbox \ excused, row # Row(s)
               PROVE  \E q \in Streams :
                         /\ consumer[q] = row[1]
                         /\ \/ row[2] \in Range(received[q])
                            \/ pc'[q] = "write" /\ current[q] = row[2]
    BY <1>1 DEF ClaimedReachesConsumer
  <2>1. row = <<row[1], row[2]>>
    BY DEF Inv, TypeOK, Claims
  <2> QED
    BY <1>1, <2>1 DEF ClaimedReachesConsumer, Row, Inv
<1> QED
  BY <1>2, <1>3 DEF Inv

\* A write that succeeds hands the message to the client.
LEMMA WriteKeepsInv ==
    ASSUME Inv, TypeOK', NEW s \in Streams, Write(s),
           received' = [received EXCEPT ![s] = Append(@, current[s])]
    PROVE  Inv'
<1> DEFINE n == Len(received[s])
<1>1. /\ UNCHANGED <<consumer, current, inbox>>
      /\ pc[s] = "write" /\ pc'[s] = "waiting"
      /\ excused \subseteq excused'
      /\ \A t \in Streams \ {s} : pc'[t] = pc[t]
  BY DEF Write, Inv, TypeOK, Goto
<1>2. /\ n \in Nat
      /\ DOMAIN received[s] = 1..n
      /\ DOMAIN received'[s] = 1..(n + 1)
      /\ \A i \in 1..n : received'[s][i] = received[s][i]
      /\ received'[s][n + 1] = current[s]
      /\ \A t \in Streams \ {s} : received'[t] = received[t]
  <2>1. received[s] \in Seq(Messages) /\ received'[s] = Append(received[s], current[s])
    BY DEF Inv, TypeOK
  <2>2. current[s] \in Messages
    BY <1>1 DEF Inv, InHand
  <2>3. \A t \in Streams \ {s} : received'[t] = received[t]
    BY DEF Inv, TypeOK
  <2> QED
    BY <2>1, <2>2, <2>3
<1> HIDE DEF n
\* Every entry of the new history is an old one, or the message just written.
<1>3. \A t \in Streams : \A i \in DOMAIN received'[t] :
         \/ i \in DOMAIN received[t] /\ received'[t][i] = received[t][i]
         \/ t = s /\ i = n + 1 /\ received'[t][i] = current[s]
  BY <1>2
<1>4. InHand' /\ ReceivedIsClaimed'
  <2>1. InHand'
    BY <1>1 DEF Inv, InHand
  <2>2. current[s] \notin Unnamed => <<consumer[s], current[s]>> \in inbox
    BY <1>1 DEF Inv, WriterOwnsClaim, Row
  <2>3. ReceivedIsClaimed'
    <3> SUFFICES ASSUME NEW t \in Streams, NEW i \in DOMAIN received'[t],
                        received'[t][i] \notin Unnamed
                 PROVE  <<consumer[t], received'[t][i]>> \in inbox
      BY <1>1 DEF ReceivedIsClaimed
    <3>1. CASE i \in DOMAIN received[t] /\ received'[t][i] = received[t][i]
      BY <3>1 DEF Inv, ReceivedIsClaimed
    <3>2. CASE t = s /\ received'[t][i] = current[s]
      BY <2>2, <3>2
    <3> QED
      BY <1>3, <3>1, <3>2
  <2> QED
    BY <2>1, <2>3
<1>5. WriterOwnsClaim'
  BY <1>1, <1>3 DEF Inv, WriterOwnsClaim, Row
<1>6. AtMostOncePerConsumer'
  <2> SUFFICES ASSUME NEW q \in Streams, NEW t \in Streams, consumer[q] = consumer[t],
                      NEW i \in DOMAIN received'[q], NEW j \in DOMAIN received'[t],
                      received'[q][i] = received'[t][j], received'[q][i] \notin Unnamed
               PROVE  q = t /\ i = j
    BY <1>1 DEF AtMostOncePerConsumer
  <2>1. CASE q = s /\ i = n + 1 /\ received'[q][i] = current[s]
    BY <1>1, <1>3, <2>1 DEF Inv, WriterOwnsClaim
  <2>2. CASE t = s /\ j = n + 1 /\ received'[t][j] = current[s]
    BY <1>1, <1>3, <2>2 DEF Inv, WriterOwnsClaim
  <2>3. CASE /\ i \in DOMAIN received[q] /\ received'[q][i] = received[q][i]
             /\ j \in DOMAIN received[t] /\ received'[t][j] = received[t][j]
    BY <2>3 DEF Inv, AtMostOncePerConsumer
  <2> QED
    BY <1>3, <2>1, <2>2, <2>3
<1>7. ClaimedReachesConsumer'
  <2>1. ASSUME NEW t \in Streams, NEW m \in Range(received[t])
        PROVE  m \in Range(received'[t])
    <3>1. PICK i \in DOMAIN received[t] : m = received[t][i]
      BY <2>1 DEF Range
    <3>2. i \in DOMAIN received'[t] /\ received'[t][i] = m
      BY <1>2, <3>1
    <3> QED
      BY <3>2 DEF Range
  <2>2. current[s] \in Range(received'[s])
    BY <1>2 DEF Range
  <2> SUFFICES ASSUME NEW row \in inbox \ excused
               PROVE  \E q \in Streams :
                         /\ consumer[q] = row[1]
                         /\ \/ row[2] \in Range(received'[q])
                            \/ pc'[q] = "write" /\ current[q] = row[2]
    BY <1>1 DEF ClaimedReachesConsumer
  <2>3. PICK q \in Streams :
          /\ consumer[q] = row[1]
          /\ \/ row[2] \in Range(received[q])
             \/ pc[q] = "write" /\ current[q] = row[2]
    BY DEF Inv, ClaimedReachesConsumer
  <2> QED
    BY <1>1, <2>1, <2>2, <2>3
<1> QED
  BY <1>4, <1>5, <1>6, <1>7 DEF Inv

\* A node that dies loses the message its handler had in hand, which is excused.
LEMMA CrashKeepsInv ==
    ASSUME Inv, TypeOK', NEW s \in Streams, Crash(s)
    PROVE  Inv'
<1>1. /\ UNCHANGED <<consumer, current, received>>
      /\ pc'[s] = "closed"
      /\ \A t \in Streams \ {s} : pc'[t] = pc[t]
      /\ excused \subseteq excused'
      /\ pc[s] \in {"claim", "write"} => Row(s) \in excused'
      /\ inbox \subseteq inbox' /\ inbox' \subseteq inbox \cup excused'
  BY DEF Crash, Serving, Inv, TypeOK, Goto
<1>2. InHand' /\ ReceivedIsClaimed' /\ WriterOwnsClaim' /\ AtMostOncePerConsumer'
  BY <1>1
     DEF Inv, InHand, ReceivedIsClaimed, WriterOwnsClaim, AtMostOncePerConsumer, Row
<1>3. ClaimedReachesConsumer'
  <2> SUFFICES ASSUME NEW row \in inbox \ excused, row \notin excused'
               PROVE  \E q \in Streams :
                         /\ consumer[q] = row[1]
                         /\ \/ row[2] \in Range(received[q])
                            \/ pc'[q] = "write" /\ current[q] = row[2]
    BY <1>1 DEF ClaimedReachesConsumer
  <2>1. row = <<row[1], row[2]>>
    BY DEF Inv, TypeOK, Claims
  <2>2. PICK q \in Streams :
          /\ consumer[q] = row[1]
          /\ \/ row[2] \in Range(received[q])
             \/ pc[q] = "write" /\ current[q] = row[2]
    BY DEF Inv, ClaimedReachesConsumer
  <2> QED
    BY <1>1, <2>1, <2>2 DEF Row
<1> QED
  BY <1>2, <1>3 DEF Inv

\* Taking a message off the channel is no claim yet.
LEMMA TakeKeepsInv ==
    ASSUME Inv, TypeOK', NEW s \in Streams, TakeMessage(s)
    PROVE  Inv'
<1>1. /\ UNCHANGED <<consumer, inbox, received, excused>>
      /\ pc[s] = "waiting"
      /\ current'[s] \in Messages
      /\ pc'[s] = IF current'[s] \in Unnamed THEN "write" ELSE "claim"
      /\ \A t \in Streams \ {s} : pc'[t] = pc[t] /\ current'[t] = current[t]
  BY DEF TakeMessage, Inv, TypeOK, Goto
<1>2. InHand' /\ ReceivedIsClaimed' /\ AtMostOncePerConsumer'
  BY <1>1 DEF Inv, InHand, ReceivedIsClaimed, AtMostOncePerConsumer
<1>3. WriterOwnsClaim'
  BY <1>1 DEF Inv, WriterOwnsClaim, Row
<1>4. ClaimedReachesConsumer'
  BY <1>1 DEF Inv, ClaimedReachesConsumer
<1> QED
  BY <1>2, <1>3, <1>4 DEF Inv

\* Every step of handlers, bus, clients and nodes keeps Inv.
LEMMA NextInv == Inv /\ [Next]_vars => Inv'
<1> SUFFICES ASSUME Inv, [Next]_vars PROVE Inv'
  OBVIOUS
<1>1. TypeOK'
  BY NextTypeOK
<1>2. ASSUME NEW m \in Messages, Publish(m) PROVE Inv'
  BY <1>1, <1>2, QuietSteps DEF Publish
<1>3. ASSUME NEW s \in Streams,
             Callback(s) \/ UnsubscribeWhenDone(s) \/ Disconnect(s)
      PROVE  Inv'
  BY <1>1, <1>3, QuietSteps DEF Callback, UnsubscribeWhenDone, Disconnect
<1>4. ASSUME NEW s \in Streams, Open(s) \/ Return(s) PROVE Inv'
  <2>1. UNCHANGED <<consumer, current, inbox, received, excused>>
    BY <1>4 DEF Open, Return
  <2>2. \A t \in Streams :
           \/ pc'[t] = pc[t]
           \/ pc[t] # "write" /\ pc'[t] \notin {"claim", "write"}
    BY <1>4 DEF Open, Return, Goto, Inv, TypeOK
  <2> QED
    BY <1>1, <2>1, <2>2, QuietSteps
<1>5. ASSUME NEW s \in Streams, Write(s) PROVE Inv'
  BY <1>1, <1>5, WriteKeepsInv, FailedWriteKeepsInv DEF Write
<1>6. CASE UNCHANGED vars
  BY <1>1, <1>6, QuietSteps DEF vars
<1> QED
  BY <1>1, <1>2, <1>3, <1>4, <1>5, <1>6, TakeKeepsInv, ClaimKeepsInv, CrashKeepsInv
     DEF Next, HandlerStep, BusStep

\* Types, claims and what clients got, together inductive.
THEOREM InvHolds == Spec => []Inv
  BY InitInv, NextInv, PTL DEF Spec

\* A consumer gets a message with an id at most once, for any number of streams
\* and nodes that serve it, duplicates published and faults.
THEOREM InboxDeduplicates == Spec => []AtMostOncePerConsumer
<1>1. Inv => AtMostOncePerConsumer
  BY DEF Inv
<1> QED
  BY <1>1, InvHolds, PTL

\* A row of inbox_consumed stands for a message that was or is being written,
\* or for a fault.
THEOREM ClaimsAreUsed == Spec => []ClaimedReachesConsumer
<1>1. Inv => ClaimedReachesConsumer
  BY DEF Inv
<1> QED
  BY <1>1, InvHolds, PTL

\* Type correctness; the channel between callback and handler never holds more
\* than its capacity.
THEOREM TypesHold == Spec => []TypeOK
<1>1. Inv => TypeOK
  BY DEF Inv
<1> QED
  BY <1>1, InvHolds, PTL

-----------------------------------------------------------------------------
(* The order of what a client gets.  A message is on the wire, then in the *)
(* channel, then in the hand of the handler, then received; InOrder gives  *)
(* every message that a stream has its place among those sent, and the     *)
(* places rise from what was received to what is last on the wire.         *)

\* at names, in rising order, where in z the elements of q come from.
Places(at, q, z) ==
    /\ at \in [1..Len(q) -> 1..Len(z)]
    /\ \A i \in 1..Len(q) : q[i] = z[at[i]]
    /\ \A i, j \in 1..Len(q) : i < j => at[i] < at[j]

\* The places of all that stream s has of the messages sent: r of what its
\* client got, c of the message in hand or of the last one taken, k of the
\* channel and w of the wire, in this order.
Track(s, r, c, k, w) ==
    /\ Places(r, received[s], sent)
    /\ Places(k, ch[s], sent)
    /\ Places(w, wire[s], sent)
    /\ pc[s] \in {"claim", "write"} => c \in 1..Len(sent) /\ sent[c] = current[s]
    /\ \A i \in 1..Len(received[s]) :
          IF pc[s] \in {"claim", "write"} THEN r[i] < c ELSE r[i] <= c
    /\ \A i \in 1..Len(ch[s]) : c < k[i]
    /\ \A i \in 1..Len(wire[s]) : c < w[i]
    /\ \A i \in 1..Len(ch[s]), j \in 1..Len(wire[s]) : k[i] < w[j]

\* Stream s has its messages in the order of publication.
Tracked(s) ==
    \E r \in [1..Len(received[s]) -> 1..Len(sent)],
       c \in 0..Len(sent),
       k \in [1..Len(ch[s]) -> 1..Len(sent)],
       w \in [1..Len(wire[s]) -> 1..Len(sent)] : Track(s, r, c, k, w)

InOrder == \A s \in Streams : Tracked(s)

\* Places stay when one more message is sent.
LEMMA PlacesGrow ==
    ASSUME NEW q \in Seq(Messages), NEW z \in Seq(Messages), NEW m \in Messages,
           NEW at, Places(at, q, z)
    PROVE  Places(at, q, Append(z, m))
<1>1. Len(Append(z, m)) = Len(z) + 1 /\ \A i \in 1..Len(z) : Append(z, m)[i] = z[i]
  OBVIOUS
<1>2. Len(q) \in Nat /\ Len(z) \in Nat
  OBVIOUS
<1> QED
  BY <1>1, <1>2 DEF Places

\* The places at of q, lengthened by place p for one more element.
Lengthened(at, q, p, z) ==
    \E b \in [1..Len(q) + 1 -> 1..Len(z)] :
       /\ Places(b, Append(q, z[p]), z)
       /\ b[Len(q) + 1] = p
       /\ \A i \in 1..Len(q) : b[i] = at[i]

\* One more element, from a place behind all others.
LEMMA PlacesAppend ==
    ASSUME NEW q \in Seq(Messages), NEW z \in Seq(Messages), NEW at, Places(at, q, z),
           NEW p \in 1..Len(z), \A i \in 1..Len(q) : at[i] < p
    PROVE  Lengthened(at, q, p, z)
<1> DEFINE n == Len(q)
           a == Append(q, z[p])
           b == [i \in 1..n + 1 |-> IF i = n + 1 THEN p ELSE at[i]]
<1>1. Len(a) = n + 1 /\ a[n + 1] = z[p] /\ \A i \in 1..n : a[i] = q[i]
  OBVIOUS
<1>2. n \in Nat /\ Len(z) \in Nat
  OBVIOUS
<1>3. /\ at \in [1..n -> 1..Len(z)]
      /\ \A i \in 1..n : q[i] = z[at[i]] /\ at[i] < p
      /\ \A i, j \in 1..n : i < j => at[i] < at[j]
  BY DEF Places
<1> HIDE DEF n, a
<1>4. b \in [1..n + 1 -> 1..Len(z)] /\ b[n + 1] = p /\ \A i \in 1..n : b[i] = at[i]
  BY <1>2, <1>3
<1>5. \A i \in 1..n + 1 : i = n + 1 \/ i \in 1..n
  BY <1>2
<1> HIDE DEF b
<1>6. \A i \in 1..n + 1 : a[i] = z[b[i]]
  BY <1>1, <1>3, <1>4, <1>5
<1>7. ASSUME NEW i \in 1..n + 1, NEW j \in 1..n + 1, i < j PROVE b[i] < b[j]
  <2>1. i \in 1..n
    BY <1>2, <1>7
  <2> QED
    BY <1>3, <1>4, <1>5, <1>7, <2>1
<1>8. Places(b, a, z)
  BY <1>1, <1>4, <1>6, <1>7 DEF Places
<1> QED
  BY <1>4, <1>8 DEF n, a, Lengthened

\* The places at of q without the first, which is before them all.
Shortened(at, q, z) ==
    \E b \in [1..Len(Tail(q)) -> 1..Len(z)] :
       /\ Places(b, Tail(q), z)
       /\ at[1] \in 1..Len(z) /\ z[at[1]] = Head(q)
       /\ \A i \in 1..Len(Tail(q)) : i + 1 \in 1..Len(q) /\ b[i] = at[i + 1]
       /\ \A i \in 1..Len(Tail(q)) : at[1] < b[i]

\* The places of the rest, behind the place of the head.
LEMMA PlacesTail ==
    ASSUME NEW q \in Seq(Messages), q # <<>>, NEW z \in Seq(Messages), NEW at,
           Places(at, q, z)
    PROVE  Shortened(at, q, z)
<1> DEFINE n == Len(q)
           t == Tail(q)
           b == [i \in 1..n - 1 |-> at[i + 1]]
<1>1. /\ n \in Nat \ {0} /\ Len(t) = n - 1 /\ Len(z) \in Nat
      /\ \A i \in 1..n - 1 : t[i] = q[i + 1]
      /\ Head(q) = q[1]
  OBVIOUS
<1>2. /\ at \in [1..n -> 1..Len(z)]
      /\ \A i \in 1..n : q[i] = z[at[i]]
      /\ \A i, j \in 1..n : i < j => at[i] < at[j]
  BY DEF Places
<1> HIDE DEF n, t
<1>3. \A i \in 1..n - 1 : i + 1 \in 1..n /\ 1 < i + 1 /\ b[i] = at[i + 1]
  BY <1>1
<1>4. b \in [1..n - 1 -> 1..Len(z)]
  BY <1>2, <1>3
<1> HIDE DEF b
<1>5. \A i \in 1..n - 1 : t[i] = z[b[i]]
  BY <1>1, <1>2, <1>3
<1>6. ASSUME NEW i \in 1..n - 1, NEW j \in 1..n - 1, i < j PROVE b[i] < b[j]
  <2>1. i + 1 < j + 1
    BY <1>1, <1>6
  <2> QED
    BY <1>2, <1>3, <2>1
<1>7. 1 \in 1..n
  BY <1>1
<1>8. at[1] \in 1..Len(z) /\ z[at[1]] = Head(q) /\ \A i \in 1..n - 1 : at[1] < b[i]
  BY <1>1, <1>2, <1>3, <1>7
<1>9. Places(b, t, z)
  BY <1>1, <1>4, <1>5, <1>6 DEF Places
<1> QED
  BY <1>1, <1>3, <1>4, <1>8, <1>9 DEF n, t, Shortened

\* No place is needed for what there is not.
LEMMA PlacesNothing ==
    ASSUME NEW z \in Seq(Messages)
    PROVE  \E at \in [1..Len(<<>>) -> 1..Len(z)] : Places(at, <<>>, z)
<1>1. Len(<<>>) = 0 /\ 1..0 = {}
  OBVIOUS
<1>2. [i \in {} |-> 1] \in [{} -> 1..Len(z)]
  OBVIOUS
<1> QED
  BY <1>1, <1>2 DEF Places

\* What TypeOK says of the messages of stream s.
Types(s) ==
    /\ received[s] \in Seq(Messages) /\ ch[s] \in Seq(Messages)
    /\ wire[s] \in Seq(Messages) /\ sent \in Seq(Messages)

\* A step that leaves messages where they are, or drops what is in the channel
\* or on the wire.
LEMMA DropsKeepOrder ==
    ASSUME NEW s \in Streams, Types(s), Tracked(s),
           UNCHANGED <<received[s], current[s], sent>>,
           wire'[s] \in {wire[s], <<>>},
           ch'[s] \in {ch[s], <<>>},
           pc'[s] \in {"claim", "write"} => pc[s] \in {"claim", "write"}
    PROVE  Tracked(s)'
<1>1. PICK r \in [1..Len(received[s]) -> 1..Len(sent)],
           c \in 0..Len(sent),
           k \in [1..Len(ch[s]) -> 1..Len(sent)],
           w \in [1..Len(wire[s]) -> 1..Len(sent)] : Track(s, r, c, k, w)
  BY DEF Tracked
<1>2. PICK k2 \in [1..Len(ch'[s]) -> 1..Len(sent)] :
         /\ Places(k2, ch'[s], sent)
         /\ \A i \in 1..Len(ch'[s]) : i \in 1..Len(ch[s]) /\ k2[i] = k[i]
  <2>1. CASE ch'[s] = ch[s]
    BY <1>1, <2>1 DEF Track
  <2>2. CASE ch'[s] = <<>>
    BY <2>2, PlacesNothing DEF Types
  <2> QED
    BY <2>1, <2>2
<1>3. PICK w2 \in [1..Len(wire'[s]) -> 1..Len(sent)] :
         /\ Places(w2, wire'[s], sent)
         /\ \A i \in 1..Len(wire'[s]) : i \in 1..Len(wire[s]) /\ w2[i] = w[i]
  <2>1. CASE wire'[s] = wire[s]
    BY <1>1, <2>1 DEF Track
  <2>2. CASE wire'[s] = <<>>
    BY <2>2, PlacesNothing DEF Types
  <2> QED
    BY <2>1, <2>2
<1>4. \A i \in 1..Len(received[s]) : r[i] <= c /\ (pc'[s] \in {"claim", "write"} => r[i] < c)
  <2>1. Len(sent) \in Nat
    BY DEF Types
  <2>2. \A i \in 1..Len(received[s]) :
          IF pc[s] \in {"claim", "write"} THEN r[i] < c ELSE r[i] <= c
    BY <1>1 DEF Track
  <2>3. \A i \in 1..Len(received[s]) : r[i] \in Int /\ c \in Int
    BY <2>1
  <2> QED
    BY <2>2, <2>3
<1>5. Track(s, r, c, k2, w2)'
  BY <1>1, <1>2, <1>3, <1>4 DEF Track
<1> QED
  BY <1>5 DEF Tracked

\* A publish puts the message behind all others, or misses the stream.
LEMMA PublishKeepsOrder ==
    ASSUME NEW s \in Streams, Types(s), Tracked(s), NEW m \in Messages,
           sent' = Append(sent, m),
           UNCHANGED <<received[s], current[s], pc[s], ch[s]>>,
           wire'[s] \in {wire[s], Append(wire[s], m)}
    PROVE  Tracked(s)'
<1>1. PICK r \in [1..Len(received[s]) -> 1..Len(sent)],
           c \in 0..Len(sent),
           k \in [1..Len(ch[s]) -> 1..Len(sent)],
           w \in [1..Len(wire[s]) -> 1..Len(sent)] : Track(s, r, c, k, w)
  BY DEF Tracked
<1> DEFINE n == Len(sent)
           l == Len(wire[s])
<1>2. /\ n \in Nat /\ l \in Nat
      /\ sent' \in Seq(Messages) /\ Len(sent') = n + 1 /\ sent'[n + 1] = m
      /\ \A i \in 1..n : sent'[i] = sent[i]
  BY DEF Types
<1>3. /\ Places(r, received[s], sent') /\ Places(k, ch[s], sent')
      /\ Places(w, wire[s], sent')
  BY <1>1, PlacesGrow DEF Track, Types
<1>4. /\ r \in [1..Len(received[s]) -> 1..Len(sent')]
      /\ k \in [1..Len(ch[s]) -> 1..Len(sent')]
      /\ c \in 0..Len(sent')
  BY <1>2, <1>3 DEF Places
<1>5. pc'[s] \in {"claim", "write"} => c \in 1..Len(sent') /\ sent'[c] = current'[s]
  BY <1>1, <1>2 DEF Track
<1>6. CASE wire'[s] = wire[s]
  <2>1. w \in [1..Len(wire'[s]) -> 1..Len(sent')]
    BY <1>3, <1>6 DEF Places
  <2>2. Track(s, r, c, k, w)'
    BY <1>1, <1>3, <1>5, <1>6 DEF Track
  <2> QED
    BY <1>4, <2>1, <2>2 DEF Tracked
<1>7. CASE wire'[s] = Append(wire[s], m)
  <2>1. c < n + 1 /\ \A i \in 1..l : w[i] < n + 1
    <3>1. c \in 0..n /\ \A i \in 1..l : w[i] \in 1..n
      OBVIOUS
    <3> HIDE DEF n, l
    <3> QED
      BY <1>2, <3>1
  <2>2. \A i \in 1..Len(ch[s]) : k[i] < n + 1
    <3>1. \A i \in 1..Len(ch[s]) : k[i] \in 1..n
      OBVIOUS
    <3> HIDE DEF n
    <3> QED
      BY <1>2, <3>1
  <2>3. PICK v \in [1..l + 1 -> 1..Len(sent')] :
           /\ Places(v, wire'[s], sent')
           /\ v[l + 1] = n + 1
           /\ \A i \in 1..l : v[i] = w[i]
    <3>1. n + 1 \in 1..Len(sent')
      BY <1>2
    <3>2. Append(wire[s], sent'[n + 1]) = wire'[s] /\ wire[s] \in Seq(Messages)
      BY <1>2, <1>7 DEF Types
    <3>3. \A i \in 1..Len(wire[s]) : w[i] < n + 1
      BY <2>1
    <3> HIDE DEF n, l
    <3>4. Lengthened(w, wire[s], n + 1, sent')
      BY <1>2, <1>3, <3>1, <3>2, <3>3, PlacesAppend
    <3> QED
      BY <3>2, <3>4 DEF l, Lengthened
  <2>4. Len(wire'[s]) = l + 1 /\ \A i \in 1..l + 1 : i = l + 1 \/ i \in 1..l
    BY <1>2, <1>7 DEF Types
  <2>5. /\ \A i \in 1..l : c < w[i]
        /\ \A i \in 1..Len(ch[s]), j \in 1..l : k[i] < w[j]
    BY <1>1 DEF Track
  <2> HIDE DEF n, l
  <2>6. /\ \A i \in 1..l + 1 : c < v[i]
        /\ \A i \in 1..Len(ch[s]), j \in 1..l + 1 : k[i] < v[j]
    BY <2>1, <2>2, <2>3, <2>4, <2>5
  <2>7. Track(s, r, c, k, v)'
    BY <1>1, <1>3, <1>5, <2>3, <2>4, <2>6 DEF Track
  <2> QED
    BY <1>4, <2>3, <2>4, <2>7 DEF Tracked
<1> QED
  BY <1>6, <1>7

\* The callback moves the first message of the wire behind those in the
\* channel, or drops it.
LEMMA CallbackKeepsOrder ==
    ASSUME NEW s \in Streams, Types(s), Tracked(s), wire[s] # <<>>,
           UNCHANGED <<received[s], current[s], pc[s], sent>>,
           wire'[s] = Tail(wire[s]),
           ch'[s] \in {ch[s], Append(ch[s], Head(wire[s]))}
    PROVE  Tracked(s)'
<1>1. PICK r \in [1..Len(received[s]) -> 1..Len(sent)],
           c \in 0..Len(sent),
           k \in [1..Len(ch[s]) -> 1..Len(sent)],
           w \in [1..Len(wire[s]) -> 1..Len(sent)] : Track(s, r, c, k, w)
  BY DEF Tracked
<1> DEFINE l == Len(ch[s])
<1>2. PICK v \in [1..Len(wire'[s]) -> 1..Len(sent)] :
        /\ Places(v, wire'[s], sent)
        /\ w[1] \in 1..Len(sent) /\ sent[w[1]] = Head(wire[s])
        /\ \A i \in 1..Len(wire'[s]) : i + 1 \in 1..Len(wire[s]) /\ v[i] = w[i + 1]
        /\ \A i \in 1..Len(wire'[s]) : w[1] < v[i]
  <2>1. Places(w, wire[s], sent) /\ wire[s] \in Seq(Messages) /\ sent \in Seq(Messages)
    BY <1>1 DEF Track, Types
  <2>2. Shortened(w, wire[s], sent)
    BY <2>1, PlacesTail
  <2> QED
    BY <2>2 DEF Shortened
<1>3. l \in Nat /\ Len(sent) \in Nat /\ 1 \in 1..Len(wire[s])
  BY DEF Types
<1>4. c < w[1] /\ \A i \in 1..l : k[i] < w[1]
  BY <1>1, <1>3 DEF Track
<1>5. /\ \A j \in 1..Len(wire'[s]) : c < v[j]
      /\ \A i \in 1..l, j \in 1..Len(wire'[s]) : k[i] < v[j]
  BY <1>1, <1>2 DEF Track
<1>6. CASE ch'[s] = ch[s]
  <2>1. Track(s, r, c, k, v)'
    BY <1>1, <1>2, <1>5, <1>6 DEF Track
  <2> QED
    BY <1>6, <2>1 DEF Tracked
<1>7. CASE ch'[s] = Append(ch[s], Head(wire[s]))
  <2>1. PICK x \in [1..l + 1 -> 1..Len(sent)] :
           /\ Places(x, ch'[s], sent)
           /\ x[l + 1] = w[1]
           /\ \A i \in 1..l : x[i] = k[i]
    <3>1. Places(k, ch[s], sent) /\ ch[s] \in Seq(Messages) /\ sent \in Seq(Messages)
      BY <1>1 DEF Track, Types
    <3>2. Lengthened(k, ch[s], w[1], sent)
      BY <1>2, <1>4, <3>1, PlacesAppend
    <3> QED
      BY <1>2, <1>7, <3>2 DEF Lengthened
  <2>2. Len(ch'[s]) = l + 1 /\ \A i \in 1..l + 1 : i = l + 1 \/ i \in 1..l
    BY <1>3, <1>7 DEF Types
  <2>3. \A i \in 1..l : c < k[i]
    BY <1>1 DEF Track
  <2> HIDE DEF l
  <2>4. /\ \A i \in 1..l + 1 : c < x[i]
        /\ \A i \in 1..l + 1, j \in 1..Len(wire'[s]) : x[i] < v[j]
    BY <1>2, <1>4, <1>5, <2>1, <2>2, <2>3
  <2>5. Track(s, r, c, x, v)'
    BY <1>1, <1>2, <1>5, <2>1, <2>2, <2>4 DEF Track
  <2> QED
    BY <2>1, <2>2, <2>5 DEF Tracked
<1> QED
  BY <1>6, <1>7

\* The handler takes the first message of the channel.
LEMMA TakeKeepsOrder ==
    ASSUME NEW s \in Streams, Types(s), Tracked(s), ch[s] # <<>>,
           UNCHANGED <<received[s], wire[s], sent>>,
           current'[s] = Head(ch[s]),
           ch'[s] = Tail(ch[s]),
           pc[s] = "waiting"
    PROVE  Tracked(s)'
<1>1. PICK r \in [1..Len(received[s]) -> 1..Len(sent)],
           c \in 0..Len(sent),
           k \in [1..Len(ch[s]) -> 1..Len(sent)],
           w \in [1..Len(wire[s]) -> 1..Len(sent)] : Track(s, r, c, k, w)
  BY DEF Tracked
<1>2. PICK x \in [1..Len(ch'[s]) -> 1..Len(sent)] :
        /\ Places(x, ch'[s], sent)
        /\ k[1] \in 1..Len(sent) /\ sent[k[1]] = Head(ch[s])
        /\ \A i \in 1..Len(ch'[s]) : i + 1 \in 1..Len(ch[s]) /\ x[i] = k[i + 1]
        /\ \A i \in 1..Len(ch'[s]) : k[1] < x[i]
  <2>1. Places(k, ch[s], sent) /\ ch[s] \in Seq(Messages) /\ sent \in Seq(Messages)
    BY <1>1 DEF Track, Types
  <2>2. Shortened(k, ch[s], sent)
    BY <2>1, PlacesTail
  <2> QED
    BY <2>2 DEF Shortened
<1>3. Len(sent) \in Nat /\ 1 \in 1..Len(ch[s])
  BY DEF Types
<1>4. /\ c < k[1]
      /\ \A i \in 1..Len(received[s]) : r[i] <= c
      /\ \A i \in 1..Len(wire[s]) : k[1] < w[i]
      /\ \A i \in 1..Len(ch'[s]), j \in 1..Len(wire[s]) : x[i] < w[j]
  BY <1>1, <1>2, <1>3 DEF Track
<1>5. \A i \in 1..Len(received[s]) : r[i] < k[1] /\ r[i] <= k[1]
  <2>1. \A i \in 1..Len(received[s]) : r[i] \in 1..Len(sent) /\ r[i] <= c
    BY <1>1, <1>4
  <2>2. c \in Nat /\ k[1] \in Nat
    BY <1>2, <1>3
  <2> QED
    BY <1>4, <2>1, <2>2
<1>6. k[1] \in 0..Len(sent)
  BY <1>2, <1>3
<1>7. Track(s, r, k[1], x, w)'
  BY <1>1, <1>2, <1>4, <1>5 DEF Track
<1> QED
  BY <1>6, <1>7 DEF Tracked

\* The client gets the message in hand.
LEMMA WriteKeepsOrder ==
    ASSUME NEW s \in Streams, Types(s), Tracked(s),
           UNCHANGED <<wire[s], ch[s], sent>>,
           received'[s] = Append(received[s], current[s]),
           pc[s] = "write", pc'[s] = "waiting"
    PROVE  Tracked(s)'
<1>1. PICK r \in [1..Len(received[s]) -> 1..Len(sent)],
           c \in 0..Len(sent),
           k \in [1..Len(ch[s]) -> 1..Len(sent)],
           w \in [1..Len(wire[s]) -> 1..Len(sent)] : Track(s, r, c, k, w)
  BY DEF Tracked
<1> DEFINE n == Len(received[s])
<1>2. /\ c \in 1..Len(sent) /\ sent[c] = current[s]
      /\ \A i \in 1..Len(received[s]) : r[i] < c
      /\ Places(r, received[s], sent)
  BY <1>1 DEF Track
<1>3. PICK x \in [1..n + 1 -> 1..Len(sent)] :
         /\ Places(x, received'[s], sent)
         /\ x[n + 1] = c
         /\ \A i \in 1..n : x[i] = r[i]
  <2>1. Lengthened(r, received[s], c, sent)
    BY <1>2, PlacesAppend DEF Types
  <2> QED
    BY <1>2, <2>1 DEF Lengthened
<1>4. n \in Nat /\ Len(sent) \in Nat /\ Len(received'[s]) = n + 1
  BY <1>2 DEF Types
<1>5. \A i \in 1..n + 1 : x[i] <= c
  <2>1. \A i \in 1..n : r[i] \in 1..Len(sent) /\ r[i] < c
    BY <1>2
  <2> HIDE DEF n
  <2> QED
    BY <1>2, <1>3, <1>4, <2>1
<1> HIDE DEF n
<1>6. Track(s, x, c, k, w)'
  BY <1>1, <1>3, <1>4, <1>5 DEF Track
<1> QED
  BY <1>3, <1>4, <1>6 DEF Tracked

\* Every step keeps the order in which each stream has its messages.
LEMMA NextInOrder == Inv /\ InOrder /\ [Next]_vars => InOrder'
<1> SUFFICES ASSUME Inv, InOrder, [Next]_vars, NEW s \in Streams PROVE Tracked(s)'
  BY DEF InOrder
<1>1. Tracked(s) /\ Types(s)
  BY DEF InOrder, Inv, TypeOK, Types
<1>2. ASSUME UNCHANGED <<received[s], current[s], sent, wire[s], ch[s]>>,
             pc'[s] \in {"claim", "write"} => pc[s] \in {"claim", "write"}
      PROVE  Tracked(s)'
  BY <1>1, <1>2, DropsKeepOrder
<1>3. ASSUME NEW m \in Messages, Publish(m) PROVE Tracked(s)'
  <2>1. wire'[s] \in {wire[s], Append(wire[s], m)}
    BY <1>3 DEF Publish
  <2> QED
    BY <1>1, <1>3, <2>1, PublishKeepsOrder DEF Publish
<1>4. ASSUME NEW t \in Streams,
             HandlerStep(t) \/ BusStep(t) \/ Disconnect(t) \/ Crash(t), t # s
      PROVE  Tracked(s)'
  <2>1. UNCHANGED <<received[s], current[s], sent, wire[s], ch[s], pc[s]>>
    BY <1>4 DEF HandlerStep, BusStep, Disconnect, Crash, Open, TakeMessage,
                ClaimInboxMessage, Write, Return, Callback, UnsubscribeWhenDone,
                Unsubscribe, Goto, Inv, TypeOK
  <2> QED
    BY <1>2, <2>1
<1>5. CASE Callback(s)
  <2>1. /\ wire'[s] = Tail(wire[s])
        /\ ch'[s] \in {ch[s], Append(ch[s], Head(wire[s]))}
        /\ UNCHANGED <<received, current, sent, pc>>
        /\ wire[s] # <<>>
    BY <1>5 DEF Callback, Inv, TypeOK
  <2> QED
    BY <1>1, <2>1, CallbackKeepsOrder
<1>6. CASE TakeMessage(s)
  <2>1. /\ current'[s] = Head(ch[s])
        /\ ch'[s] = Tail(ch[s])
        /\ pc[s] = "waiting"
    BY <1>6 DEF TakeMessage, Inv, TypeOK
  <2> QED
    BY <1>1, <1>6, <2>1, TakeKeepsOrder DEF TakeMessage
<1>7. CASE Write(s) /\ received' = [received EXCEPT ![s] = Append(@, current[s])]
  <2>1. received'[s] = Append(received[s], current[s]) /\ pc'[s] = "waiting"
    BY <1>7 DEF Write, Goto, Inv, TypeOK
  <2> QED
    BY <1>1, <1>7, <2>1, WriteKeepsOrder DEF Write
<1>8. CASE \/ Open(s) \/ ClaimInboxMessage(s) \/ Disconnect(s)
           \/ Write(s) /\ UNCHANGED received
  <2>1. pc'[s] \in {"claim", "write"} => pc[s] \in {"claim", "write"}
    BY <1>8 DEF Open, ClaimInboxMessage, Disconnect, Write, Goto, Inv, TypeOK
  <2> QED
    BY <1>2, <1>8, <2>1 DEF Open, ClaimInboxMessage, Disconnect, Write
<1>9. CASE Return(s) \/ UnsubscribeWhenDone(s) \/ Crash(s)
  <2>1. /\ UNCHANGED <<received[s], current[s], sent>>
        /\ wire'[s] = <<>> /\ ch'[s] \in {ch[s], <<>>}
        /\ pc'[s] \in {"claim", "write"} => pc[s] \in {"claim", "write"}
    BY <1>9 DEF Return, UnsubscribeWhenDone, Crash, Unsubscribe, Goto, Inv, TypeOK
  <2> QED
    BY <1>1, <2>1, DropsKeepOrder
<1>10. CASE UNCHANGED vars
  BY <1>2, <1>10 DEF vars
<1>11. Write(s) => \/ received' = [received EXCEPT ![s] = Append(@, current[s])]
                   \/ UNCHANGED received
  BY DEF Write
<1> QED
  BY <1>3, <1>4, <1>5, <1>6, <1>7, <1>8, <1>9, <1>10, <1>11
     DEF Next, HandlerStep, BusStep

\* A stream keeps the order of publication, for any number of streams and
\* messages, any capacity of the channels and any drops and faults.
THEOREM OrderIsKept == Spec => []ReceivedInOrder
<1>1. Init => InOrder
  <2> SUFFICES ASSUME Init, NEW s \in Streams PROVE Tracked(s)
    BY DEF InOrder
  <2>1. /\ received[s] = <<>> /\ ch[s] = <<>> /\ wire[s] = <<>> /\ sent = <<>>
        /\ pc[s] = "start"
    BY DEF Init
  <2>2. Len(<<>>) = 0 /\ 1..0 = {} /\ <<>> \in Seq(Messages)
    OBVIOUS
  <2>3. PICK at \in [1..Len(<<>>) -> 1..Len(<<>>)] : Places(at, <<>>, <<>>)
    BY <2>2, PlacesNothing
  <2>4. Track(s, at, 0, at, at)
    BY <2>1, <2>2, <2>3 DEF Track
  <2>5. /\ at \in [1..Len(received[s]) -> 1..Len(sent)]
        /\ at \in [1..Len(ch[s]) -> 1..Len(sent)]
        /\ at \in [1..Len(wire[s]) -> 1..Len(sent)]
    BY <2>1, <2>3
  <2>6. 0 \in 0..Len(sent)
    BY <2>1, <2>2
  <2> QED
    BY <2>4, <2>5, <2>6 DEF Tracked
<1>2. Inv /\ InOrder => ReceivedInOrder
  <2> SUFFICES ASSUME Inv, NEW s \in Streams, Tracked(s)
               PROVE  \E at \in [DOMAIN received[s] -> DOMAIN sent] :
                         /\ \A i \in DOMAIN received[s] : received[s][i] = sent[at[i]]
                         /\ \A i, j \in DOMAIN received[s] : i < j => at[i] < at[j]
    BY DEF InOrder, ReceivedInOrder
  <2>1. DOMAIN received[s] = 1..Len(received[s]) /\ DOMAIN sent = 1..Len(sent)
    BY DEF Inv, TypeOK
  <2>2. PICK r \in [1..Len(received[s]) -> 1..Len(sent)] : Places(r, received[s], sent)
    BY DEF Tracked, Track
  <2> QED
    BY <2>1, <2>2 DEF Places
<1> QED
  BY <1>1, <1>2, NextInOrder, InvHolds, PTL DEF Spec

-----------------------------------------------------------------------------
(* Module EventStream implements InboxDelivery.                            *)

\* A row keeps its fate if neither its claim nor what clients got changes, and
\* the handlers that write its message stay the same.
LEMMA ChanceKept ==
    ASSUME NEW row, UNCHANGED <<consumer, received>>,
           row \in inbox <=> row \in inbox',
           \A t \in Streams : pc[t] = "write" /\ Row(t) = row
                                 <=> pc'[t] = "write" /\ Row(t)' = row
    PROVE  Chance(row)' = Chance(row)
  BY DEF Chance

\* The abstract chances when that of one row changes.
LEMMA OneChanceChanges ==
    ASSUME NEW row \in Consumers \X (Messages \ Unnamed),
           NEW fate, Chance(row)' = fate,
           \A r \in Consumers \X (Messages \ Unnamed) : r # row => Chance(r)' = Chance(r)
    PROVE  Chances' = [Chances EXCEPT ![row] = fate] /\ Chances[row] = Chance(row)
  BY DEF Chances

\* A message with an id that nobody claimed is neither received nor written by a
\* stream of the consumer.
LEMMA UnclaimedIsOpen ==
    ASSUME Inv, NEW row \in Consumers \X (Messages \ Unnamed), row \notin inbox
    PROVE  /\ Chance(row) = "open"
           /\ \A t \in Streams : consumer[t] = row[1] => row[2] \notin Range(received[t])
           /\ \A t \in Streams : pc[t] = "write" => Row(t) # row
<1>1. row = <<row[1], row[2]>> /\ row[2] \notin Unnamed
  OBVIOUS
<1>2. \A t \in Streams : consumer[t] = row[1] => row[2] \notin Range(received[t])
  BY <1>1 DEF Inv, ReceivedIsClaimed, Range
<1>3. \A t \in Streams : pc[t] = "write" => Row(t) # row
  BY <1>1 DEF Inv, WriterOwnsClaim, Row
<1> QED
  BY <1>2, <1>3 DEF Chance

\* A handler that writes a message with an id holds the only chance of it.
LEMMA WriterIsGranted ==
    ASSUME Inv, NEW s \in Streams, pc[s] = "write", current[s] \notin Unnamed
    PROVE  /\ Row(s) \in Consumers \X (Messages \ Unnamed)
           /\ Row(s) \in inbox
           /\ Chance(Row(s)) = "granted"
           /\ \A t \in Streams : consumer[t] = consumer[s] => current[s] \notin Range(received[t])
           /\ \A t \in Streams \ {s} : pc[t] = "write" => Row(t) # Row(s)
<1>1. Row(s) = <<consumer[s], current[s]>> /\ Row(s)[1] = consumer[s] /\ Row(s)[2] = current[s]
  BY DEF Row
<1>2. consumer[s] \in Consumers /\ current[s] \in Messages
  BY DEF Inv, TypeOK, InHand
<1>3. Row(s) \in inbox
  BY DEF Inv, WriterOwnsClaim
<1>4. \A t \in Streams : consumer[t] = consumer[s] => current[s] \notin Range(received[t])
  BY DEF Inv, WriterOwnsClaim, Range
<1>5. \A t \in Streams \ {s} : pc[t] = "write" => Row(t) # Row(s)
  BY DEF Inv, WriterOwnsClaim, Row
<1> QED
  BY <1>1, <1>2, <1>3, <1>4, <1>5 DEF Chance

\* A claim that fails, by an error or with its node, leaves the chance open or
\* spends it.
LEMMA FailedClaimFails ==
    ASSUME Inv, NEW s \in Streams, UNCHANGED <<consumer, received, current>>,
           pc[s] = "claim", pc'[s] # "write",
           \A t \in Streams \ {s} : pc'[t] = pc[t],
           inbox' \in {inbox, inbox \cup {Row(s)}},
           excused' = excused \cup {Row(s)}
    PROVE  Inbox!Next
<1>1. Row(s) \in Consumers \X (Messages \ Unnamed) /\ Row(s) \in Consumers \X Messages
  BY DEF Inv, TypeOK, InHand, Row
<1>2. \A t \in Streams : Row(t)' = Row(t)
  BY DEF Row
<1>3. \A row : row # Row(s) \/ inbox' = inbox \/ row \in inbox =>
         Chance(row)' = Chance(row)
  BY <1>2, ChanceKept
<1>4. CASE inbox' = inbox \/ Row(s) \in inbox
  BY <1>1, <1>3, <1>4 DEF Chances, Inbox!Next, Inbox!Fail
<1>5. CASE inbox' # inbox /\ Row(s) \notin inbox
  <2>1. Chance(Row(s)) = "open" /\ Chance(Row(s))' = "lost"
    BY <1>1, <1>2, <1>5, UnclaimedIsOpen DEF Chance
  <2>2. Chances' = [Chances EXCEPT ![Row(s)] = "lost"] /\ Chances[Row(s)] = "open"
    BY <1>1, <1>2, <1>3, <2>1, OneChanceChanges
  <2>3. Inbox!Fail(Row(s))
    BY <1>1, <2>2 DEF Inbox!Fail, Inbox!Chances
  <2> QED
    BY <1>1, <2>3 DEF Inbox!Next
<1> QED
  BY <1>4, <1>5

\* A write that fails, or ends with its node, spends the chance.
LEMMA FailedWriteFails ==
    ASSUME Inv, NEW s \in Streams, UNCHANGED <<consumer, received, current, inbox>>,
           pc[s] = "write", pc'[s] # "write",
           \A t \in Streams \ {s} : pc'[t] = pc[t],
           excused' = excused \cup {Row(s)}
    PROVE  Inbox!Next
<1>1. Row(s) \in Consumers \X Messages
  BY DEF Inv, TypeOK, InHand, Row
<1>2. \A t \in Streams : Row(t)' = Row(t)
  BY DEF Row
<1>3. \A row : row # Row(s) => Chance(row)' = Chance(row)
  BY <1>2, ChanceKept
<1>4. CASE current[s] \in Unnamed
  <2>1. Row(s) \notin Consumers \X (Messages \ Unnamed)
    BY <1>4 DEF Row
  <2> QED
    BY <1>1, <1>3, <2>1 DEF Chances, Inbox!Next, Inbox!Fail
<1>5. CASE current[s] \notin Unnamed
  <2>1. Chance(Row(s)) = "granted" /\ Row(s) \in Consumers \X (Messages \ Unnamed)
    BY <1>5, WriterIsGranted
  <2>2. Chance(Row(s))' = "lost"
    BY <1>2, <1>5, WriterIsGranted DEF Chance, Row
  <2>3. Chances' = [Chances EXCEPT ![Row(s)] = "lost"] /\ Chances[Row(s)] = "granted"
    BY <1>2, <1>3, <2>1, <2>2, OneChanceChanges
  <2>4. Inbox!Fail(Row(s))
    BY <2>1, <2>3 DEF Inbox!Fail, Inbox!Chances
  <2> QED
    BY <1>1, <2>4 DEF Inbox!Next
<1> QED
  BY <1>4, <1>5

\* An applied claim grants the chance; a refused one changes nothing.
LEMMA ClaimGrants ==
    ASSUME Inv, NEW s \in Streams, ClaimInboxMessage(s)
    PROVE  Inbox!Next \/ UNCHANGED Inbox!vars
<1>1. /\ UNCHANGED <<consumer, current, received>> /\ pc[s] = "claim"
      /\ \A t \in Streams \ {s} : pc'[t] = pc[t]
      /\ \A t \in Streams : Row(t)' = Row(t)
      /\ Row(s) \in Consumers \X (Messages \ Unnamed)
  BY DEF ClaimInboxMessage, Goto, Inv, TypeOK, InHand, Row
<1>2. CASE Row(s) \notin inbox /\ inbox' = inbox \cup {Row(s)} /\ pc'[s] = "write"
           /\ UNCHANGED excused
  <2>1. Chance(Row(s)) = "open" /\ Chance(Row(s))' = "granted"
    BY <1>1, <1>2, UnclaimedIsOpen DEF Chance
  <2>2. \A row : row # Row(s) => Chance(row)' = Chance(row)
    BY <1>1, <1>2, ChanceKept
  <2>3. Inbox!Grant(Row(s))
    BY <1>1, <1>2, <2>1, <2>2, OneChanceChanges DEF Inbox!Grant
  <2> QED
    BY <1>1, <2>3 DEF Inbox!Next, Inbox!Chances
<1>3. CASE UNCHANGED <<inbox, excused>> /\ pc'[s] = "waiting"
  <2>1. \A row : Chance(row)' = Chance(row)
    BY <1>1, <1>3, ChanceKept
  <2> QED
    BY <1>1, <1>3, <2>1 DEF Chances, Inbox!vars
<1>4. CASE /\ inbox' \in {inbox, inbox \cup {Row(s)}} /\ excused' = excused \cup {Row(s)}
           /\ pc'[s] = "waiting"
  BY <1>1, <1>4, FailedClaimFails
<1> QED
  BY <1>2, <1>3, <1>4 DEF ClaimInboxMessage, Goto, Inv, TypeOK

\* A write that succeeds delivers.
LEMMA WriteDelivers ==
    ASSUME Inv, NEW s \in Streams, Write(s),
           received' = [received EXCEPT ![s] = Append(@, current[s])]
    PROVE  Inbox!Next
<1>1. /\ UNCHANGED <<consumer, current, inbox>> /\ pc[s] = "write" /\ pc'[s] = "waiting"
      /\ \A t \in Streams \ {s} : pc'[t] = pc[t] /\ received'[t] = received[t]
      /\ \A t \in Streams : Row(t)' = Row(t)
      /\ received[s] \in Seq(Messages) /\ current[s] \in Messages
      /\ received'[s] = Append(received[s], current[s])
  BY DEF Write, Goto, Inv, TypeOK, InHand, Row
<1>2. Range(received'[s]) = Range(received[s]) \cup {current[s]}
  BY <1>1 DEF Range
<1>3. UNCHANGED excused
  <2>1. Len(received'[s]) # Len(received[s])
    BY <1>1
  <2> QED
    BY <2>1 DEF Write
<1>4. ASSUME NEW row \in Consumers \X (Messages \ Unnamed), row # Row(s)
      PROVE  Chance(row)' = Chance(row)
  <2>1. row = <<row[1], row[2]>>
    OBVIOUS
  <2>2. \A t \in Streams : consumer[t] = row[1] /\ row[2] \in Range(received[t])
                             <=> consumer'[t] = row[1] /\ row[2] \in Range(received'[t])
    BY <1>1, <1>2, <1>4, <2>1 DEF Row
  <2>3. \A t \in Streams : pc[t] = "write" /\ Row(t) = row
                             <=> pc'[t] = "write" /\ Row(t)' = row
    BY <1>1, <1>4
  <2> QED
    BY <1>1, <2>2, <2>3 DEF Chance
<1>5. CASE current[s] \in Unnamed
  <2>1. Row(s) \notin Consumers \X (Messages \ Unnamed)
    BY <1>5 DEF Row
  <2>2. Inbox!Deliver(s, current[s])
    BY <1>1, <1>3, <1>4, <1>5, <2>1 DEF Chances, Inbox!Deliver
  <2> QED
    BY <1>1, <2>2 DEF Inbox!Next
<1>6. CASE current[s] \notin Unnamed
  <2>1. Chance(Row(s)) = "granted" /\ Row(s) \in Consumers \X (Messages \ Unnamed)
        /\ Row(s) \in inbox
    BY <1>1, <1>6, WriterIsGranted
  <2>2. Chance(Row(s))' = "delivered"
    BY <1>1, <1>2, <2>1 DEF Chance, Row
  <2>3. Inbox!Deliver(s, current[s])
    BY <1>1, <1>3, <1>4, <1>6, <2>1, <2>2, OneChanceChanges DEF Inbox!Deliver, Row
  <2> QED
    BY <1>1, <2>3 DEF Inbox!Next
<1> QED
  BY <1>5, <1>6

\* Every step of EventStream is a step of InboxDelivery, or changes nothing there.
LEMMA StepsOfInbox ==
    ASSUME Inv, [Next]_vars
    PROVE  Inbox!Next \/ UNCHANGED Inbox!vars
<1>1. ASSUME UNCHANGED <<consumer, inbox, received, excused>>,
             \A t \in Streams, row \in Consumers \X (Messages \ Unnamed) :
                pc[t] = "write" /\ Row(t) = row <=> pc'[t] = "write" /\ Row(t)' = row
      PROVE  UNCHANGED Inbox!vars
  <2>1. \A row \in Consumers \X (Messages \ Unnamed) : Chance(row)' = Chance(row)
    BY <1>1, ChanceKept
  <2> QED
    BY <1>1, <2>1 DEF Chances, Inbox!vars
<1>2. ASSUME UNCHANGED <<consumer, inbox, received, excused, current>>,
             \A t \in Streams : pc[t] = "write" <=> pc'[t] = "write"
      PROVE  UNCHANGED Inbox!vars
  BY <1>1, <1>2 DEF Row
<1>3. ASSUME NEW m \in Messages, Publish(m) PROVE UNCHANGED Inbox!vars
  BY <1>2, <1>3 DEF Publish
<1>4. ASSUME NEW s \in Streams, Callback(s) \/ UnsubscribeWhenDone(s) \/ Disconnect(s)
      PROVE  UNCHANGED Inbox!vars
  BY <1>2, <1>4 DEF Callback, UnsubscribeWhenDone, Disconnect
<1>5. ASSUME NEW s \in Streams, Open(s) \/ Return(s) PROVE UNCHANGED Inbox!vars
  <2>1. \A t \in Streams : pc[t] = "write" <=> pc'[t] = "write"
    BY <1>5 DEF Open, Return, Goto, Inv, TypeOK
  <2> QED
    BY <1>2, <1>5, <2>1 DEF Open, Return
<1>6. ASSUME NEW s \in Streams, TakeMessage(s) PROVE UNCHANGED Inbox!vars
  <2>1. /\ UNCHANGED <<consumer, inbox, received, excused>> /\ pc[s] = "waiting"
        /\ pc'[s] = "write" => current'[s] \in Unnamed
        /\ \A t \in Streams \ {s} : pc'[t] = pc[t] /\ current'[t] = current[t]
    BY <1>6 DEF TakeMessage, Goto, Inv, TypeOK
  <2> QED
    BY <1>1, <2>1 DEF Row
<1>7. ASSUME NEW s \in Streams, Write(s) PROVE Inbox!Next
  <2>1. CASE UNCHANGED received /\ excused' = excused \cup {Row(s)}
    <3>1. /\ UNCHANGED <<consumer, current, inbox>> /\ pc[s] = "write" /\ pc'[s] = "waiting"
          /\ \A t \in Streams \ {s} : pc'[t] = pc[t]
      BY <1>7 DEF Write, Goto, Inv, TypeOK
    <3> QED
      BY <2>1, <3>1, FailedWriteFails
  <2> QED
    BY <1>7, <2>1, WriteDelivers DEF Write
<1>8. ASSUME NEW s \in Streams, Crash(s) PROVE Inbox!Next \/ UNCHANGED Inbox!vars
  <2>1. /\ UNCHANGED <<consumer, current, received>> /\ pc'[s] = "closed"
        /\ \A t \in Streams \ {s} : pc'[t] = pc[t]
    BY <1>8 DEF Crash, Goto, Inv, TypeOK
  <2>2. CASE pc[s] = "waiting"
    BY <1>2, <1>8, <2>1, <2>2 DEF Crash
  <2>3. CASE pc[s] = "claim"
    BY <1>8, <2>1, <2>3, FailedClaimFails DEF Crash
  <2>4. CASE pc[s] = "write"
    BY <1>8, <2>1, <2>4, FailedWriteFails DEF Crash
  <2> QED
    BY <1>8, <2>2, <2>3, <2>4 DEF Crash, Serving
<1>9. CASE UNCHANGED vars
  BY <1>2, <1>9 DEF vars
<1> QED
  BY <1>3, <1>4, <1>5, <1>6, <1>7, <1>8, <1>9, ClaimGrants DEF Next, HandlerStep, BusStep

\* EventStream implements InboxDelivery, for any number of streams, consumers,
\* messages and faults: every consumer has one chance per message.
THEOREM StreamImplementsInbox == Spec => OneChanceEach
<1>1. Init => Inbox!Init
  <2> SUFFICES ASSUME Init PROVE Inbox!Init
    OBVIOUS
  <2>1. \A row : Chance(row) = "open"
    BY DEF Init, Chance
  <2> QED
    BY <2>1 DEF Chances, Init, Inbox!Init, Inbox!Chances
<1>2. Inv /\ [Next]_vars => [Inbox!Next]_(Inbox!vars)
  BY StepsOfInbox
<1> QED
  BY <1>1, <1>2, InvHolds, PTL DEF Spec, OneChanceEach, Inbox!Spec
=============================================================================
