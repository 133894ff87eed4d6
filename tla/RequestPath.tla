----------------------------- MODULE RequestPath -----------------------------
(***************************************************************************)
(* What every HTTP request passes on its way to a handler, and gives back  *)
(* on its way out: the request timeout, the global concurrency guard, the  *)
(* per-IP rate limiter with its bounded table, token authorisation with    *)
(* the failure guard, and the publish and query lanes.                     *)
(*                                                                         *)
(* http.TimeoutHandler runs the rest of the chain in a goroutine of its    *)
(* own.  When it answers 503 the goroutine goes on, and it is the          *)
(* goroutine that holds the slots; withConcurrencyLimit is inside.         *)
(*                                                                         *)
(* A request is a slot for one goroutine and is used again when it is      *)
(* over.  What the handlers do between lane and return is the subject of   *)
(* the other modules; here they return, early or late, or panic.           *)
(***************************************************************************)
EXTENDS Naturals, FiniteSets

CONSTANTS
    Requests,          \* request goroutines
    IPs,               \* client addresses
    NoIP,              \* the address of a goroutine that serves no request
    MaxRequests,       \* MAX_CONCURRENT_REQUESTS
    MaxLane,           \* MAX_CONCURRENT_PUBLISHES and MAX_CONCURRENT_QUERIES
    MaxIPs,            \* RATE_LIMIT_MAX_IPS
    MaxFailures,       \* AUTH_FAILURE_MAX_ATTEMPTS
    TokensConfigured,  \* the server has a bearer, admin, publish or read token
    DisableAuth        \* DISABLE_API_TOKEN_AUTH

Lanes == {"publish", "query"}

\* POST /events and GET /events, an admin route, an open route (health and
\* metrics), and /stream.
Routes == Lanes \cup {"admin", "open", "stream"}

ASSUME PathAssumption ==
    /\ IsFiniteSet(Requests)
    /\ IsFiniteSet(IPs)
    /\ NoIP \notin IPs
    /\ MaxRequests \in Nat \ {0}
    /\ MaxLane \in [Lanes -> Nat \ {0}]
    /\ MaxIPs \in Nat \ {0}
    /\ MaxFailures \in Nat \ {0}

VARIABLES
    pc,        \* where each request is
    route,     \* the route it asks for
    ip,        \* where it comes from
    reply,     \* what its client has been answered, or will be from the buffer
    guard,     \* tokens in the channel of the global guard
    lane,      \* tokens in the channel of each lane
    data,      \* IPs in the rate limiter's table
    failures,  \* authFailureGuard.failures, 0 where there is no entry
    blocked,   \* IPs with an entry in blockedTill
    over       \* those of them whose time has passed

vars == <<pc, route, ip, reply, guard, lane, data, failures, blocked, over>>

request == <<route, ip>>
auth    == <<failures, blocked, over>>

Labels == {"idle", "limit", "auth", "token", "lane", "handle", "return", "leave"}

\* Limiter, block and token checks refuse; handlers answer, withRecovery for
\* those that panic.
Replies == {"none", "busy", "refused", "lane busy", "handled", "timeout"}

TypeOK ==
    /\ pc \in [Requests -> Labels]
    /\ route \in [Requests -> Routes \cup {"none"}]
    /\ ip \in [Requests -> IPs \cup {NoIP}]
    /\ reply \in [Requests -> Replies]
    /\ guard \in Nat
    /\ lane \in [Lanes -> Nat]
    /\ data \subseteq IPs
    /\ failures \in [IPs -> Nat]
    /\ blocked \subseteq IPs
    /\ over \subseteq blocked

Init ==
    /\ pc = [r \in Requests |-> "idle"]
    /\ route = [r \in Requests |-> "none"]
    /\ ip = [r \in Requests |-> NoIP]
    /\ reply = [r \in Requests |-> "none"]
    /\ guard = 0
    /\ lane = [l \in Lanes |-> 0]
    /\ data = {}
    /\ failures = [i \in IPs |-> 0]
    /\ blocked = {}
    /\ over = {}

-----------------------------------------------------------------------------
(* The way in and out. *)

Goto(r, label) == pc' = [pc EXCEPT ![r] = label]

\* TimeoutHandler buffers what the goroutine writes, and drops it once it has
\* answered itself.
Answer(r, a) == reply' = [reply EXCEPT ![r] = IF @ = "timeout" THEN @ ELSE a]

\* What secure and withRateLimit call next.
ToHandler(r) == IF route[r] \in Lanes THEN "lane" ELSE "handle"

\* withConcurrencyLimit: a slot of the guard, or "server busy".
Arrive(r) ==
    /\ pc[r] = "idle"
    /\ \/ /\ guard < MaxRequests
          /\ guard' = guard + 1
          /\ \E t \in Routes, i \in IPs :
                /\ route' = [route EXCEPT ![r] = t]
                /\ ip' = [ip EXCEPT ![r] = i]
          /\ Goto(r, "limit")
          /\ reply' = [reply EXCEPT ![r] = "none"]
       \/ /\ guard >= MaxRequests
          /\ reply' = [reply EXCEPT ![r] = "busy"]
          /\ UNCHANGED <<pc, request, guard>>
    /\ UNCHANGED <<lane, data, auth>>

\* Mutant: the timeout gives the slot back while the goroutine goes on.
TimeoutReleases(r) ==
    /\ pc[r] # "idle"
    /\ route[r] # "stream"
    /\ reply[r] # "timeout"
    /\ Answer(r, "timeout")
    /\ guard' = guard - 1
    /\ UNCHANGED <<pc, request, lane, data, auth>>

\* The client of a request that takes too long is answered 503, even if there is
\* an answer in the buffer: that is sent when the goroutine returns.  Streams are
\* exempt.  The goroutine, and what it holds, stays.
Timeout(r) ==
    /\ pc[r] # "idle"
    /\ route[r] # "stream"
    /\ reply[r] # "timeout"
    /\ Answer(r, "timeout")
    /\ UNCHANGED <<pc, request, guard, lane, data, auth>>

\* The deferred receive from the guard: the goroutine is over.
Leave(r) ==
    /\ pc[r] = "leave"
    /\ guard' = guard - 1
    /\ Goto(r, "idle")
    /\ reply' = [reply EXCEPT ![r] = "none"]
    /\ route' = [route EXCEPT ![r] = "none"]
    /\ ip' = [ip EXCEPT ![r] = NoIP]
    /\ UNCHANGED <<lane, data, auth>>

-----------------------------------------------------------------------------
(* The per-IP limiter. *)

\* Entries unseen for the TTL go; lastSeen is read before the lock is taken,
\* so which ones is left open.
Swept == SUBSET data

\* Mutant: the table is full only when it is past its limit.
RoomForTooMany(kept, i) ==
    IF i \in kept \/ Cardinality(kept) <= MaxIPs
    THEN {kept \cup {i}}
    ELSE {(kept \ {oldest}) \cup {i} : oldest \in kept}

\* The table with an entry for i, the oldest one evicted if it was full.
Room(kept, i) ==
    IF i \in kept \/ Cardinality(kept) < MaxIPs
    THEN {kept \cup {i}}
    ELSE {(kept \ {oldest}) \cup {i} : oldest \in kept}

\* withRateLimit and Allow: sweep when it is time, find or make the entry,
\* and ask its token bucket.  Without authorisation, secure is the handler itself.
Allow(r) ==
    /\ pc[r] = "limit"
    /\ \E kept \in Swept : data' \in Room(kept, ip[r])
    /\ \/ /\ Goto(r, "leave")
          /\ Answer(r, "refused")
       \/ /\ Goto(r, IF DisableAuth \/ route[r] = "open" THEN ToHandler(r) ELSE "auth")
          /\ UNCHANGED reply
    /\ UNCHANGED <<request, guard, lane, auth>>

-----------------------------------------------------------------------------
(* Authorisation. *)

\* Mutant: the count is kept when the block is over.
IsBlockedKeepsCount(r) ==
    /\ pc[r] = "auth"
    /\ \/ /\ ip[r] \in blocked \ over
          /\ Goto(r, "leave")
          /\ Answer(r, "refused")
          /\ UNCHANGED auth
       \/ /\ ip[r] \notin blocked \ over
          /\ blocked' = blocked \ {ip[r]}
          /\ over' = over \ {ip[r]}
          /\ UNCHANGED failures
          /\ Goto(r, "token")
          /\ UNCHANGED reply
    /\ UNCHANGED <<request, guard, lane, data>>

\* IsBlocked: an expired block goes, with the count that led to it.
IsBlocked(r) ==
    /\ pc[r] = "auth"
    /\ \/ /\ ip[r] \in blocked \ over
          /\ Goto(r, "leave")
          /\ Answer(r, "refused")
          /\ UNCHANGED auth
       \/ /\ ip[r] \notin blocked \ over
          /\ blocked' = blocked \ {ip[r]}
          /\ over' = over \ {ip[r]}
          /\ failures' = IF ip[r] \in over THEN [failures EXCEPT ![ip[r]] = 0]
                                           ELSE failures
          /\ Goto(r, "token")
          /\ UNCHANGED reply
    /\ UNCHANGED <<request, guard, lane, data>>

\* Failure counts, and from the limit on renews the block.
Failure(i) ==
    /\ failures' = [failures EXCEPT ![i] = @ + 1]
    /\ IF failures[i] + 1 >= MaxFailures
       THEN /\ blocked' = blocked \cup {i}
            /\ over' = over \ {i}
       ELSE UNCHANGED <<blocked, over>>

\* Success forgets the failures and the block.
Success(i) ==
    /\ failures' = [failures EXCEPT ![i] = 0]
    /\ blocked' = blocked \ {i}
    /\ over' = over \ {i}

\* The rest of secure: the token is missing, expired or without the scope, or
\* it is accepted.  With no tokens configured, a request that brings none is
\* served as it is.
CheckToken(r) ==
    /\ pc[r] = "token"
    /\ \/ /\ Failure(ip[r])
          /\ Goto(r, "leave")
          /\ Answer(r, "refused")
       \/ /\ IF TokensConfigured THEN Success(ip[r]) ELSE UNCHANGED auth
          /\ Goto(r, ToHandler(r))
          /\ UNCHANGED reply
    /\ UNCHANGED <<request, guard, lane, data>>

\* blockFor passes.
BlockEnds(i) ==
    /\ i \in blocked \ over
    /\ over' = over \cup {i}
    /\ UNCHANGED <<pc, request, reply, guard, lane, data, failures, blocked>>

-----------------------------------------------------------------------------
(* The lanes and the handlers. *)

\* Mutant: the release is deferred before the lane is known to have room.
EnterLaneDefersFirst(r) ==
    /\ pc[r] = "lane"
    /\ \/ /\ lane[route[r]] < MaxLane[route[r]]
          /\ lane' = [lane EXCEPT ![route[r]] = @ + 1]
          /\ Goto(r, "handle")
          /\ UNCHANGED reply
       \/ /\ lane[route[r]] >= MaxLane[route[r]]
          /\ Goto(r, "return")
          /\ Answer(r, "lane busy")
          /\ UNCHANGED lane
    /\ UNCHANGED <<request, guard, data, auth>>

\* acquireGuard on the lane of the route, or "lane busy".
EnterLane(r) ==
    /\ pc[r] = "lane"
    /\ \/ /\ lane[route[r]] < MaxLane[route[r]]
          /\ lane' = [lane EXCEPT ![route[r]] = @ + 1]
          /\ Goto(r, "handle")
          /\ UNCHANGED reply
       \/ /\ lane[route[r]] >= MaxLane[route[r]]
          /\ Goto(r, "leave")
          /\ Answer(r, "lane busy")
          /\ UNCHANGED lane
    /\ UNCHANGED <<request, guard, data, auth>>

\* Mutant: a panic skips the release of the lane.
HandleLeaks(r) ==
    /\ pc[r] = "handle"
    /\ Answer(r, "handled")
    /\ \E panics \in BOOLEAN :
          Goto(r, IF route[r] \in Lanes /\ ~panics THEN "return" ELSE "leave")
    /\ UNCHANGED <<request, guard, lane, data, auth>>

\* The handler returns, or panics and withRecovery answers 500; either way
\* its deferred calls run.
Handle(r) ==
    /\ pc[r] = "handle"
    /\ Answer(r, "handled")
    /\ Goto(r, IF route[r] \in Lanes THEN "return" ELSE "leave")
    /\ UNCHANGED <<request, guard, lane, data, auth>>

\* releaseGuard takes a token out of the lane if there is one.
LeaveLane(r) ==
    /\ pc[r] = "return"
    /\ lane' = [lane EXCEPT ![route[r]] = IF @ > 0 THEN @ - 1 ELSE @]
    /\ Goto(r, "leave")
    /\ UNCHANGED <<request, reply, guard, data, auth>>

-----------------------------------------------------------------------------

RequestStep(r) ==
    \/ Allow(r) \/ IsBlocked(r) \/ CheckToken(r)
    \/ EnterLane(r) \/ Handle(r) \/ LeaveLane(r) \/ Leave(r)

Next ==
    \/ \E r \in Requests : Arrive(r) \/ Timeout(r) \/ RequestStep(r)
    \/ \E i \in IPs : BlockEnds(i)

Spec == Init /\ [][Next]_vars

-----------------------------------------------------------------------------
(* Properties. *)

Inside(r) == pc[r] # "idle"

InLane(r, l) == route[r] = l /\ pc[r] \in {"handle", "return"}

Running == {r \in Requests : Inside(r)}

Occupants(l) == {r \in Requests : InLane(r, l)}

\* The guard bounds the work and not only the open connections: the number of
\* goroutines past withConcurrencyLimit never exceeds its capacity, those
\* whose clients were already answered by the request timeout included, and
\* the same is true of the handlers in each lane.
RunningBounded ==
    /\ Cardinality(Running) <= MaxRequests
    /\ \A l \in Lanes : Cardinality(Occupants(l)) <= MaxLane[l]

\* The refusals of one step have a reason.
BusyHasReason ==
    \A r \in Requests :
        /\ (pc[r] = "idle" /\ reply'[r] = "busy" /\ reply[r] # "busy")
              => Cardinality(Running) = MaxRequests
        /\ (reply'[r] = "lane busy" /\ reply[r] # "lane busy")
              => Cardinality(Occupants(route[r])) = MaxLane[route[r]]

\* No early return, panic or timeout leaks a slot, so a refusal always has a
\* reason: a request that is answered "server busy" finds as many goroutines
\* running as the guard has slots, and one that is answered "lane busy" finds
\* its own lane full of handlers.
BusyIsTrue == [][BusyHasReason]_vars

\* The limiter's table never holds more than its maximum of addresses,
\* whatever sweeps and evictions come between.
TableBounded == Cardinality(data) <= MaxIPs

\* How many failures one address can add up to: IsBlocked and Failure lock the
\* guard separately, so requests that passed the check before the block began
\* still count, but no more of them than the concurrency guard lets in.
TriesAreBounded == \A i \in IPs : failures[i] <= MaxFailures + MaxRequests - 1

=============================================================================
