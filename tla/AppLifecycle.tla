---------------------------- MODULE AppLifecycle ----------------------------
(***************************************************************************)
(* One process from main to its exit: the configuration is read and        *)
(* validated, the modules are started in order with retries, the server    *)
(* runs until a signal or a listen error, and after a signal the server is *)
(* shut down and the modules are stopped in reverse order.                 *)
(*                                                                         *)
(* A Start is one action, with one outcome per return statement, because   *)
(* nothing else of the process works on that module yet.  The election     *)
(* that the coordinator starts is reduced to holding the leader key; its   *)
(* detail is in LeaderElection.  Times are milliseconds.                   *)
(***************************************************************************)
EXTENDS Integers, Sequences, FiniteSets

CONSTANTS
    Handlers,   \* request goroutines that may be in flight
    Unset,      \* a variable of the environment that is empty or no number
    RetryMax,   \* values of MODULE_START_RETRY_MAX
    Backoff,    \* values of MODULE_START_RETRY_BACKOFF_MS
    Least       \* values of the smallest of the fields that Validate checks

ASSUME LifecycleAssumption ==
    /\ IsFiniteSet(Handlers)
    /\ RetryMax \subseteq Int \cup {Unset}
    /\ Backoff \subseteq Int \cup {Unset}
    /\ Least \subseteq Int \cup {Unset}
    /\ Unset \notin Int

\* The order in which main passes the modules to New.
Modules == <<"natsbus", "etcdcoord", "cassstore">>

Names == {"natsbus", "etcdcoord", "cassstore"}

Connections == {"nc", "client", "session", "bootstrap", "cql"}

VARIABLES
    main,       \* where the main goroutine is
    cfg,        \* the configuration
    next,       \* the module being started or stopped
    attempt,    \* startModuleWithRetry: this attempt,
    wait,       \* and the wait after it
    waited,     \* history: how long main waited for this module
    up,         \* modules that hold their connections in their fields
    conns,      \* open connections
    elected,    \* the leader key in etcd names this node
    cancelled,  \* the context of main is done: SIGINT or SIGTERM came
    server,     \* the HTTP server
    late,       \* the context of the shutdown is past its deadline
    handler,    \* requests: none, with a waiting client, or already timed out
    exit        \* how the process ended

vars == <<main, cfg, next, attempt, wait, waited, up, conns, elected, cancelled,
          server, late, handler, exit>>

retry == <<attempt, wait, waited>>

Larger(a, b) == IF a >= b THEN a ELSE b

\* intOr: the fallback for what is not a number.
IntOr(v, fallback) == IF v = Unset THEN fallback ELSE v

\* fits: the fields that are compared with each other, such as the base and
\* the maximum of the outbox backoff, agree.
FromEnv ==
    {[retryMax |-> IntOr(m, 4), backoff |-> IntOr(b, 1000), least |-> IntOr(l, 1), fits |-> f] :
        m \in RetryMax, b \in Backoff, l \in Least, f \in BOOLEAN}

\* The fields that must be positive are; those of the retry are not among them.
Validate(c) == c.least > 0 /\ c.fits

MaxAttempts == Larger(1, cfg.retryMax)

FirstWait == Larger(100, cfg.backoff)

MaxWait == 10000

TypeOK ==
    /\ main \in {"config", "start", "wait", "serve", "shutdown", "stop", "exited"}
    /\ cfg \in [retryMax : Int, backoff : Int, least : Int, fits : BOOLEAN]
    /\ next \in 0..Len(Modules) + 1
    /\ attempt \in 1..MaxAttempts
    /\ wait \in Nat
    /\ waited \in Nat
    /\ up \subseteq Names
    /\ conns \subseteq Connections
    /\ elected \in BOOLEAN
    /\ cancelled \in BOOLEAN
    /\ server \in {"off", "starting", "listening", "failed", "closed"}
    /\ late \in BOOLEAN
    /\ handler \in [Handlers -> {"none", "open", "orphan"}]
    /\ exit \in {"none", "clean", "fatal"}

Init ==
    /\ main = "config"
    /\ cfg \in FromEnv
    /\ next = 1
    /\ attempt = 1
    /\ wait = FirstWait
    /\ waited = 0
    /\ up = {}
    /\ conns = {}
    /\ elected = FALSE
    /\ cancelled = FALSE
    /\ server = "off"
    /\ late = FALSE
    /\ handler = [h \in Handlers |-> "none"]
    /\ exit = "none"

\* The process ends; the operating system closes what is open.  The lease of
\* the leader key is kept by etcd.
Exit(how) ==
    /\ main' = "exited"
    /\ exit' = how
    /\ conns' = {}
    /\ up' = {}
    /\ server' = "off"
    /\ handler' = [h \in Handlers |-> "none"]

-----------------------------------------------------------------------------
(* main and the start of the modules. *)

\* main: FromEnv, Validate and the set-up of telemetry, whose errors are fatal.
Configure ==
    /\ main = "config"
    /\ \/ /\ Validate(cfg)
          /\ main' = "start"
          /\ UNCHANGED <<up, conns, server, handler, exit>>
       \/ Exit("fatal")
    /\ UNCHANGED <<cfg, next, retry, elected, cancelled, late>>

\* What a Start opens and closes again before it returns, and whether it
\* returns nil.
Return(opens, closes, nil) == [opens |-> opens, closes |-> closes, nil |-> nil]

\* Mutant: the connection stays open when the stream cannot be added.
StartNatsLeaks ==
    { Return({}, {}, FALSE), Return({"nc"}, {}, FALSE), Return({"nc"}, {}, TRUE) }

\* Connect, then JetStream and AddStream, which close it when they fail.
StartNats ==
    { Return({}, {}, FALSE), Return({"nc"}, {"nc"}, FALSE), Return({"nc"}, {}, TRUE) }

\* The client, then the session.
StartEtcd ==
    { Return({}, {}, FALSE), Return({"client"}, {"client"}, FALSE),
      Return({"client", "session"}, {}, TRUE) }

\* The bootstrap session, closed on return; CREATE KEYSPACE; the session; the
\* tables, whose failure closes the session.
StartCassandra ==
    { Return({}, {}, FALSE), Return({"bootstrap"}, {"bootstrap"}, FALSE),
      Return({"bootstrap", "cql"}, {"cql", "bootstrap"}, FALSE),
      Return({"bootstrap", "cql"}, {"bootstrap"}, TRUE) }

Starts == [natsbus |-> StartNats, etcdcoord |-> StartEtcd, cassstore |-> StartCassandra]

\* Mutant: the loop gives up one attempt late.
StartModuleLate ==
    /\ main = "start"
    /\ next <= Len(Modules)
    /\ \E s \in Starts[Modules[next]] :
          \/ /\ s.nil
             /\ up' = up \cup {Modules[next]}
             /\ conns' = (conns \cup s.opens) \ s.closes
             /\ next' = next + 1
             /\ attempt' = 1
             /\ wait' = FirstWait
             /\ waited' = 0
             /\ UNCHANGED <<main, server, handler, exit>>
          \/ /\ ~s.nil
             /\ attempt <= MaxAttempts
             /\ main' = "wait"
             /\ conns' = (conns \cup s.opens) \ s.closes
             /\ UNCHANGED <<next, retry, up, server, handler, exit>>
          \/ /\ ~s.nil
             /\ attempt > MaxAttempts
             /\ Exit("fatal")
             /\ UNCHANGED <<next, retry>>
    /\ UNCHANGED <<cfg, elected, cancelled, late>>

\* The loop of Run and one attempt of startModuleWithRetry.  The error of the
\* last attempt ends the process without stopping what is up.
StartModule ==
    /\ main = "start"
    /\ next <= Len(Modules)
    /\ \E s \in Starts[Modules[next]] :
          \/ /\ s.nil
             /\ up' = up \cup {Modules[next]}
             /\ conns' = (conns \cup s.opens) \ s.closes
             /\ next' = next + 1
             /\ attempt' = 1
             /\ wait' = FirstWait
             /\ waited' = 0
             /\ UNCHANGED <<main, server, handler, exit>>
          \/ /\ ~s.nil
             /\ attempt < MaxAttempts
             /\ main' = "wait"
             /\ conns' = (conns \cup s.opens) \ s.closes
             /\ UNCHANGED <<next, retry, up, server, handler, exit>>
          \/ /\ ~s.nil
             /\ attempt = MaxAttempts
             /\ Exit("fatal")
             /\ UNCHANGED <<next, retry>>
    /\ UNCHANGED <<cfg, elected, cancelled, late>>

\* Mutant: the doubled wait is not cut.
DoubledUncut(w) == w * 2

\* The next wait.  A first wait of ten seconds and more is left as it is.
Doubled(w) ==
    IF w >= MaxWait THEN w
    ELSE IF w * 2 > MaxWait THEN MaxWait ELSE w * 2

\* Mutant: the wait does not count as an attempt.
WaitToRetrySameAttempt ==
    /\ main = "wait"
    /\ \/ /\ main' = "start"
          /\ waited' = waited + wait
          /\ wait' = Doubled(wait)
          /\ UNCHANGED <<attempt, up, conns, server, handler, exit>>
       \/ /\ cancelled
          /\ Exit("fatal")
          /\ UNCHANGED retry
    /\ UNCHANGED <<cfg, next, elected, cancelled, late>>

\* The wait between two attempts, or the signal during it.
WaitToRetry ==
    /\ main = "wait"
    /\ \/ /\ main' = "start"
          /\ attempt' = attempt + 1
          /\ waited' = waited + wait
          /\ wait' = Doubled(wait)
          /\ UNCHANGED <<up, conns, server, handler, exit>>
       \/ /\ cancelled
          /\ Exit("fatal")
          /\ UNCHANGED retry
    /\ UNCHANGED <<cfg, next, elected, cancelled, late>>

\* started is set, the relay and the cleanup loop run (Outbox, Idempotency),
\* and the server is on its way up.
Serve ==
    /\ main = "start"
    /\ next > Len(Modules)
    /\ main' = "serve"
    /\ server' = "starting"
    /\ UNCHANGED <<cfg, next, retry, up, conns, elected, cancelled, late, handler, exit>>

-----------------------------------------------------------------------------
(* The server. *)

\* ListenAndServe in its goroutine.
Listen ==
    /\ server = "starting"
    /\ server' \in {"listening", "failed"}
    /\ UNCHANGED <<main, cfg, next, retry, up, conns, elected, cancelled, late, handler, exit>>

\* A request comes in.
Request(h) ==
    /\ server = "listening"
    /\ handler[h] = "none"
    /\ handler' = [handler EXCEPT ![h] = "open"]
    /\ UNCHANGED <<main, cfg, next, retry, up, conns, elected, cancelled, server, late, exit>>

\* http.TimeoutHandler answers; the goroutine goes on and the server no
\* longer counts it.
RequestTimeout(h) ==
    /\ handler[h] = "open"
    /\ handler' = [handler EXCEPT ![h] = "orphan"]
    /\ UNCHANGED <<main, cfg, next, retry, up, conns, elected, cancelled, server, late, exit>>

Answer(h) ==
    /\ handler[h] # "none"
    /\ handler' = [handler EXCEPT ![h] = "none"]
    /\ UNCHANGED <<main, cfg, next, retry, up, conns, elected, cancelled, server, late, exit>>

Signal ==
    /\ main # "exited"
    /\ ~cancelled
    /\ cancelled' = TRUE
    /\ UNCHANGED <<main, cfg, next, retry, up, conns, elected, server, late, handler, exit>>

\* Mutant: Run waits for the signal only.
EndOfServiceDeaf ==
    /\ main = "serve"
    /\ cancelled
    /\ main' = "shutdown"
    /\ server' = "closed"
    /\ UNCHANGED <<up, conns, handler, exit>>
    /\ UNCHANGED <<cfg, next, retry, elected, cancelled, late>>

\* The select of Run: the signal, or an error of ListenAndServe, with which
\* the process ends without stopping the modules.  Shutdown closes the
\* listener first.
EndOfService ==
    /\ main = "serve"
    /\ \/ /\ cancelled
          /\ main' = "shutdown"
          /\ server' = "closed"
          /\ UNCHANGED <<up, conns, handler, exit>>
       \/ /\ server = "failed"
          /\ Exit("fatal")
    /\ UNCHANGED <<cfg, next, retry, elected, cancelled, late>>

-----------------------------------------------------------------------------
(* Shutdown and the end of the modules. *)

Waiting == {h \in Handlers : handler[h] = "open"}

\* HTTP_SHUTDOWN_TIMEOUT_MS pass.
Deadline ==
    /\ main \in {"shutdown", "stop"}
    /\ ~late
    /\ late' = TRUE
    /\ UNCHANGED <<main, cfg, next, retry, up, conns, elected, cancelled, server,
                   handler, exit>>

\* Mutant: Shutdown has no deadline.
ShutdownPatient ==
    /\ main = "shutdown"
    /\ Waiting = {}
    /\ main' = "stop"
    /\ next' = Len(Modules)
    /\ UNCHANGED <<cfg, retry, up, conns, elected, cancelled, server, late, handler, exit>>

\* Mutant: the server is closed and not shut down.
ShutdownAtOnce ==
    /\ main = "shutdown"
    /\ main' = "stop"
    /\ next' = Len(Modules)
    /\ UNCHANGED <<cfg, retry, up, conns, elected, cancelled, server, late, handler, exit>>

\* srv.Shutdown returns when no connection is active or at its deadline.
Shutdown ==
    /\ main = "shutdown"
    /\ Waiting = {} \/ late
    /\ main' = "stop"
    /\ next' = Len(Modules)
    /\ UNCHANGED <<cfg, retry, up, conns, elected, cancelled, server, late, handler, exit>>

\* The connections a module keeps in its fields.
Owned == [natsbus |-> {"nc"}, etcdcoord |-> {"client", "session"}, cassstore |-> {"cql"}]

\* Mutant: the modules are stopped in the order of their start.
StopModuleForward ==
    /\ main = "stop"
    /\ next >= 1
    /\ LET m == Modules[Len(Modules) + 1 - next] IN
          /\ up' = up \ {m}
          /\ \/ conns' = conns \ Owned[m]
             \/ m = "natsbus" /\ UNCHANGED conns
          /\ \/ m = "etcdcoord" /\ elected' = FALSE
             \/ UNCHANGED elected
    /\ next' = next - 1
    /\ UNCHANGED <<main, cfg, retry, cancelled, server, late, handler, exit>>

\* Stop of the last module still up.  Drain closes the connection of natsbus
\* in the background, or fails and it is closed at once.  etcdcoord resigns
\* and closes its session, which revokes the lease if etcd can be reached.
\* Errors are logged and the loop goes on.
StopModule ==
    /\ main = "stop"
    /\ next >= 1
    /\ LET m == Modules[next] IN
          /\ up' = up \ {m}
          /\ \/ conns' = conns \ Owned[m]
             \/ m = "natsbus" /\ UNCHANGED conns
          /\ \/ m = "etcdcoord" /\ elected' = FALSE
             \/ UNCHANGED elected
    /\ next' = next - 1
    /\ UNCHANGED <<main, cfg, retry, cancelled, server, late, handler, exit>>

\* Run returns nil, and main returns.
ReturnFromMain ==
    /\ main = "stop"
    /\ next = 0
    /\ Exit("clean")
    /\ UNCHANGED <<cfg, next, retry, elected, cancelled, late>>

\* The end of the drain.
Drained ==
    /\ "nc" \in conns
    /\ "natsbus" \notin up
    /\ conns' = conns \ {"nc"}
    /\ UNCHANGED <<main, cfg, next, retry, up, elected, cancelled, server, late,
                   handler, exit>>

\* The campaign that Start of etcdcoord begins is won.
Win ==
    /\ "etcdcoord" \in up
    /\ ~elected
    /\ elected' = TRUE
    /\ UNCHANGED <<main, cfg, next, retry, up, conns, cancelled, server, late,
                   handler, exit>>

\* The lease of a key that nobody keeps alive expires.
LeaseExpires ==
    /\ elected
    /\ "session" \notin conns
    /\ elected' = FALSE
    /\ UNCHANGED <<main, cfg, next, retry, up, conns, cancelled, server, late,
                   handler, exit>>

-----------------------------------------------------------------------------

Main ==
    \/ Configure \/ StartModule \/ WaitToRetry \/ Serve \/ EndOfService
    \/ Shutdown \/ StopModule \/ ReturnFromMain

Environment ==
    \/ Listen \/ Signal \/ Deadline \/ Drained \/ Win \/ LeaseExpires
    \/ \E h \in Handlers : Request(h) \/ RequestTimeout(h) \/ Answer(h)

Next == Main \/ Environment

Spec == Init /\ [][Next]_vars

\* The main goroutine and the listener are scheduled, timers fire and leases
\* expire.  Handlers need not end, and no signal need come.
Fairness ==
    /\ WF_vars(Main)
    /\ WF_vars(Listen)
    /\ WF_vars(Deadline)
    /\ WF_vars(LeaseExpires)

FairSpec == Spec /\ Fairness

-----------------------------------------------------------------------------
(* Properties. *)

FirstModules(k) == {Modules[i] : i \in 1..k}

\* No request is handled before every module is up, and none finds a module
\* stopped before Shutdown is over: what is up is always the part of the list
\* before the module being started or stopped.
ServedByWholeSystem ==
    /\ main \in {"config", "start", "wait"} => up = FirstModules(next - 1)
    /\ main \in {"serve", "shutdown"} => up = Names
    /\ main = "stop" => up = FirstModules(next)
    /\ server \in {"starting", "listening", "failed"} => main = "serve"

\* A failed Start leaves no connection behind, so that retries cannot pile
\* them up: what is open belongs to a module that is up, but for the NATS
\* connection while it drains.
ConnectionsAreOwned ==
    LET owned == UNION {Owned[m] : m \in up} IN
    /\ owned \subseteq conns
    /\ conns \subseteq owned \cup (IF main = "stop" THEN {"nc"} ELSE {})

\* A module that does not start delays the end of the process by a bounded
\* time whatever the configuration says, junk and negative numbers included:
\* each wait is at most ten seconds or the configured first one.
StartIsBounded ==
    waited <= (MaxAttempts - 1) * Larger(MaxWait, FirstWait)

\* Modules are stopped under a client that still waits for its answer only
\* after the deadline of the shutdown.  (Handlers whose clients were answered
\* by the request timeout are not waited for.)
ClientsAreWaitedFor == [][up' # up /\ main = "stop" => Waiting = {} \/ late]_vars

\* The attempts and waits that are left for the modules not yet up.
StartsLeft == (Len(Modules) + 1 - next) * (2 * MaxAttempts) - 2 * (attempt - 1)

\* How many steps main can still take: to start, to serve, to shut down, and to
\* stop the modules.
StepsLeft ==
    CASE main = "config"   -> 8 + StartsLeft
      [] main = "start"    -> 7 + StartsLeft
      [] main = "wait"     -> 6 + StartsLeft
      [] main = "serve"    -> 6
      [] main = "shutdown" -> 5
      [] main = "stop"     -> 1 + next
      [] main = "exited"   -> 0

\* main never goes round in circles, whatever is configured, whatever fails and
\* whenever signals and requests come: each of its steps uses up one of a number
\* that nothing replenishes, so the loops over modules and attempts all end.
EveryStepAdvances ==
    [][/\ StepsLeft' \in Nat
       /\ StepsLeft' <= StepsLeft
       /\ Main => StepsLeft' < StepsLeft]_vars

\* A signal ends the process from wherever it is: during a start that goes
\* on failing, while serving, and with handlers that never return.
SignalEnds == cancelled ~> main = "exited"

\* A node that holds the leader key without serving, because it campaigns
\* before the store is up or because it could not listen, does not keep the
\* key for ever.
LeaderServesOrYields == elected ~> (server = "listening" \/ ~elected)

=============================================================================
