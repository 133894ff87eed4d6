------------------------- MODULE AppLifecycleProofs -------------------------
(***************************************************************************)
(* The safety properties of AppLifecycle for any configuration and any     *)
(* number of requests.                                                     *)
(***************************************************************************)
EXTENDS AppLifecycle, TLAPS

\* Where the loops over the modules and over the attempts are.
LoopsFit ==
    /\ main \in {"config", "start", "wait"} => next \in 1..4
    /\ main \in {"config", "start"} /\ next = 4 => attempt = 1
    /\ main = "wait" => next \in 1..3 /\ attempt < MaxAttempts
    /\ main = "stop" => next \in 0..3
    /\ main \in {"shutdown", "stop"} => server = "closed"

\* The longest wait between two attempts.
Longest == Larger(MaxWait, FirstWait)

WaitsFit == wait <= Longest /\ waited <= (attempt - 1) * Longest

\* Once the modules are being stopped no client waits, or it is too late.
StopsAfterWait == main = "stop" => Waiting = {} \/ late

\* ConnectionsAreOwned, connection by connection.
ConnsFit ==
    /\ "natsbus" \in up => "nc" \in conns
    /\ "nc" \in conns => "natsbus" \in up \/ main = "stop"
    /\ "client" \in conns <=> "etcdcoord" \in up
    /\ "session" \in conns <=> "etcdcoord" \in up
    /\ "cql" \in conns <=> "cassstore" \in up
    /\ "bootstrap" \notin conns

Inv ==
    /\ TypeOK /\ LoopsFit /\ WaitsFit /\ StopsAfterWait /\ ConnsFit
    /\ ServedByWholeSystem

\* The list of modules.
LEMMA ModuleList ==
    /\ Len(Modules) = 3
    /\ Modules[1] = "natsbus" /\ Modules[2] = "etcdcoord" /\ Modules[3] = "cassstore"
  BY DEF Modules

\* Its prefixes.
LEMMA Prefixes ==
    /\ FirstModules(0) = {}
    /\ FirstModules(1) = {"natsbus"}
    /\ FirstModules(2) = {"natsbus", "etcdcoord"}
    /\ FirstModules(3) = Names
<1>1. /\ 1..0 = {} /\ 1..1 = {1} /\ 1..2 = {1, 2} /\ 1..3 = {1, 2, 3}
  OBVIOUS
<1> QED
  BY <1>1, ModuleList DEF FirstModules, Names

\* New clamps the configured numbers.
LEMMA Clamped ==
    ASSUME cfg \in [retryMax : Int, backoff : Int, least : Int, fits : BOOLEAN]
    PROVE  /\ MaxAttempts \in Nat \ {0}
           /\ FirstWait \in Nat
           /\ Longest \in Nat /\ FirstWait <= Longest /\ MaxWait <= Longest
<1>1. cfg.retryMax \in Int /\ cfg.backoff \in Int
  OBVIOUS
<1> QED
  BY <1>1 DEF MaxAttempts, FirstWait, Longest, Larger, MaxWait

\* FromEnv yields numbers whatever the environment holds.
LEMMA EnvTypes == FromEnv \subseteq [retryMax : Int, backoff : Int, least : Int, fits : BOOLEAN]
<1>1. /\ \A m \in RetryMax : IntOr(m, 4) \in Int
      /\ \A b \in Backoff : IntOr(b, 1000) \in Int
      /\ \A l \in Least : IntOr(l, 1) \in Int
  BY LifecycleAssumption DEF IntOr
<1> QED
  BY <1>1 DEF FromEnv

\* The process before its first step.
LEMMA InitInv == Init => Inv
<1> SUFFICES ASSUME Init PROVE Inv
  OBVIOUS
<1>1. cfg \in [retryMax : Int, backoff : Int, least : Int, fits : BOOLEAN]
  BY EnvTypes DEF Init
<1>2. TypeOK
  <2>1. attempt \in 1..MaxAttempts /\ wait \in Nat /\ waited \in Nat
    BY <1>1, Clamped DEF Init
  <2>2. next \in 0..Len(Modules) + 1
    BY ModuleList DEF Init
  <2> QED
    BY <1>1, <2>1, <2>2 DEF Init, TypeOK
<1>3. WaitsFit
  BY <1>1, Clamped DEF Init, WaitsFit
<1>4. ServedByWholeSystem
  BY Prefixes DEF Init, ServedByWholeSystem
<1> QED
  BY <1>2, <1>3, <1>4 DEF Init, Inv, LoopsFit, StopsAfterWait, ConnsFit

\* The process ends from anywhere.
LEMMA ExitInv ==
    ASSUME Inv, NEW how \in {"clean", "fatal"}, Exit(how),
           UNCHANGED <<cfg, next, retry, elected, cancelled, late>>
    PROVE  Inv'
<1> USE DEF Exit, retry
<1>1. MaxAttempts' = MaxAttempts /\ Longest' = Longest
  BY DEF MaxAttempts, Longest, FirstWait
<1>2. TypeOK'
  BY <1>1 DEF Inv, TypeOK
<1>3. WaitsFit'
  BY <1>1 DEF Inv, WaitsFit
<1>4. LoopsFit' /\ StopsAfterWait' /\ ConnsFit' /\ ServedByWholeSystem'
  BY DEF LoopsFit, StopsAfterWait, ConnsFit, ServedByWholeSystem
<1> QED
  BY <1>2, <1>3, <1>4 DEF Inv

\* The retries are untouched by every step but those of the start.
LEMMA SameRetries ==
    ASSUME Inv, UNCHANGED <<cfg, retry>>
    PROVE  WaitsFit' /\ MaxAttempts' = MaxAttempts /\ attempt' \in 1..MaxAttempts'
<1>1. MaxAttempts' = MaxAttempts /\ Longest' = Longest
  BY DEF MaxAttempts, Longest, FirstWait
<1> QED
  BY <1>1 DEF Inv, TypeOK, WaitsFit, retry

\* Every return of a Start leaves the connections of what is up.
LEMMA StartModuleInv == Inv /\ StartModule => Inv'
<1> SUFFICES ASSUME Inv, StartModule PROVE Inv'
  OBVIOUS
<1> DEFINE m == Modules[next]
<1>1. main = "start" /\ next \in 1..3 /\ up = FirstModules(next - 1) /\ conns \subseteq Connections
  BY ModuleList DEF StartModule, Inv, LoopsFit, ServedByWholeSystem, TypeOK
<1>2. PICK s \in Starts[m] :
        \/ /\ s.nil
           /\ up' = up \cup {m}
           /\ conns' = (conns \cup s.opens) \ s.closes
           /\ next' = next + 1
           /\ attempt' = 1
           /\ wait' = FirstWait
           /\ waited' = 0
           /\ UNCHANGED <<main, server, handler, exit>>
        \/ /\ ~s.nil
           /\ attempt < MaxAttempts
           /\ main' = "wait"
           /\ conns' = (conns \cup s.opens) \ s.closes
           /\ UNCHANGED <<next, retry, up, server, handler, exit>>
        \/ /\ ~s.nil
           /\ attempt = MaxAttempts
           /\ Exit("fatal")
           /\ UNCHANGED <<next, retry>>
  BY DEF StartModule
<1>3. UNCHANGED <<cfg, elected, cancelled, late>>
  BY DEF StartModule
<1>4. MaxAttempts' = MaxAttempts /\ Longest' = Longest /\ FirstWait' = FirstWait
  BY <1>3 DEF MaxAttempts, Longest, FirstWait
<1>5. server \notin {"starting", "listening", "failed"}
  BY <1>1 DEF Inv, ServedByWholeSystem
<1>6. CASE /\ s.nil /\ up' = up \cup {m} /\ conns' = (conns \cup s.opens) \ s.closes
           /\ next' = next + 1 /\ attempt' = 1 /\ wait' = FirstWait /\ waited' = 0
           /\ UNCHANGED <<main, server, handler, exit>>
  <2>1. up' = FirstModules(next) /\ up' = FirstModules(next' - 1) /\ up' \subseteq Names
    <3>1. CASE next = 1
      BY <1>1, <1>6, <3>1, ModuleList, Prefixes DEF Names
    <3>2. CASE next = 2
      BY <1>1, <1>6, <3>2, ModuleList, Prefixes DEF Names
    <3>3. CASE next = 3
      BY <1>1, <1>6, <3>3, ModuleList, Prefixes DEF Names
    <3> QED
      BY <1>1, <3>1, <3>2, <3>3
  <2>2. ConnsFit' /\ conns' \subseteq Connections
    <3>0. ConnsFit /\ main = "start" /\ main' = "start"
      BY <1>1, <1>6 DEF Inv
    <3>1. CASE m = "natsbus"
      <4>1. s.opens = {"nc"} /\ s.closes = {}
        BY <1>2, <1>6, <3>1 DEF Starts, StartNats, Return
      <4> QED
        BY <1>1, <1>6, <3>0, <3>1, <4>1 DEF ConnsFit, Connections
    <3>2. CASE m = "etcdcoord"
      <4>1. s.opens = {"client", "session"} /\ s.closes = {}
        BY <1>2, <1>6, <3>2 DEF Starts, StartEtcd, Return
      <4> QED
        BY <1>1, <1>6, <3>0, <3>2, <4>1 DEF ConnsFit, Connections
    <3>3. CASE m = "cassstore"
      <4>1. s.opens = {"bootstrap", "cql"} /\ s.closes = {"bootstrap"}
        BY <1>2, <1>6, <3>3 DEF Starts, StartCassandra, Return
      <4> QED
        BY <1>1, <1>6, <3>0, <3>3, <4>1 DEF ConnsFit, Connections
    <3> QED
      BY <1>1, <3>1, <3>2, <3>3, ModuleList
  <2>3. /\ cfg' \in [retryMax : Int, backoff : Int, least : Int, fits : BOOLEAN]
        /\ attempt' \in 1..MaxAttempts' /\ wait' \in Nat /\ waited' \in Nat
        /\ WaitsFit'
    <3>1. cfg \in [retryMax : Int, backoff : Int, least : Int, fits : BOOLEAN]
      BY DEF Inv, TypeOK
    <3> QED
      BY <1>3, <1>4, <1>6, <3>1, Clamped DEF WaitsFit
  <2>4. next' \in 1..4 /\ next' \in 0..Len(Modules) + 1
    BY <1>1, <1>6, ModuleList
  <2>5. TypeOK'
    BY <1>3, <1>6, <2>1, <2>2, <2>3, <2>4 DEF Inv, TypeOK
  <2>6. LoopsFit' /\ StopsAfterWait' /\ ServedByWholeSystem'
    BY <1>1, <1>5, <1>6, <2>1, <2>4 DEF LoopsFit, StopsAfterWait, ServedByWholeSystem
  <2> QED
    BY <2>2, <2>3, <2>5, <2>6 DEF Inv
<1>7. CASE /\ ~s.nil /\ attempt < MaxAttempts /\ main' = "wait"
           /\ conns' = (conns \cup s.opens) \ s.closes
           /\ UNCHANGED <<next, retry, up, server, handler, exit>>
  <2>1. conns' = conns
    <3>0. ConnsFit /\ main # "stop"
      BY <1>1 DEF Inv
    <3>1. CASE next = 1
      <4>1. up = {} /\ s.opens = s.closes /\ s.opens \subseteq {"nc"}
        BY <1>1, <1>2, <1>7, <3>1, ModuleList, Prefixes DEF Starts, StartNats, Return
      <4> QED
        BY <1>7, <3>0, <4>1 DEF ConnsFit
    <3>2. CASE next = 2
      <4>1. up = {"natsbus"} /\ s.opens = s.closes /\ s.opens \subseteq {"client"}
        BY <1>1, <1>2, <1>7, <3>2, ModuleList, Prefixes DEF Starts, StartEtcd, Return
      <4> QED
        BY <1>7, <3>0, <4>1 DEF ConnsFit
    <3>3. CASE next = 3
      <4>1. /\ up = {"natsbus", "etcdcoord"} /\ s.opens = s.closes
            /\ s.opens \subseteq {"bootstrap", "cql"}
        BY <1>1, <1>2, <1>7, <3>3, ModuleList, Prefixes DEF Starts, StartCassandra, Return
      <4> QED
        BY <1>7, <3>0, <4>1 DEF ConnsFit
    <3> QED
      BY <1>1, <3>1, <3>2, <3>3
  <2>2. WaitsFit' /\ attempt' \in 1..MaxAttempts'
    BY <1>3, <1>7, SameRetries
  <2>3. TypeOK'
    BY <1>3, <1>7, <2>1, <2>2 DEF Inv, TypeOK, retry
  <2>4. LoopsFit' /\ StopsAfterWait'
    BY <1>1, <1>4, <1>7 DEF LoopsFit, StopsAfterWait, retry
  <2>5. ConnsFit'
    BY <1>1, <1>7, <2>1 DEF Inv, ConnsFit
  <2>6. ServedByWholeSystem'
    BY <1>1, <1>5, <1>7 DEF ServedByWholeSystem
  <2> QED
    BY <2>2, <2>3, <2>4, <2>5, <2>6 DEF Inv
<1>8. CASE Exit("fatal") /\ UNCHANGED <<next, retry>>
  BY <1>3, <1>8, ExitInv
<1> QED
  BY <1>2, <1>6, <1>7, <1>8

\* The wait doubles up to its maximum, and the sum of the waits is bounded by
\* the attempts.
LEMMA WaitToRetryInv == Inv /\ WaitToRetry => Inv'
<1> SUFFICES ASSUME Inv, WaitToRetry PROVE Inv'
  OBVIOUS
<1>1. CASE Exit("fatal") /\ UNCHANGED retry
  BY <1>1, ExitInv DEF WaitToRetry
<1>2. CASE /\ main' = "start" /\ attempt' = attempt + 1 /\ waited' = waited + wait
           /\ wait' = Doubled(wait) /\ UNCHANGED <<up, conns, server, handler, exit>>
  <2>1. main = "wait" /\ UNCHANGED <<cfg, next, elected, cancelled, late>>
    BY DEF WaitToRetry
  <2>2. MaxAttempts' = MaxAttempts /\ Longest' = Longest
    BY <2>1 DEF MaxAttempts, Longest, FirstWait
  <2>3. /\ cfg \in [retryMax : Int, backoff : Int, least : Int, fits : BOOLEAN]
        /\ attempt \in 1..MaxAttempts /\ wait \in Nat /\ waited \in Nat
        /\ next \in 1..3 /\ attempt < MaxAttempts
    BY <2>1 DEF Inv, TypeOK, LoopsFit
  <2>4. /\ MaxAttempts \in Nat /\ Longest \in Nat /\ MaxWait <= Longest
        /\ attempt' \in 1..MaxAttempts
    BY <1>2, <2>3, Clamped
  <2>5. wait' \in Nat /\ wait' <= Longest
    BY <1>2, <2>3, <2>4 DEF Doubled, Inv, WaitsFit, MaxWait
  <2>6. waited' \in Nat /\ waited' <= (attempt' - 1) * Longest
    <3>1. waited <= (attempt - 1) * Longest /\ wait <= Longest
      BY DEF Inv, WaitsFit
    <3>2. /\ (attempt - 1) * Longest \in Int
          /\ (attempt - 1) * Longest + Longest = attempt * Longest
      BY <2>3, <2>4
    <3> QED
      BY <1>2, <2>3, <2>4, <3>1, <3>2
  <2>7. TypeOK'
    BY <1>2, <2>1, <2>2, <2>4, <2>5, <2>6 DEF Inv, TypeOK
  <2>8. WaitsFit'
    BY <2>2, <2>5, <2>6 DEF WaitsFit
  <2>9. LoopsFit' /\ StopsAfterWait'
    BY <1>2, <2>1, <2>3 DEF LoopsFit, StopsAfterWait
  <2>10. ConnsFit' /\ ServedByWholeSystem'
    BY <1>2, <2>1 DEF Inv, ConnsFit, ServedByWholeSystem
  <2> QED
    BY <2>7, <2>8, <2>9, <2>10 DEF Inv
<1> QED
  BY <1>1, <1>2 DEF WaitToRetry

\* Stop takes the modules down from the end of the list.
LEMMA StopModuleInv == Inv /\ StopModule => Inv'
<1> SUFFICES ASSUME Inv, StopModule PROVE Inv'
  OBVIOUS
<1> DEFINE m == Modules[next]
<1>1. /\ main = "stop" /\ next \in 1..3 /\ up = FirstModules(next) /\ next' = next - 1
      /\ up' = up \ {m}
      /\ conns' = conns \ Owned[m] \/ (m = "natsbus" /\ conns' = conns)
      /\ elected' \in BOOLEAN
      /\ UNCHANGED <<main, cfg, retry, cancelled, server, late, handler, exit>>
  <2>1. main = "stop" /\ next >= 1 /\ next' = next - 1
    BY DEF StopModule
  <2>2. next \in 1..3 /\ up = FirstModules(next)
    BY <2>1 DEF Inv, LoopsFit, ServedByWholeSystem
  <2>3. elected' = FALSE \/ elected' = elected
    BY DEF StopModule
  <2>4. elected' \in BOOLEAN
    BY <2>3 DEF Inv, TypeOK
  <2>5. /\ up' = up \ {m}
        /\ conns' = conns \ Owned[m] \/ (m = "natsbus" /\ conns' = conns)
        /\ UNCHANGED <<main, cfg, retry, cancelled, server, late, handler, exit>>
    BY DEF StopModule
  <2> QED
    BY <2>1, <2>2, <2>4, <2>5
<1>2. WaitsFit' /\ attempt' \in 1..MaxAttempts'
  BY <1>1, SameRetries
<1>3. up' = FirstModules(next - 1) /\ up' \subseteq Names /\ ConnsFit'
  <2>0. ConnsFit
    BY DEF Inv
  <2>1. CASE next = 1
    BY <1>1, <2>0, <2>1, ModuleList, Prefixes DEF Owned, ConnsFit, Names
  <2>2. CASE next = 2
    BY <1>1, <2>0, <2>2, ModuleList, Prefixes DEF Owned, ConnsFit, Names
  <2>3. CASE next = 3
    BY <1>1, <2>0, <2>3, ModuleList, Prefixes DEF Owned, ConnsFit, Names
  <2> QED
    BY <1>1, <2>1, <2>2, <2>3
<1>4. next' \in 0..3 /\ next' \in 0..Len(Modules) + 1
  BY <1>1, ModuleList
<1>5. TypeOK'
  BY <1>1, <1>2, <1>3, <1>4 DEF Inv, TypeOK, retry
<1>6. LoopsFit' /\ ServedByWholeSystem'
  BY <1>1, <1>3, <1>4 DEF Inv, LoopsFit, ServedByWholeSystem
<1>7. StopsAfterWait'
  BY <1>1 DEF Inv, StopsAfterWait, Waiting
<1> QED
  BY <1>2, <1>3, <1>5, <1>6, <1>7 DEF Inv

\* The other steps of main.
LEMMA OtherMainInv ==
    Inv /\ (Configure \/ Serve \/ EndOfService \/ Shutdown \/ ReturnFromMain) => Inv'
<1> SUFFICES ASSUME Inv,
                    Configure \/ Serve \/ EndOfService \/ Shutdown \/ ReturnFromMain
             PROVE  Inv'
  OBVIOUS
<1>1. CASE Exit("fatal") /\ (Configure \/ EndOfService)
  BY <1>1, ExitInv DEF Configure, EndOfService
<1>2. CASE ReturnFromMain
  BY <1>2, ExitInv DEF ReturnFromMain
<1>3. ASSUME UNCHANGED <<cfg, retry, up, conns, elected, cancelled, late, handler, exit>>,
             main' \in {"start", "serve", "shutdown", "stop"},
             server' \in {"off", "starting", "listening", "failed", "closed"},
             next' \in 0..4, main # "stop", main' # "stop" \/ Waiting = {} \/ late,
             LoopsFit', ServedByWholeSystem'
      PROVE  Inv'
  <2>1. WaitsFit' /\ attempt' \in 1..MaxAttempts'
    BY <1>3, SameRetries
  <2>2. next' \in 0..Len(Modules) + 1
    BY <1>3, ModuleList
  <2>3. TypeOK'
    BY <1>3, <2>1, <2>2 DEF Inv, TypeOK, retry
  <2>4. StopsAfterWait' /\ ConnsFit'
    BY <1>3 DEF Inv, StopsAfterWait, Waiting, ConnsFit
  <2> QED
    BY <1>3, <2>1, <2>3, <2>4 DEF Inv
<1>4. /\ server \in {"off", "starting", "listening", "failed", "closed"}
      /\ next \in 0..4
      /\ main \in {"config", "start"} => next \in 1..4
  BY ModuleList DEF Inv, TypeOK, LoopsFit
<1>5. CASE Configure /\ main' = "start" /\ UNCHANGED <<up, conns, server, handler, exit>>
  <2>1. LoopsFit' /\ ServedByWholeSystem'
    BY <1>4, <1>5 DEF Configure, Inv, LoopsFit, ServedByWholeSystem, retry
  <2> QED
    BY <1>3, <1>4, <1>5, <2>1 DEF Configure
<1>6. CASE Serve
  <2>1. next = 4
    BY <1>4, <1>6, ModuleList DEF Serve
  <2>2. up = Names
    BY <1>6, <2>1, Prefixes DEF Serve, Inv, ServedByWholeSystem
  <2>3. LoopsFit' /\ ServedByWholeSystem'
    BY <1>6, <2>2 DEF Serve, LoopsFit, ServedByWholeSystem
  <2> QED
    BY <1>3, <1>4, <1>6, <2>3 DEF Serve
<1>7. CASE /\ EndOfService /\ main' = "shutdown" /\ server' = "closed"
           /\ UNCHANGED <<up, conns, handler, exit>>
  <2>1. LoopsFit' /\ ServedByWholeSystem'
    BY <1>7 DEF EndOfService, Inv, LoopsFit, ServedByWholeSystem
  <2> QED
    BY <1>3, <1>4, <1>7, <2>1 DEF EndOfService
<1>8. CASE Shutdown
  <2>1. next' = 3
    BY <1>8, ModuleList DEF Shutdown
  <2>2. LoopsFit' /\ ServedByWholeSystem'
    BY <1>8, <2>1, Prefixes DEF Shutdown, Inv, LoopsFit, ServedByWholeSystem
  <2> QED
    BY <1>3, <1>4, <1>8, <2>1, <2>2 DEF Shutdown
<1> QED
  BY <1>1, <1>2, <1>5, <1>6, <1>7, <1>8 DEF Configure, EndOfService

\* The listener, requests, signals and timers.
LEMMA EnvironmentInv == Inv /\ Environment => Inv'
<1> SUFFICES ASSUME Inv, Environment PROVE Inv'
  OBVIOUS
<1>1. UNCHANGED <<main, cfg, next, retry, up, exit>>
  BY DEF Environment, Listen, Request, RequestTimeout, Answer, Signal, Deadline,
         Drained, Win, LeaseExpires
<1>2. /\ server' \in {"off", "starting", "listening", "failed", "closed"}
      /\ server' # server => server = "starting"
  BY DEF Environment, Listen, Request, RequestTimeout, Answer, Signal, Deadline,
         Drained, Win, LeaseExpires, Inv, TypeOK
<1>3. /\ handler' \in [Handlers -> {"none", "open", "orphan"}]
      /\ server # "listening" => Waiting' \subseteq Waiting
  <2>1. handler \in [Handlers -> {"none", "open", "orphan"}]
    BY DEF Inv, TypeOK
  <2>2. ASSUME NEW h \in Handlers, Request(h) \/ RequestTimeout(h) \/ Answer(h)
        PROVE  /\ handler' \in [Handlers -> {"none", "open", "orphan"}]
               /\ server # "listening" => Waiting' \subseteq Waiting
    BY <2>1, <2>2 DEF Request, RequestTimeout, Answer, Waiting
  <2>3. CASE Listen \/ Signal \/ Deadline \/ Drained \/ Win \/ LeaseExpires
    BY <2>1, <2>3 DEF Listen, Signal, Deadline, Drained, Win, LeaseExpires, Waiting
  <2> QED
    BY <2>2, <2>3 DEF Environment
<1>4. /\ cancelled' \in BOOLEAN /\ late' \in BOOLEAN /\ elected' \in BOOLEAN
      /\ late => late'
  BY DEF Environment, Listen, Request, RequestTimeout, Answer, Signal, Deadline,
         Drained, Win, LeaseExpires, Inv, TypeOK
<1>5. conns' = conns \/ (conns' = conns \ {"nc"} /\ "natsbus" \notin up)
  BY DEF Environment, Listen, Request, RequestTimeout, Answer, Signal, Deadline,
         Drained, Win, LeaseExpires
<1>6. WaitsFit' /\ MaxAttempts' = MaxAttempts /\ attempt' \in 1..MaxAttempts'
  BY <1>1, SameRetries
<1>7. TypeOK'
  BY <1>1, <1>2, <1>3, <1>4, <1>5, <1>6 DEF Inv, TypeOK, retry
<1>8. LoopsFit' /\ ServedByWholeSystem'
  BY <1>1, <1>2, <1>6 DEF Inv, LoopsFit, ServedByWholeSystem, retry
<1>9. StopsAfterWait'
  BY <1>1, <1>3, <1>4 DEF Inv, StopsAfterWait, LoopsFit
<1>10. ConnsFit'
  BY <1>1, <1>5 DEF Inv, ConnsFit
<1> QED
  BY <1>6, <1>7, <1>8, <1>9, <1>10 DEF Inv

-----------------------------------------------------------------------------
(* The theorems. *)

\* The strengthening holds along the whole life of the process.
THEOREM InvHolds == Spec => []Inv
<1>1. Inv /\ UNCHANGED vars => Inv'
  BY DEF vars, Inv, TypeOK, LoopsFit, WaitsFit, StopsAfterWait, ConnsFit, Longest,
         ServedByWholeSystem, MaxAttempts, FirstWait, Waiting
<1>2. Inv /\ [Next]_vars => Inv'
  BY <1>1, StartModuleInv, WaitToRetryInv, StopModuleInv, OtherMainInv, EnvironmentInv
     DEF Next, Main
<1> QED
  BY <1>2, InitInv, PTL DEF Spec

\* Type correctness; the attempts never exceed the clamped maximum.
THEOREM TypesHold == Spec => []TypeOK
<1>1. Inv => TypeOK
  BY DEF Inv
<1> QED
  BY <1>1, InvHolds, PTL

\* Run starts the modules in order, serves when all are up and stops them in
\* reverse order.
THEOREM WholeSystemServes == Spec => []ServedByWholeSystem
<1>1. Inv => ServedByWholeSystem
  BY DEF Inv
<1> QED
  BY <1>1, InvHolds, PTL

\* No Start leaves a connection behind when it fails, and every Stop closes
\* those of its module.
THEOREM NoConnectionLeaks == Spec => []ConnectionsAreOwned
<1>1. Inv => ConnectionsAreOwned
  <2> SUFFICES ASSUME Inv PROVE ConnectionsAreOwned
    OBVIOUS
  <2> DEFINE owned == UNION {Owned[m] : m \in up}
  <2>1. up \subseteq Names /\ conns \subseteq Connections /\ ConnsFit
    BY DEF Inv, TypeOK
  <2>2. /\ "natsbus" \in up => "nc" \in owned
        /\ "etcdcoord" \in up => "client" \in owned /\ "session" \in owned
        /\ "cassstore" \in up => "cql" \in owned
    BY DEF Owned
  <2>3. ASSUME NEW c \in owned PROVE c \in conns
    <3>1. PICK m \in up : c \in Owned[m]
      BY <2>3
    <3> QED
      BY <2>1, <3>1 DEF Owned, Names, ConnsFit
  <2>4. conns \subseteq owned \cup (IF main = "stop" THEN {"nc"} ELSE {})
    BY <2>1, <2>2 DEF Connections, ConnsFit
  <2> QED
    BY <2>3, <2>4 DEF ConnectionsAreOwned
<1> QED
  BY <1>1, InvHolds, PTL

\* startModuleWithRetry waits a bounded time for any configured numbers.
THEOREM StartsAreBounded == Spec => []StartIsBounded
<1>1. Inv => StartIsBounded
  <2> SUFFICES ASSUME Inv PROVE StartIsBounded
    OBVIOUS
  <2>1. /\ attempt \in 1..MaxAttempts /\ waited \in Nat
        /\ MaxAttempts \in Nat /\ Longest \in Nat
    BY Clamped DEF Inv, TypeOK
  <2>2. waited <= (attempt - 1) * Longest
    BY DEF Inv, WaitsFit
  <2>3. (attempt - 1) * Longest <= (MaxAttempts - 1) * Longest
    <3>1. \A a, b, n \in Nat : a <= b => a * n <= b * n
      OBVIOUS
    <3>2. attempt - 1 \in Nat /\ MaxAttempts - 1 \in Nat /\ attempt - 1 <= MaxAttempts - 1
      BY <2>1
    <3> QED
      BY <2>1, <3>1, <3>2
  <2>4. (attempt - 1) * Longest \in Int /\ (MaxAttempts - 1) * Longest \in Int
    BY <2>1
  <2> QED
    BY <2>1, <2>2, <2>3, <2>4 DEF StartIsBounded, Longest
<1> QED
  BY <1>1, InvHolds, PTL

\* Run stops the modules only when Shutdown has returned.
THEOREM ClientsComeFirst == Spec => ClientsAreWaitedFor
<1>1. Inv /\ [Next]_vars =>
        [up' # up /\ main = "stop" => Waiting = {} \/ late]_vars
  BY DEF Inv, StopsAfterWait
<1> QED
  BY <1>1, InvHolds, PTL DEF Spec, ClientsAreWaitedFor

-----------------------------------------------------------------------------
(* The steps that main has left. *)

\* The start has as many steps left as modules and attempts allow.
LEMMA StartsLeftTypes ==
    ASSUME Inv, main \in {"config", "start", "wait"}
    PROVE  /\ StartsLeft \in Nat
           /\ main = "wait" => StartsLeft >= 4
           /\ main = "start" /\ next <= 3 => StartsLeft >= 2
<1>1. next \in 1..4 /\ attempt \in 1..MaxAttempts /\ MaxAttempts \in Nat \ {0}
  BY Clamped DEF Inv, TypeOK, LoopsFit
<1>2. /\ main # "wait" /\ next = 4 => attempt = 1
      /\ main = "wait" => next <= 3 /\ attempt < MaxAttempts
  BY <1>1 DEF Inv, LoopsFit
<1>3. StartsLeft = (4 - next) * (2 * MaxAttempts) - 2 * (attempt - 1)
  BY <1>1, ModuleList DEF StartsLeft
<1>4. CASE next = 1
  BY <1>1, <1>2, <1>3, <1>4
<1>5. CASE next = 2
  BY <1>1, <1>2, <1>3, <1>5
<1>6. CASE next = 3
  BY <1>1, <1>2, <1>3, <1>6
<1>7. CASE next = 4
  BY <1>1, <1>2, <1>3, <1>7
<1> QED
  BY <1>1, <1>4, <1>5, <1>6, <1>7

\* The steps left are a number, and there is one at least unless main has ended.
LEMMA StepsLeftTypes == Inv => StepsLeft \in Nat /\ (main # "exited" => StepsLeft > 0)
<1> SUFFICES ASSUME Inv PROVE StepsLeft \in Nat /\ (main # "exited" => StepsLeft > 0)
  OBVIOUS
<1>1. main \in {"config", "start", "wait", "serve", "shutdown", "stop", "exited"}
  BY DEF Inv, TypeOK
<1>2. main = "stop" => next \in Nat
  BY DEF Inv, LoopsFit
<1> QED
  BY <1>1, <1>2, StartsLeftTypes DEF StepsLeft

\* What each step of main takes from the steps left.
LEMMA MainAdvances ==
    ASSUME Inv, Main
    PROVE  StepsLeft' < StepsLeft
<1>1. StepsLeft \in Nat /\ (main # "exited" => StepsLeft > 0)
  BY StepsLeftTypes
<1>2. CASE main # "exited" /\ main' = "exited"
  <2>1. StepsLeft' = 0
    BY <1>2 DEF StepsLeft
  <2> QED
    BY <1>1, <1>2, <2>1
<1>3. ASSUME main \in {"config", "start", "wait"}
      PROVE  /\ StartsLeft \in Nat
             /\ next \in 1..4 /\ attempt \in 1..MaxAttempts /\ MaxAttempts \in Nat
             /\ StartsLeft = (4 - next) * (2 * MaxAttempts) - 2 * (attempt - 1)
  BY <1>3, StartsLeftTypes, Clamped, ModuleList DEF Inv, TypeOK, LoopsFit, StartsLeft
<1>4. UNCHANGED cfg
  BY DEF Main, Configure, StartModule, WaitToRetry, Serve, EndOfService, Shutdown,
         StopModule, ReturnFromMain
<1>5. MaxAttempts' = MaxAttempts
  BY <1>4 DEF MaxAttempts
<1>6. CASE Configure /\ main' = "start" /\ main = "config"
  <2>1. UNCHANGED <<next, attempt>>
    BY <1>6 DEF Configure, retry
  <2>2. StartsLeft' = StartsLeft
    BY <1>5, <2>1 DEF StartsLeft
  <2> QED
    BY <1>3, <1>6, <2>2 DEF StepsLeft
<1>7. CASE StartModule /\ main = "start" /\ main' = "wait"
  <2>1. UNCHANGED <<next, attempt>>
    BY <1>7 DEF StartModule, Exit, retry
  <2>2. StartsLeft' = StartsLeft
    BY <1>5, <2>1 DEF StartsLeft
  <2> QED
    BY <1>3, <1>7, <2>2 DEF StepsLeft
<1>8. CASE StartModule /\ main = "start" /\ main' = "start"
  <2>1. next' = next + 1 /\ attempt' = 1
    BY <1>8 DEF StartModule, Exit
  <2>2. next \in 1..3
    BY <1>3, <1>8, ModuleList DEF StartModule
  <2>3. StartsLeft' = (4 - (next + 1)) * (2 * MaxAttempts)
    <3>1. StartsLeft' = (4 - (next + 1)) * (2 * MaxAttempts) - 2 * (1 - 1)
      BY <1>5, <2>1, ModuleList DEF StartsLeft
    <3>2. (4 - (next + 1)) * (2 * MaxAttempts) \in Int
      BY <1>3, <1>8, <2>2
    <3> QED
      BY <3>1, <3>2
  <2>4. StartsLeft' < StartsLeft /\ StartsLeft' \in Int
    <3>1. CASE next = 1
      BY <1>3, <1>8, <2>3, <3>1
    <3>2. CASE next = 2
      BY <1>3, <1>8, <2>3, <3>2
    <3>3. CASE next = 3
      BY <1>3, <1>8, <2>3, <3>3
    <3> QED
      BY <2>2, <3>1, <3>2, <3>3
  <2> QED
    BY <1>3, <1>8, <2>4 DEF StepsLeft
<1>9. CASE WaitToRetry /\ main = "wait" /\ main' = "start"
  <2>1. next' = next /\ attempt' = attempt + 1
    BY <1>9 DEF WaitToRetry, Exit
  <2>2. StartsLeft' = (4 - next) * (2 * MaxAttempts) - 2 * attempt
    BY <1>3, <1>5, <1>9, <2>1, ModuleList DEF StartsLeft
  <2>3. (4 - next) * (2 * MaxAttempts) \in Int
    BY <1>3, <1>9
  <2>4. StartsLeft' = StartsLeft - 2
    BY <1>3, <1>9, <2>2, <2>3
  <2> QED
    BY <1>3, <1>9, <2>4 DEF StepsLeft
<1>10. CASE Serve
  <2>1. main = "start" /\ main' = "serve"
    BY <1>10 DEF Serve
  <2> QED
    BY <1>3, <2>1 DEF StepsLeft
<1>11. CASE EndOfService /\ main = "serve" /\ main' = "shutdown"
  BY <1>11 DEF StepsLeft
<1>12. CASE Shutdown
  <2>1. main = "shutdown" /\ main' = "stop" /\ next' = 3
    BY <1>12, ModuleList DEF Shutdown
  <2> QED
    BY <2>1 DEF StepsLeft
<1>13. CASE StopModule
  <2>1. main = "stop" /\ main' = "stop" /\ next' = next - 1 /\ next \in 0..3
    BY <1>13 DEF StopModule, Inv, LoopsFit
  <2> QED
    BY <2>1 DEF StepsLeft
<1>14. main # "exited"
  BY DEF Main, Configure, StartModule, WaitToRetry, Serve, EndOfService, Shutdown,
         StopModule, ReturnFromMain
<1>15. Configure \/ StartModule \/ WaitToRetry \/ EndOfService \/ ReturnFromMain =>
          \/ main' = "exited"
          \/ Configure /\ main = "config" /\ main' = "start"
          \/ StartModule /\ main = "start" /\ main' \in {"start", "wait"}
          \/ WaitToRetry /\ main = "wait" /\ main' = "start"
          \/ EndOfService /\ main = "serve" /\ main' = "shutdown"
  BY DEF Configure, StartModule, WaitToRetry, EndOfService, ReturnFromMain, Exit
<1> QED
  BY <1>2, <1>6, <1>7, <1>8, <1>9, <1>10, <1>11, <1>12, <1>13, <1>14, <1>15 DEF Main

\* main takes at most as many steps as the configuration allows attempts, plus
\* the fixed ones, and nothing gives it more: the part of SignalEnds that is not
\* about scheduling, for any configuration.
THEOREM MainEnds == Spec => EveryStepAdvances
<1> DEFINE Step == /\ StepsLeft' \in Nat
                   /\ StepsLeft' <= StepsLeft
                   /\ Main => StepsLeft' < StepsLeft
<1>1. Inv /\ Inv' /\ [Next]_vars => [Step]_vars
  <2>0. Inv' => StepsLeft' \in Nat
    <3>1. (Inv => StepsLeft \in Nat)'
      BY StepsLeftTypes, PTL
    <3> QED
      BY <3>1
  <2> SUFFICES ASSUME Inv, Inv', Main \/ Environment PROVE Step
    BY DEF Next
  <2>1. StepsLeft \in Nat /\ StepsLeft' \in Nat
    BY <2>0, StepsLeftTypes
  <2>2. CASE Main
    BY <2>1, <2>2, MainAdvances
  <2>3. CASE ~Main
    <3>1. UNCHANGED <<main, cfg, next, attempt>>
      BY <2>3 DEF Environment, Listen, Request, RequestTimeout, Answer, Signal,
                  Deadline, Drained, Win, LeaseExpires, retry
    <3>2. StepsLeft' = StepsLeft
      BY <3>1 DEF StepsLeft, StartsLeft, MaxAttempts
    <3> QED
      BY <2>1, <2>3, <3>2
  <2> QED
    BY <2>2, <2>3
<1> QED
  BY <1>1, InvHolds, PTL DEF Spec, EveryStepAdvances
=============================================================================
