------------------------ MODULE CircuitBreakerProofs ------------------------
(***************************************************************************)
(* Proofs about the circuit breaker, for any number of callers and any     *)
(* thresholds.                                                             *)
(***************************************************************************)
EXTENDS CircuitBreaker, TLAPS

\* The successes a probing circuit counts were reported since the last failure.
ProbesAreCounted ==
    /\ streak <= halfOpenSuccesses
    /\ state = "halfOpen" => consecutiveSuccess <= streak

\* The failures a closed circuit counts were reported since the last success.
FailuresAreCounted ==
    /\ slump <= failureThreshold
    /\ state = "closed" => consecutiveFailures <= slump

Inv == TypeOK /\ CountersMatchState /\ ProbesAreCounted /\ FailuresAreCounted

\* newCircuitBreaker establishes Inv.
LEMMA InitInv == Init => Inv
<1> SUFFICES ASSUME Init PROVE Inv
  OBVIOUS
<1>1. TypeOK
  <2>1. consecutiveFailures \in 0..FailureCap
    BY BreakerAssumption DEF Init
  <2>2. cooled \in BOOLEAN /\ healthy \in BOOLEAN
    BY DEF Init
  <2> QED
    BY <2>1, <2>2 DEF Init, TypeOK
<1>2. CountersMatchState /\ ProbesAreCounted /\ FailuresAreCounted
  BY BreakerAssumption DEF Init, CountersMatchState,
         ProbesAreCounted, FailuresAreCounted
<1> QED
  BY <1>1, <1>2 DEF Inv

\* Allow, when it admits a call, keeps Inv.
LEMMA CallKeepsInv ==
    ASSUME Inv, NEW c \in Callers, Call(c)
    PROVE  Inv'
<1>1. result' \in [Callers -> {"none", "ok", "err"}]
  BY DEF Call, Inv, TypeOK
<1>2. CASE state # "open" /\ UNCHANGED breaker
  BY <1>1, <1>2
     DEF Call, Inv, TypeOK, CountersMatchState,
         ProbesAreCounted, FailuresAreCounted, breaker
<1>3. CASE state = "open" /\ state' = "halfOpen"
  BY <1>1, <1>3, BreakerAssumption
     DEF Call, Allow, Inv, TypeOK, CountersMatchState,
         ProbesAreCounted, FailuresAreCounted, breaker
<1> QED
  BY <1>2, <1>3 DEF Call, Allow

\* Success, reported in any state, keeps Inv.
LEMMA ReportSuccessKeepsInv ==
    ASSUME Inv, NEW c \in Callers, ReportSuccess(c)
    PROVE  Inv'
<1>1. result' \in [Callers -> {"none", "ok", "err"}]
  BY DEF ReportSuccess, Inv, TypeOK
<1>2. CASE state = "halfOpen"
  BY <1>1, <1>2, BreakerAssumption
     DEF ReportSuccess, Success, Inv, TypeOK, CountersMatchState,
         ProbesAreCounted, FailuresAreCounted, breaker
<1>3. CASE state # "halfOpen"
  BY <1>1, <1>3, BreakerAssumption
     DEF ReportSuccess, Success, Inv, TypeOK, CountersMatchState,
         ProbesAreCounted, FailuresAreCounted, breaker
<1> QED
  BY <1>2, <1>3

\* Failure, reported in any state, keeps Inv.
LEMMA ReportFailureKeepsInv ==
    ASSUME Inv, NEW c \in Callers, ReportFailure(c)
    PROVE  Inv'
<1>1. result' \in [Callers -> {"none", "ok", "err"}]
  BY DEF ReportFailure, Inv, TypeOK
<1>2. consecutiveFailures' \in 0..FailureCap
  BY BreakerAssumption DEF ReportFailure, Failure, Inv, TypeOK
<1>3. slump' \in Nat /\ slump' <= failureThreshold
  BY BreakerAssumption DEF ReportFailure, Inv, TypeOK, FailuresAreCounted
<1>4. CASE consecutiveFailures + 1 >= failureThreshold \/ state = "halfOpen"
  <2>1. /\ state' = "open" /\ healthy' = healthy
        /\ consecutiveSuccess' = 0 /\ streak' = 0
    BY <1>4 DEF ReportFailure, Failure
  <2>2. cooled' \in BOOLEAN
    BY <1>4 DEF ReportFailure, Failure
  <2>3. TypeOK'
    BY <1>1, <1>2, <1>3, <2>1, <2>2 DEF Inv, TypeOK
  <2>4. CountersMatchState' /\ ProbesAreCounted' /\ FailuresAreCounted'
    BY <1>3, <2>1, BreakerAssumption
       DEF CountersMatchState, ProbesAreCounted, FailuresAreCounted
  <2> QED
    BY <2>3, <2>4 DEF Inv
<1>5. CASE ~(consecutiveFailures + 1 >= failureThreshold \/ state = "halfOpen")
  <2>1. UNCHANGED <<state, cooled, healthy>> /\ consecutiveSuccess' = 0 /\ streak' = 0
    BY <1>5 DEF ReportFailure, Failure
  <2>2. TypeOK'
    BY <1>1, <1>2, <1>3, <2>1 DEF Inv, TypeOK
  <2>3. CountersMatchState' /\ ProbesAreCounted'
    BY <1>5, <2>1, BreakerAssumption
       DEF ReportFailure, Failure, Inv, TypeOK, CountersMatchState,
           ProbesAreCounted
  <2>4. FailuresAreCounted'
    BY <1>3, <1>5, <2>1, BreakerAssumption
       DEF ReportFailure, Failure, Inv, TypeOK, FailuresAreCounted
  <2> QED
    BY <2>2, <2>3, <2>4 DEF Inv
<1> QED
  BY <1>4, <1>5

\* Every step of the breaker and its callers keeps Inv.
LEMMA NextInv == Inv /\ [Next]_vars => Inv'
<1> SUFFICES ASSUME Inv, [Next]_vars PROVE Inv'
  OBVIOUS
<1>1. ASSUME NEW c \in Callers, CallerStep(c) PROVE Inv'
  BY <1>1, CallKeepsInv, ReportSuccessKeepsInv, ReportFailureKeepsInv
     DEF CallerStep
<1>2. CASE CoolDown
  BY <1>2 DEF CoolDown, Inv, TypeOK, CountersMatchState,
         ProbesAreCounted, FailuresAreCounted
<1>3. CASE HealthChange
  BY <1>3
     DEF HealthChange, Inv, TypeOK, CountersMatchState,
         ProbesAreCounted, FailuresAreCounted, breaker
<1>4. CASE UNCHANGED vars
  BY <1>4
     DEF Inv, TypeOK, CountersMatchState,
         ProbesAreCounted, FailuresAreCounted, vars, breaker
<1> QED
  BY <1>1, <1>2, <1>3, <1>4 DEF Next

\* The type invariant, the counters and the probes, together inductive.
THEOREM InvHolds == Spec => []Inv
  BY InitInv, NextInv, PTL DEF Spec

\* Type correctness of breaker and callers.
THEOREM TypesHold == Spec => []TypeOK
<1>1. Inv => TypeOK
  BY DEF Inv
<1> QED
  BY <1>1, InvHolds, PTL

\* The counters of the breaker match its state, for any thresholds and whatever
\* late results of earlier states are reported to it.
THEOREM CountersAlwaysMatch == Spec => []CountersMatchState
<1>1. Inv => CountersMatchState
  BY DEF Inv
<1> QED
  BY <1>1, InvHolds, PTL

\* The circuit closes only on the last of halfOpenSuccesses successes in a row, and
\* opens, when closed, only on the last of failureThreshold failures in a row.
THEOREM MovingIsEarned == Spec => MovesAreEarned
<1>1. ASSUME Inv, Next, state # "closed", state' = "closed"
      PROVE  state = "halfOpen" /\ streak' >= halfOpenSuccesses
  <2>1. PICK c \in Callers : ReportSuccess(c)
    BY <1>1
       DEF Next, CallerStep, Call, Allow, ReportFailure, Failure, CoolDown,
           HealthChange, breaker
  <2> QED
    BY <1>1, <2>1, BreakerAssumption
       DEF ReportSuccess, Success, Inv, TypeOK, ProbesAreCounted, breaker
<1>2. ASSUME Inv, Next, state = "closed", state' # "closed"
      PROVE  state' = "open" /\ slump' >= failureThreshold
  <2>1. PICK c \in Callers : ReportFailure(c)
    BY <1>2
       DEF Next, CallerStep, Call, Allow, ReportSuccess, Success, CoolDown,
           HealthChange, breaker
  <2> QED
    BY <1>2, <2>1, BreakerAssumption
       DEF ReportFailure, Failure, Inv, TypeOK, FailuresAreCounted
<1>3. Inv /\ [Next]_vars =>
        [/\ state # "closed" /\ state' = "closed" =>
              state = "halfOpen" /\ streak' >= halfOpenSuccesses
         /\ state = "closed" /\ state' # "closed" =>
              state' = "open" /\ slump' >= failureThreshold]_vars
  BY <1>1, <1>2 DEF vars
<1> QED
  BY <1>3, InvHolds, PTL DEF Spec, MovesAreEarned
=============================================================================
