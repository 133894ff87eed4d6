--------------------------- MODULE CircuitBreaker ---------------------------
(***************************************************************************)
(* The circuit breaker of internal/core/app.go and the concurrent calls it *)
(* guards (busPublish, storeAppendEventExactlyOnce and the other wrappers, *)
(* and the readiness probes of handleHealth).                              *)
(*                                                                         *)
(* A call asks Allow(), runs unguarded, and reports Success() or Failure() *)
(* later, when the breaker may be in another state than the one that       *)
(* admitted the call.  The methods hold the mutex, so each is one step.    *)
(*                                                                         *)
(* time.Since(openedAt) >= openDuration is kept as a flag (cooled) that    *)
(* every opening clears and the passing of time sets.                      *)
(***************************************************************************)
EXTENDS Integers

CONSTANTS
    Callers,             \* goroutines that call the guarded dependency
    failureThreshold,
    halfOpenSuccesses,
    FailureCap           \* bound: where consecutiveFailures stops counting

ASSUME BreakerAssumption ==
    /\ failureThreshold \in Nat \ {0}
    /\ halfOpenSuccesses \in Nat \ {0}
    /\ FailureCap \in Nat
    /\ FailureCap >= failureThreshold

VARIABLES
    state,                \* breakerClosed, breakerOpen or breakerHalfOpen
    consecutiveFailures,
    consecutiveSuccess,
    cooled,               \* openDuration has passed since openedAt
    result,               \* per caller: outcome of its call, not yet reported
    healthy,              \* calls succeed: the dependency answers, and no
                          \* caller's context is done before it does
    streak,               \* history: successes reported since the last failure,
                          \* up to halfOpenSuccesses
    slump                 \* history: failures reported since the last success,
                          \* up to failureThreshold

breaker == <<state, consecutiveFailures, consecutiveSuccess, cooled>>
vars == <<breaker, result, healthy, streak, slump>>

TypeOK ==
    /\ state \in {"closed", "open", "halfOpen"}
    /\ consecutiveFailures \in 0..FailureCap
    /\ consecutiveSuccess \in Nat
    /\ cooled \in BOOLEAN
    /\ result \in [Callers -> {"none", "ok", "err"}]
    /\ healthy \in BOOLEAN
    /\ streak \in Nat
    /\ slump \in Nat

\* newCircuitBreaker
Init ==
    /\ state = "closed"
    /\ consecutiveFailures = 0
    /\ consecutiveSuccess = 0
    /\ cooled = FALSE
    /\ result = [c \in Callers |-> "none"]
    /\ healthy = TRUE
    /\ streak = 0
    /\ slump = 0

-----------------------------------------------------------------------------
(* The methods of circuitBreaker.                                          *)

\* Mutant: an open circuit never probes.
AllowClosedOnly == state # "open" /\ UNCHANGED breaker

\* Allow() answers true.
Allow ==
    \/ state # "open" /\ UNCHANGED breaker
    \/ /\ state = "open"
       /\ cooled
       /\ state' = "halfOpen"
       /\ consecutiveSuccess' = 0
       /\ UNCHANGED <<consecutiveFailures, cooled>>

\* Mutant: a success takes back one failure instead of all.
SuccessDecrements ==
    \/ /\ state = "halfOpen"
       /\ IF consecutiveSuccess + 1 >= halfOpenSuccesses
          THEN /\ state' = "closed"
               /\ consecutiveFailures' = 0
               /\ consecutiveSuccess' = 0
          ELSE /\ consecutiveSuccess' = consecutiveSuccess + 1
               /\ UNCHANGED <<state, consecutiveFailures>>
       /\ UNCHANGED cooled
    \/ /\ state = "closed"
       /\ consecutiveFailures' = consecutiveFailures - 1
       /\ UNCHANGED <<state, consecutiveSuccess, cooled>>
    \/ state = "open" /\ UNCHANGED breaker

\* Mutant: any success closes the circuit, a late one of a call admitted before
\* the circuit opened included.
SuccessCloses ==
    /\ state' = "closed"
    /\ consecutiveFailures' = 0
    /\ consecutiveSuccess' = 0
    /\ UNCHANGED cooled

\* Mutant: a success leaves the failures of a closed circuit counted.
SuccessRemembers ==
    \/ /\ state = "halfOpen"
       /\ IF consecutiveSuccess + 1 >= halfOpenSuccesses
          THEN /\ state' = "closed"
               /\ consecutiveFailures' = 0
               /\ consecutiveSuccess' = 0
          ELSE /\ consecutiveSuccess' = consecutiveSuccess + 1
               /\ UNCHANGED <<state, consecutiveFailures>>
       /\ UNCHANGED cooled
    \/ state # "halfOpen" /\ UNCHANGED breaker

Success ==
    \/ /\ state = "halfOpen"
       /\ IF consecutiveSuccess + 1 >= halfOpenSuccesses
          THEN /\ state' = "closed"
               /\ consecutiveFailures' = 0
               /\ consecutiveSuccess' = 0
          ELSE /\ consecutiveSuccess' = consecutiveSuccess + 1
               /\ UNCHANGED <<state, consecutiveFailures>>
       /\ UNCHANGED cooled
    \/ /\ state = "closed"
       /\ consecutiveFailures' = 0
       /\ UNCHANGED <<state, consecutiveSuccess, cooled>>
    \/ state = "open" /\ UNCHANGED breaker

\* Mutant: the threshold is off by one.
FailureTooLate ==
    /\ consecutiveFailures' =
         IF consecutiveFailures < FailureCap THEN consecutiveFailures + 1
                                             ELSE FailureCap
    /\ consecutiveSuccess' = 0
    /\ IF \/ consecutiveFailures + 1 > failureThreshold
          \/ state = "halfOpen"
       THEN state' = "open" /\ cooled' = FALSE
       ELSE UNCHANGED <<state, cooled>>

Failure ==
    /\ consecutiveFailures' =
         IF consecutiveFailures < FailureCap THEN consecutiveFailures + 1
                                             ELSE FailureCap
    /\ consecutiveSuccess' = 0
    /\ IF \/ consecutiveFailures + 1 >= failureThreshold
          \/ state = "halfOpen"
       THEN state' = "open" /\ cooled' = FALSE
       ELSE UNCHANGED <<state, cooled>>

-----------------------------------------------------------------------------
(* The guarded calls.                                                      *)

\* An admitted call runs.  The wrappers count every error as a failure, that of a
\* client that went away too; at such times a call may still succeed.  A refused
\* call returns an error and changes nothing.
Call(c) ==
    /\ result[c] = "none"
    /\ Allow
    /\ \E r \in {"ok", "err"} :
         /\ healthy => r = "ok"
         /\ result' = [result EXCEPT ![c] = r]
    /\ UNCHANGED <<healthy, streak, slump>>

ReportSuccess(c) ==
    /\ result[c] = "ok"
    /\ Success
    /\ result' = [result EXCEPT ![c] = "none"]
    /\ streak' = IF streak < halfOpenSuccesses THEN streak + 1 ELSE streak
    /\ slump' = 0
    /\ UNCHANGED healthy

ReportFailure(c) ==
    /\ result[c] = "err"
    /\ Failure
    /\ result' = [result EXCEPT ![c] = "none"]
    /\ streak' = 0
    /\ slump' = IF slump < failureThreshold THEN slump + 1 ELSE slump
    /\ UNCHANGED healthy

\* openDuration passes without another failure.
CoolDown ==
    /\ state = "open" /\ ~cooled
    /\ cooled' = TRUE
    /\ UNCHANGED <<state, consecutiveFailures, consecutiveSuccess, result,
                   healthy, streak, slump>>

HealthChange ==
    /\ healthy' = ~healthy
    /\ UNCHANGED <<breaker, result, streak, slump>>

CallerStep(c) == Call(c) \/ ReportSuccess(c) \/ ReportFailure(c)

Next ==
    \/ \E c \in Callers : CallerStep(c)
    \/ CoolDown
    \/ HealthChange

Spec == Init /\ [][Next]_vars

\* Admitted calls return, callers keep calling and time passes.
FairSpec ==
    /\ Spec
    /\ \A c \in Callers : WF_vars(CallerStep(c))
    /\ WF_vars(CoolDown)

-----------------------------------------------------------------------------
\* A circuit that admits every call has not reached its threshold, and a
\* probing circuit has not seen enough successes to close, whatever late
\* results of earlier states it was told meanwhile.
CountersMatchState ==
    /\ state = "closed" => consecutiveFailures < failureThreshold
    /\ state = "halfOpen" => consecutiveSuccess < halfOpenSuccesses

\* The circuit changes its mind only on an unbroken run of reports.  It closes
\* only from the probing state, on a success that ends a run of halfOpenSuccesses
\* successes; and once closed it opens only on a failure that ends a run of
\* failureThreshold failures: those from before it closed, and those a success was
\* reported after, do not count against it.
MovesAreEarned ==
    [][/\ state # "closed" /\ state' = "closed" =>
            state = "halfOpen" /\ streak' >= halfOpenSuccesses
       /\ state = "closed" /\ state' # "closed" =>
            state' = "open" /\ slump' >= failureThreshold]_vars

\* A dependency is not shut out for ever: if from some moment on admitted calls
\* succeed, the circuit ends up closed, although late failures reopen it and restart the
\* open period.
Recovers == <>[]healthy => <>[](state = "closed")
=============================================================================
