--------------------------- MODULE OllamaBreaker ---------------------------
(***************************************************************************)
(* The circuit breaker that all requests of a process share before the     *)
(* local model, with the retries inside a call.  Calls overlap: the result *)
(* of a call may arrive in another state of the circuit than the one that  *)
(* admitted it.  utils/circuit_breaker.py, utils/retry.py, LocalOllamaLLM  *)
(* in agent/graph.py, the reset in api/routers/admin_ops.py.               *)
(***************************************************************************)
EXTENDS Naturals, FiniteSets

CONSTANTS
    Invokers,         \* threads that invoke the model
    FailureThreshold, \* circuit_breaker_failure_threshold
    ResetTimeout,     \* circuit_breaker_reset_timeout_sec, in steps of the clock
    MaxAttempts       \* ollama_retry_max_attempts

ASSUME BreakerAssumption ==
    /\ FailureThreshold \in Nat \ {0}
    /\ ResetTimeout \in Nat \ {0}
    /\ MaxAttempts \in Nat \ {0}

VARIABLES
    circuit,     \* _state
    failures,    \* _consecutive_failures, as far as it matters: up to the threshold
    openFor,     \* time since _opened_at, up to the timeout
    probing,     \* _half_open_in_flight
    admitted,    \* per thread: "no", "normal", "probe", or "late" once the circuit changed
    attempts,    \* per thread: attempts of the call under way
    serving,     \* the model answers
    probes       \* history: probes admitted since the circuit last became half open

breakerVars == <<circuit, failures, openFor, probing, admitted, attempts, serving, probes>>

BreakerInit ==
    /\ circuit = "closed"
    /\ failures = 0
    /\ openFor = 0
    /\ probing = FALSE
    /\ admitted = [c \in Invokers |-> "no"]
    /\ attempts = [c \in Invokers |-> 0]
    /\ serving = TRUE
    /\ probes = 0

\* Calls that were under way when the circuit opened.
Overtaken(c) == [d \in Invokers |-> IF d = c THEN "no"
                                    ELSE IF admitted[d] = "no" THEN "no" ELSE "late"]

Elapsed == circuit = "open" /\ openFor = ResetTimeout

\* Mutant: a call in the half open state does not claim the probe.
ClaimProbe_Forgotten == UNCHANGED probing

ClaimProbe == probing' = TRUE

\* CircuitBreaker.call up to fn: what is not admitted raises CircuitOpenError and
\* changes nothing.
Admit(c) ==
    /\ admitted[c] = "no"
    /\ attempts' = [attempts EXCEPT ![c] = 1]
    /\ \/ /\ circuit = "closed"
          /\ admitted' = [admitted EXCEPT ![c] = "normal"]
          /\ UNCHANGED <<circuit, probing, probes>>
       \/ /\ Elapsed \/ (circuit = "half_open" /\ ~probing)
          /\ circuit' = "half_open"
          /\ ClaimProbe
          /\ admitted' = [admitted EXCEPT ![c] = "probe"]
          /\ probes' = IF Elapsed THEN 1 ELSE probes + 1
    /\ UNCHANGED <<failures, openFor, serving>>

\* retry_with_backoff: a retryable error of an attempt that is not the last.
RetryCall(c) ==
    /\ admitted[c] # "no"
    /\ ~serving
    /\ attempts[c] < MaxAttempts
    /\ attempts' = [attempts EXCEPT ![c] = @ + 1]
    /\ UNCHANGED <<circuit, failures, openFor, probing, admitted, serving, probes>>

Trips == circuit = "half_open" \/ failures + 1 >= FailureThreshold

\* Mutant: an error that is not retryable leaves the breaker as it is.
RecordFailure_OnlyExhausted(c) ==
    /\ admitted[c] # "no"
    /\ ~serving
    /\ IF attempts[c] < MaxAttempts
       THEN /\ admitted' = [admitted EXCEPT ![c] = "no"]
            /\ UNCHANGED <<circuit, failures, openFor, probing>>
       ELSE /\ failures' = IF failures < FailureThreshold THEN failures + 1 ELSE failures
            /\ probing' = FALSE
            /\ circuit' = IF Trips THEN "open" ELSE circuit
            /\ openFor' = IF Trips THEN 0 ELSE openFor
            /\ admitted' = IF Trips THEN Overtaken(c) ELSE [admitted EXCEPT ![c] = "no"]
    /\ attempts' = [attempts EXCEPT ![c] = 0]
    /\ UNCHANGED <<serving, probes>>

\* _record_failure, for a call whose attempts are used up or whose error is not
\* retryable.  A failure in the open state starts the timeout anew.
RecordFailure(c) ==
    /\ admitted[c] # "no"
    /\ ~serving
    /\ failures' = IF failures < FailureThreshold THEN failures + 1 ELSE failures
    /\ probing' = FALSE
    /\ IF Trips
       THEN circuit' = "open" /\ openFor' = 0 /\ admitted' = Overtaken(c)
       ELSE /\ admitted' = [admitted EXCEPT ![c] = "no"]
            /\ UNCHANGED <<circuit, openFor>>
    /\ attempts' = [attempts EXCEPT ![c] = 0]
    /\ UNCHANGED <<serving, probes>>

\* _record_success closes the circuit whatever its state and whenever the call began.
RecordSuccess(c) ==
    /\ admitted[c] # "no"
    /\ serving
    /\ failures' = 0
    /\ circuit' = "closed"
    /\ openFor' = 0
    /\ probing' = FALSE
    /\ admitted' = [d \in Invokers |->
           IF d = c THEN "no"
           ELSE IF circuit # "closed" /\ admitted[d] # "no" THEN "late" ELSE admitted[d]]
    /\ attempts' = [attempts EXCEPT ![c] = 0]
    /\ UNCHANGED <<serving, probes>>

\* POST /admin/circuit-breaker/reset
ResetCircuit ==
    /\ circuit # "closed"
    /\ circuit' = "closed"
    /\ failures' = 0
    /\ openFor' = 0
    /\ probing' = FALSE
    /\ admitted' = [d \in Invokers |-> IF admitted[d] = "no" THEN "no" ELSE "late"]
    /\ UNCHANGED <<attempts, serving, probes>>

ClockTick ==
    /\ circuit = "open"
    /\ openFor < ResetTimeout
    /\ openFor' = openFor + 1
    /\ UNCHANGED <<circuit, failures, probing, admitted, attempts, serving, probes>>

\* The model stops answering, or answers again.
FlipModel ==
    /\ serving' = ~serving
    /\ UNCHANGED <<circuit, failures, openFor, probing, admitted, attempts, probes>>

Settle(c) == RecordFailure(c) \/ RecordSuccess(c)

BreakerNext ==
    \/ \E c \in Invokers : Admit(c) \/ RetryCall(c) \/ Settle(c)
    \/ ResetCircuit \/ ClockTick \/ FlipModel

BreakerSpec == BreakerInit /\ [][BreakerNext]_breakerVars

\* Users keep asking, a call has a timeout and ends, and time passes.
BreakerFairness ==
    /\ \A c \in Invokers : WF_breakerVars(Admit(c)) /\ WF_breakerVars(Settle(c))
    /\ WF_breakerVars(ClockTick)

----------------------------------------------------------------------------
(* Properties *)

BreakerTypeOK ==
    /\ circuit \in {"closed", "open", "half_open"}
    /\ failures \in 0..FailureThreshold
    /\ openFor \in 0..ResetTimeout
    /\ probing \in BOOLEAN
    /\ admitted \in [Invokers -> {"no", "normal", "probe", "late"}]
    /\ attempts \in [Invokers -> 0..MaxAttempts]
    /\ serving \in BOOLEAN

\* One half open phase lets one probe through, however results of earlier calls fall
\* into it.
OneProbePerPhase == circuit = "half_open" => probes <= 1

\* The half open circuit that refuses everybody waits for a probe that is under way:
\* nothing can leave it refusing for ever.
RefusalAwaitsProbe ==
    circuit = "half_open" /\ probing => \E c \in Invokers : admitted[c] = "probe"

\* Once the model answers for good, the circuit closes and stays closed, without an
\* administrator.
CircuitRecovers == <>[]serving => <>[](circuit = "closed")

\* A half open circuit lets one probe through and waits for it (CircuitBreaker).
BreakerSafety ==
    /\ BreakerTypeOK
    /\ OneProbePerPhase
    /\ RefusalAwaitsProbe
=============================================================================
