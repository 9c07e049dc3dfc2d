---------------------------- MODULE CircuitBreaker ----------------------------
(***************************************************************************)
(* python-common AsyncCircuitBreaker: the circuit and the bulkhead around  *)
(* every synchronous call of a service to one downstream.                  *)
(*                                                                         *)
(* No await inside _before_call, _on_success and _on_failure ever waits    *)
(* (the lock is only held between awaits), so a call is two steps: it is   *)
(* admitted, and its outcome is recorded.                                  *)
(***************************************************************************)
EXTENDS Integers, FiniteSets

CONSTANTS
  Callers,              \* calls that may be made at the same time
  FAILURE_THRESHOLD,
  BULKHEAD,             \* bulkhead_limit
  Outlive               \* a call may take longer than RESET_TIMEOUT_SECONDS

ASSUME BreakerConstants ==
  /\ FAILURE_THRESHOLD \in Nat \ {0}
  /\ BULKHEAD \in Nat \ {0}
  /\ Outlive \in BOOLEAN

VARIABLES
  circuit,      \* _state
  failures,     \* _consecutive_failures
  probe,        \* _probe_in_flight
  elapsed,      \* the reset window is over
  flight,       \* calls in flight
  recovered     \* the downstream has come back and stays up

breakerVars == <<circuit, failures, probe, elapsed, flight, recovered>>

BreakerInit ==
  /\ circuit = "closed"
  /\ failures = 0
  /\ probe = FALSE
  /\ elapsed = FALSE
  /\ flight = {}
  /\ recovered = FALSE

\* What _before_call lets through; anything else is a CircuitOpenError.
Admits ==
  \/ circuit = "closed"
  \/ circuit = "open" /\ elapsed
  \/ circuit = "half_open" /\ ~probe

\* call up to its first await: admission, then the bulkhead.  A call the
\* bulkhead turns away has already been counted as the probe.
Enter(c) ==
  /\ c \notin flight
  /\ Admits
  /\ circuit' = IF circuit = "closed" THEN circuit ELSE "half_open"
  /\ probe' = (circuit # "closed" \/ probe)
  /\ flight' = IF Cardinality(flight) >= BULKHEAD THEN flight ELSE flight \cup {c}
  /\ UNCHANGED <<failures, elapsed, recovered>>

\* Fault: a probe that succeeds leaves the circuit half open.
SuccessWaits(c) ==
  /\ c \in flight
  /\ flight' = flight \ {c}
  /\ failures' = 0
  /\ probe' = FALSE
  /\ UNCHANGED <<circuit, elapsed, recovered>>

\* _on_success: any success closes the circuit, whenever its call was made.
OnSuccess(c) ==
  /\ c \in flight
  /\ flight' = flight \ {c}
  /\ failures' = 0
  /\ probe' = FALSE
  /\ circuit' = "closed"
  /\ UNCHANGED <<elapsed, recovered>>

\* Fault: an answer that is no verdict leaves the probe marked in flight.
AnsweredKeepsProbe(c) ==
  /\ c \in flight
  /\ flight' = flight \ {c}
  /\ UNCHANGED <<circuit, failures, probe, elapsed, recovered>>

\* _on_failure with a 4xx: the downstream answered, nothing is concluded.
OnAnswered(c) ==
  /\ c \in flight
  /\ flight' = flight \ {c}
  /\ probe' = FALSE
  /\ UNCHANGED <<circuit, failures, elapsed, recovered>>

Opens == circuit = "half_open" \/ failures + 1 >= FAILURE_THRESHOLD

\* _on_failure with a 5xx, a timeout or no connection.
OnFailure(c) ==
  /\ c \in flight
  /\ ~recovered
  /\ flight' = flight \ {c}
  /\ circuit' = IF Opens THEN "open" ELSE circuit
  /\ elapsed' = (~Opens /\ elapsed)
  /\ failures' = CASE circuit = "half_open" -> failures
                   [] circuit # "half_open" /\ Opens -> 0
                   [] OTHER -> failures + 1
  /\ probe' = (circuit # "half_open" /\ probe)
  /\ UNCHANGED recovered

\* RESET_TIMEOUT_SECONDS pass.  Every call has an HTTP timeout that is a
\* fraction of that, so unless calls outlive the window none is left.
WindowElapses ==
  /\ circuit = "open" /\ ~elapsed
  /\ Outlive \/ flight = {}
  /\ elapsed' = TRUE
  /\ UNCHANGED <<circuit, failures, probe, flight, recovered>>

\* The downstream (external) is healthy from now on.
Recovers ==
  /\ ~recovered
  /\ recovered' = TRUE
  /\ UNCHANGED <<circuit, failures, probe, elapsed, flight>>

BreakerNext ==
  \/ \E c \in Callers : Enter(c) \/ OnSuccess(c) \/ OnAnswered(c) \/ OnFailure(c)
  \/ WindowElapses
  \/ Recovers

BreakerSpec == BreakerInit /\ [][BreakerNext]_breakerVars

\* Callers keep calling, calls return, time passes, and a healthy downstream
\* does not refuse every call.
BreakerFairSpec ==
  /\ BreakerSpec
  /\ WF_breakerVars(WindowElapses)
  /\ WF_breakerVars(\E c \in Callers : Enter(c))
  /\ \A c \in Callers : WF_breakerVars(OnSuccess(c) \/ OnAnswered(c) \/ OnFailure(c))
  /\ SF_breakerVars(recovered /\ \E c \in Callers : OnSuccess(c))

-----------------------------------------------------------------------------
(* Every variable keeps its type: the count stays below the threshold and   *)
(* no more calls are in flight than the bulkhead has room for.              *)
BreakerTypeOK ==
  /\ circuit \in {"closed", "open", "half_open"}
  /\ failures \in 0..FAILURE_THRESHOLD - 1
  /\ probe \in BOOLEAN /\ elapsed \in BOOLEAN /\ recovered \in BOOLEAN
  /\ flight \subseteq Callers /\ Cardinality(flight) <= BULKHEAD

(* "Then allow a single half-open probe": while the circuit is half open    *)
(* one call at most is on its way to the downstream, whatever the order in  *)
(* which earlier calls failed, were answered or succeeded.                  *)
SingleProbe == circuit = "half_open" => Cardinality(flight) <= 1

(* A half-open circuit never waits for a probe that does not exist: if it   *)
(* turns calls away, one is in flight whose outcome will decide.            *)
ProbeIsReal == circuit = "half_open" /\ probe => flight # {}

(* A downstream that comes back is used again: the circuit closes, so what  *)
(* a caller shed while it was open is tried once more.                      *)
ClosesOnceHealthy == recovered ~> circuit = "closed"

(* "Stay open 30s": an open circuit is not closed before its window ends.   *)
StaysOpen == [][circuit = "open" /\ ~elapsed => circuit' = "open"]_breakerVars

(* A half-open circuit sends one probe and waits for it only while it is on  *)
(* its way; the count and the bulkhead keep their bounds (_before_call,      *)
(* _on_success, _on_failure).                                                *)
BreakerIsSound == BreakerTypeOK /\ SingleProbe /\ ProbeIsReal
=============================================================================
