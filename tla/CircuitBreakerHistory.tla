------------------------ MODULE CircuitBreakerHistory ------------------------
(***************************************************************************)
(* CircuitBreaker with two history variables, to state what the docstring  *)
(* of circuit_breaker.py says of the breaker in terms of what callers see  *)
(* rather than of what the breaker records.  Both statements are violated. *)
(***************************************************************************)
EXTENDS CircuitBreaker, FiniteSets

VARIABLES
    strikes,  \* consecutive answers of a model that failed, in a call or in a stream
    probes    \* requests whose call in flight was let through an open circuit

hvars == <<vars, strikes, probes>>

HInit ==
    /\ Init
    /\ strikes = [m \in Models |-> 0]
    /\ probes = {}

Called(r) == chain[r][pos[r]]

\* A call that begins in this step, on a circuit that is open.
BecomesProbe(r) ==
    /\ pc'[r] = "calling"
    /\ <<pc[r], pos[r]>> # <<pc'[r], pos'[r]>>
    /\ circuits'[chain'[r][pos'[r]]].is_open

StaysProbe(r) == r \in probes /\ UNCHANGED <<pc[r], pos[r]>>

Answered(r) ==
    /\ CallSucceeds(r) \/ StreamEnds(r)
    /\ strikes' = [strikes EXCEPT ![Called(r)] = 0]

Failed(r) ==
    /\ CallFails(r) \/ StreamBreaks(r)
    /\ strikes' = [strikes EXCEPT ![Called(r)] = IF @ < MaxFailures THEN @ + 1 ELSE @]

HNext ==
    /\ \/ (Tick \/ \E r \in Requests : Begin(r)) /\ UNCHANGED strikes
       \/ \E r \in Requests : Answered(r) \/ Failed(r)
    /\ probes' = {r \in Requests : BecomesProbe(r) \/ StaysProbe(r)}

HSpec == HInit /\ [][HNext]_hvars

-----------------------------------------------------------------------------
\* circuit_breaker.py:38, "HALF-OPEN: after cooldown, allow one request to test
\* recovery": no two calls let through the same open circuit are in flight
\* together.  Violated: is_available only compares times, so every request that
\* arrives after the cooldown is let through until one of them settles.
HalfOpenAdmitsOne ==
    \A m \in Models : Cardinality({r \in probes : Called(r) = m}) <= 1

\* circuit_breaker.py:4-5, "After N consecutive failures, opens the circuit for
\* a cooldown period": a model whose last max_failures answers all failed has
\* an open circuit.  Violated by streaming calls: their success is recorded when
\* the generator is created and their failures never are.
ConsecutiveFailuresOpen ==
    \A m \in Models : strikes[m] = MaxFailures => circuits[m].is_open

=============================================================================
