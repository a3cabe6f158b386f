---------------------------- MODULE BreakerStates ----------------------------
(***************************************************************************)
(* What the circuit breaker of src/backend/app/agents/circuit_breaker.py   *)
(* promises, one model at a time: the three states of its class docstring  *)
(* and the only ways to move between them.  Requests, clocks and fallback  *)
(* chains are absent; CircuitBreaker implements this module.               *)
(*                                                                         *)
(* The docstring also promises that HALF-OPEN admits one request only.     *)
(* That promise is not part of this module: the code does not keep it (see *)
(* HalfOpenAdmitsOne in CircuitBreakerHistory).                            *)
(***************************************************************************)
EXTENDS Naturals

CONSTANTS
    Models,      \* the "provider:model" keys
    MaxFailures  \* consecutive failures that open a circuit

VARIABLES
    mode,    \* mode[m] \in {"closed", "open", "half_open"}
    strikes  \* consecutive failures since the last success, up to MaxFailures

states == <<mode, strikes>>

Init ==
    /\ mode = [m \in Models |-> "closed"]
    /\ strikes = [m \in Models |-> 0]

\* A success closes the circuit from whatever state it is in.
Succeed(m) ==
    /\ mode' = [mode EXCEPT ![m] = "closed"]
    /\ strikes' = [strikes EXCEPT ![m] = 0]

\* A failure below the threshold leaves the circuit closed.
Strike(m) ==
    /\ strikes[m] + 1 < MaxFailures
    /\ strikes' = [strikes EXCEPT ![m] = @ + 1]
    /\ UNCHANGED mode

\* The failure that reaches the threshold opens the circuit, and one more
\* failure of an open or half-open circuit opens it (again).
Trip(m) ==
    /\ strikes[m] + 1 >= MaxFailures
    /\ mode' = [mode EXCEPT ![m] = "open"]
    /\ strikes' = [strikes EXCEPT ![m] = MaxFailures]

\* Time alone takes open circuits to half-open, and takes no other one anywhere.
CoolDown(S) ==
    /\ \A m \in S : mode[m] = "open"
    /\ mode' = [m \in Models |-> IF m \in S THEN "half_open" ELSE mode[m]]
    /\ UNCHANGED strikes

Next ==
    \/ \E m \in Models : Succeed(m) \/ Strike(m) \/ Trip(m)
    \/ \E S \in SUBSET Models : CoolDown(S)

Spec == Init /\ [][Next]_states

=============================================================================
