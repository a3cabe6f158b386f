----------------------- MODULE MCCircuitBreakerHistory -----------------------
(* CircuitBreakerHistory on one model without fallback.                     *)
EXTENDS CircuitBreakerHistory

CONSTANT deepseek

MCModels == {deepseek}
MCChains == {<<deepseek>>}

=============================================================================
