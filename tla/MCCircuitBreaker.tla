--------------------------- MODULE MCCircuitBreaker ---------------------------
(* Three callers of one breaker. *)
EXTENDS CircuitBreaker
===============================================================================
