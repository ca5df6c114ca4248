-------------------------- MODULE MCCircuitBreaker --------------------------
(* Model-checking instances of CircuitBreaker: three callers, so that one  *)
(* call can probe while stragglers of the closed breaker are in flight.    *)
EXTENDS CircuitBreakerTrips

CONSTANTS c1, c2, c3

MCCalls == {c1, c2, c3}
=============================================================================
