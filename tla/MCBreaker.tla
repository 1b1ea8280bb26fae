------------------------------ MODULE MCBreaker ------------------------------
(* Small instances of the circuit breaker and its history for TLC.         *)
EXTENDS BreakerHistory


=============================================================================
