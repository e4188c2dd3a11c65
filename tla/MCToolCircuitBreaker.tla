------------------------ MODULE MCToolCircuitBreaker ------------------------
(* Small instances of ToolCircuitBreaker: a threshold of two failures and up  *)
(* to three overlapping callers, so that calls admitted before the circuit    *)
(* opened report while it is open, half-open or closed again.                 *)
EXTENDS ToolCircuitBreaker

CONSTANTS c1, c2, c3
=============================================================================
