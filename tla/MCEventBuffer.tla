--------------------------- MODULE MCEventBuffer ---------------------------
(* A small instance of EventBuffer: two goroutines of each kind.  There is *)
(* no symmetry, because the run also checks liveness.                      *)
EXTENDS EventBuffer
=============================================================================
