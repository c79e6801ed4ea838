----------------------------- MODULE MCExecutor -----------------------------
(* A small instance of Executor: two workers, two pods and one resetter.   *)
(* Liveness is among the properties, hence no symmetry.                    *)
EXTENDS Executor
=============================================================================
