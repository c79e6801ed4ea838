----------------------------- MODULE EventQueue -----------------------------
(***************************************************************************)
(* What pkg/collector/buffer.go promises to its callers, with no lock, no  *)
(* goroutine and no channel: a bounded first-in first-out queue that never *)
(* makes a producer wait.  A Push that finds the queue full loses its      *)
(* event and counts the loss; after Close nothing more is accepted, and    *)
(* what was accepted before is still handed out.                           *)
(*                                                                         *)
(* The queue's content is not a variable: it is what has been accepted and *)
(* not yet taken.                                                          *)
(***************************************************************************)
EXTENDS Naturals, Sequences

CONSTANTS Events,   \* the security events a producer may push
          Slots     \* the number of events the queue holds, at least one

VARIABLES accepted, \* every event the queue has accepted, oldest first
          taken,    \* every event handed to a worker, oldest first
          lost,     \* how many events met a full queue
          closed    \* nothing is accepted any more

vars == <<accepted, taken, lost, closed>>

Pending == Len(accepted) - Len(taken)

Init == accepted = <<>> /\ taken = <<>> /\ lost = 0 /\ closed = FALSE

Accept == /\ ~closed
          /\ Pending < Slots
          /\ \E e \in Events : accepted' = Append(accepted, e)
          /\ UNCHANGED <<taken, lost, closed>>

Lose == /\ ~closed
        /\ Pending = Slots
        /\ lost' = lost + 1
        /\ UNCHANGED <<accepted, taken, closed>>

Take == /\ Pending > 0
        /\ taken' = Append(taken, accepted[Len(taken) + 1])
        /\ UNCHANGED <<accepted, lost, closed>>

Close == /\ ~closed
         /\ closed' = TRUE
         /\ UNCHANGED <<accepted, taken, lost>>

Next == Accept \/ Lose \/ Take \/ Close

Safety == Init /\ [][Next]_vars

(* A queue somebody closes is drained: workers take while there is work.   *)
Spec == Safety /\ WF_vars(Take)
=============================================================================
