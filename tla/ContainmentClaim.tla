-------------------------- MODULE ContainmentClaim --------------------------
(***************************************************************************)
(* What pkg/containment/executor.go promises about one agent's containment *)
(* of pods: whoever claims a pod first works on it, and the claim ends in  *)
(* the pod being recorded as contained or in the pod being free to be      *)
(* claimed again.  A pod recorded as contained is not claimed again unless *)
(* a reset that is under way has released it.                              *)
(***************************************************************************)
CONSTANT Pods \* the keys "namespace/podName"

VARIABLES claim,    \* for each pod: "free", "busy" or "contained"
          resetting \* some call of ResetCache is under way

claims == <<claim, resetting>>

Init == claim = [pod \in Pods |-> "free"] /\ resetting = FALSE

Move(pod, from, to) == /\ claim[pod] = from /\ claim' = [claim EXCEPT ![pod] = to]
                       /\ resetting' = resetting

Claim(pod)   == Move(pod, "free", "busy")
Confirm(pod) == Move(pod, "busy", "contained")
Abandon(pod) == Move(pod, "busy", "free")
Release(pod) == resetting /\ Move(pod, "contained", "free")

Reset == resetting' \in BOOLEAN /\ UNCHANGED claim

Next == \/ \E pod \in Pods : Claim(pod) \/ Confirm(pod) \/ Abandon(pod) \/ Release(pod)
        \/ Reset

Safety == Init /\ [][Next]_claims

(* Whoever claimed a pod does not keep it waiting for an answer.           *)
Spec == Safety /\ \A pod \in Pods : WF_claims(Confirm(pod) \/ Abandon(pod))
=============================================================================
