---------------------------- MODULE ExecutorProofs ----------------------------
(***************************************************************************)
(* The safety of the containment executor for any number of workers, pods  *)
(* and attempts, whatever API server, cluster and resets do.               *)
(***************************************************************************)
EXTENDS Executor, TLAPS

(* The frame of every step: which variables travel together.               *)
USE DEF Goto, Spend, cluster, local, metrics

-----------------------------------------------------------------------------
(* Every variable keeps its type.                                          *)
LEMMA TypeStep == TypeOK /\ CallInv /\ [Next]_vars => TypeOK'
<1> SUFFICES ASSUME TypeOK, CallInv, [Next]_vars PROVE TypeOK'
  OBVIOUS
<1> USE StepsAssumption, BoundsAssumption DEF TypeOK
<1>1. ASSUME NEW w \in Workers, Reserve(w) PROVE TypeOK'
  BY <1>1 DEF Reserve
<1>2. ASSUME NEW w \in Workers, Proceed(w) PROVE TypeOK'
  <2>0. pc[w] # "idle" => target[w] \in Pods
    BY DEF CallInv
  <2>1. CASE PatchOK(w)          BY <2>0, <2>1 DEF PatchOK, Patched
  <2>2. CASE PatchAnswerLost(w)  BY <2>0, <2>2 DEF PatchAnswerLost, Retry, Patched, CallInv
  <2>3. CASE PatchTransient(w)   BY <2>3 DEF PatchTransient, Retry, CallInv
  <2>4. CASE PatchRefused(w)     BY <2>4 DEF PatchRefused
  <2>5. CASE Succeed(w)          BY <2>5 DEF Succeed
  <2>6. CASE Forget(w)           BY <2>6 DEF Forget
  <2>7. CASE Report(w)           BY <2>0, <2>7 DEF Report
  <2> QED  BY <1>2, <2>1, <2>2, <2>3, <2>4, <2>5, <2>6, <2>7 DEF Proceed
<1>3. ASSUME NEW r \in Resetters, Reset(r) PROVE TypeOK'
  BY <1>3 DEF Reset, StartReset, DeleteKey, EndReset
<1>4. CASE Cluster
  BY <1>4 DEF Cluster, DeletePod, RecreatePod, LiftQuarantine, ChangePod
<1>5. CASE UNCHANGED vars
  BY <1>5 DEF vars
<1> QED  BY <1>1, <1>2, <1>3, <1>4, <1>5 DEF Next, Rest

-----------------------------------------------------------------------------
(* A call has a target from its reservation to its return, and attempts    *)
(* left as long as it patches.                                             *)
LEMMA CallStep == TypeOK /\ CallInv /\ [Next]_vars => CallInv'
<1> SUFFICES ASSUME TypeOK, CallInv, [Next]_vars PROVE CallInv'
  OBVIOUS
<1> USE StepsAssumption, NoPodAssumption, RolesAssumption DEF TypeOK, CallInv
<1>1. ASSUME NEW w \in Workers, Reserve(w) PROVE CallInv'
  BY <1>1 DEF Reserve
<1>2. ASSUME NEW w \in Workers, Proceed(w) PROVE CallInv'
  <2>1. CASE PatchOK(w)          BY <2>1 DEF PatchOK
  <2>2. CASE PatchAnswerLost(w)  BY <2>2 DEF PatchAnswerLost, Retry
  <2>3. CASE PatchTransient(w)   BY <2>3 DEF PatchTransient, Retry
  <2>4. CASE PatchRefused(w)     BY <2>4 DEF PatchRefused
  <2>5. CASE Succeed(w)          BY <2>5 DEF Succeed
  <2>6. CASE Forget(w)           BY <2>6 DEF Forget
  <2>7. CASE Report(w)           BY <2>7 DEF Report
  <2> QED  BY <1>2, <2>1, <2>2, <2>3, <2>4, <2>5, <2>6, <2>7 DEF Proceed
<1>3. ASSUME NEW r \in Resetters, Reset(r) PROVE CallInv'
  BY <1>3 DEF Reset, StartReset, DeleteKey, EndReset
<1>4. CASE Cluster
  BY <1>4 DEF Cluster, DeletePod, RecreatePod, LiftQuarantine, ChangePod
<1>5. CASE UNCHANGED vars
  BY <1>5 DEF vars
<1> QED  BY <1>1, <1>2, <1>3, <1>4, <1>5 DEF Next, Rest

-----------------------------------------------------------------------------
(* Before the first reset every call holds the reservation of its target,  *)
(* alone: a second call finds it, and a failed one gives back its own.     *)
LEMMA ReservationStep ==
    TypeOK /\ IInv /\ [Next]_vars => (ReservedInv /\ OneCallPerPod)'
<1> DEFINE Reserved == ReservedInv /\ OneCallPerPod
<1> SUFFICES ASSUME TypeOK, IInv, [Next]_vars PROVE Reserved'
  OBVIOUS
<1> USE BoundsAssumption, RolesAssumption
        DEF TypeOK, IInv, CallInv, ReservedInv, OneCallPerPod, Holds
<1>1. ASSUME NEW w \in Workers, Reserve(w) PROVE Reserved'
  BY <1>1 DEF Reserve
<1>2. ASSUME NEW w \in Workers, Proceed(w) PROVE Reserved'
  <2>1. CASE PatchOK(w)          BY <2>1 DEF PatchOK
  <2>2. CASE PatchAnswerLost(w)  BY <2>2 DEF PatchAnswerLost, Retry
  <2>3. CASE PatchTransient(w)   BY <2>3 DEF PatchTransient, Retry
  <2>4. CASE PatchRefused(w)     BY <2>4 DEF PatchRefused
  <2>5. CASE Succeed(w)          BY <2>5 DEF Succeed
  <2>6. CASE Forget(w)           BY <2>6 DEF Forget
  <2>7. CASE Report(w)           BY <2>7 DEF Report
  <2> QED  BY <1>2, <2>1, <2>2, <2>3, <2>4, <2>5, <2>6, <2>7 DEF Proceed
<1>3. ASSUME NEW r \in Resetters, Reset(r) PROVE Reserved'
  BY <1>3 DEF Reset, StartReset, DeleteKey, EndReset
<1>4. CASE Cluster
  BY <1>4 DEF Cluster, DeletePod, RecreatePod, LiftQuarantine, ChangePod
<1>5. CASE UNCHANGED vars
  BY <1>5 DEF vars
<1> QED  BY <1>1, <1>2, <1>3, <1>4, <1>5 DEF Next, Rest

-----------------------------------------------------------------------------
(* What calls leave behind: a pod is labelled when a call succeeds, and    *)
(* only the cluster takes the label off; a call that fails gives back the  *)
(* reservation before it reports.                                          *)
LEMMA OutcomeStep ==
    TypeOK /\ IInv /\ [Next]_vars => (SuccessInv /\ CachedPodWasPatched /\ NoSilentFailure)'
<1> DEFINE Outcome == SuccessInv /\ CachedPodWasPatched /\ NoSilentFailure
<1> SUFFICES ASSUME TypeOK, IInv, [Next]_vars PROVE Outcome'
  OBVIOUS
<1> USE NoPodAssumption, RolesAssumption
        DEF TypeOK, IInv, CallInv, SuccessInv, CachedPodWasPatched, NoSilentFailure,
            Holders, Holds
<1>1. ASSUME NEW w \in Workers, Reserve(w) PROVE Outcome'
  BY <1>1 DEF Reserve
<1>2. ASSUME NEW w \in Workers, Proceed(w) PROVE Outcome'
  <2>1. CASE PatchOK(w)          BY <2>1 DEF PatchOK, Patched
  <2>2. CASE PatchAnswerLost(w)  BY <2>2 DEF PatchAnswerLost, Retry, Patched
  <2>3. CASE PatchTransient(w)   BY <2>3 DEF PatchTransient, Retry
  <2>4. CASE PatchRefused(w)     BY <2>4 DEF PatchRefused
  <2>5. CASE Succeed(w)          BY <2>5 DEF Succeed
  <2>6. CASE Forget(w)           BY <2>6 DEF Forget
  <2>7. CASE Report(w)           BY <2>7 DEF Report
  <2> QED  BY <1>2, <2>1, <2>2, <2>3, <2>4, <2>5, <2>6, <2>7 DEF Proceed
<1>3. ASSUME NEW r \in Resetters, Reset(r) PROVE Outcome'
  BY <1>3 DEF Reset, StartReset, DeleteKey, EndReset
<1>4. CASE Cluster
  BY <1>4 DEF Cluster, DeletePod, RecreatePod, LiftQuarantine, ChangePod
<1>5. CASE UNCHANGED vars
  BY <1>5 DEF vars
<1> QED  BY <1>1, <1>2, <1>3, <1>4, <1>5 DEF Next, Rest

-----------------------------------------------------------------------------
LEMMA InitInv == Init => IInv
BY StepsAssumption, BoundsAssumption, NoPodAssumption, RolesAssumption
   DEF Init, IInv, TypeOK, CallInv, ReservedInv, SuccessInv, OneCallPerPod,
       CachedPodWasPatched, NoSilentFailure, Holders, Holds

LEMMA InvariantHolds == Spec => []IInv
<1>1. IInv /\ [Next]_vars => IInv'
  BY TypeStep, CallStep, ReservationStep, OutcomeStep DEF IInv
<1> QED  BY InitInv, <1>1, PTL DEF Spec

(* Every variable of the executor keeps to its type.                       *)
THEOREM TypeCorrect == Spec => []TypeOK
<1>1. IInv => TypeOK  BY DEF IInv
<1> QED  BY <1>1, InvariantHolds, PTL

(* Until the cache is reset, which the agent never does, no two calls of   *)
(* Quarantine are about the same pod between reservation and return.       *)
THEOREM OneCall == Spec => []OneCallPerPod
<1>1. IInv => OneCallPerPod  BY DEF IInv
<1> QED  BY <1>1, InvariantHolds, PTL

(* The cache never keeps a pod that was not contained, whatever failed,    *)
(* and even when it is reset under the calls that are patching.            *)
THEOREM CacheIsTrue == Spec => []CachedPodWasPatched
<1>1. IInv => CachedPodWasPatched  BY DEF IInv
<1> QED  BY <1>1, InvariantHolds, PTL

(* No request to contain a pod is lost without an error to some caller.    *)
THEOREM FailuresAreReported == Spec => []NoSilentFailure
<1>1. IInv => NoSilentFailure  BY DEF IInv
<1> QED  BY <1>1, InvariantHolds, PTL

-----------------------------------------------------------------------------
(* The refinement.  Whatever a step does, it does to one pod at most, and  *)
(* a claim moves as the registry allows.  MovesOne names that pod.         *)
MovesOne(pod) ==
    /\ \A p \in Pods \ {pod} : Claimed'[p] = Claimed[p]
    /\ \/ Claimed'[pod] = Claimed[pod]
       \/ Claimed[pod] = "free" /\ Claimed'[pod] = "busy"
       \/ Claimed[pod] = "busy" /\ Claimed'[pod] \in {"contained", "free"}
       \/ Resetting /\ Claimed[pod] = "contained" /\ Claimed'[pod] = "free"

LEMMA OneValueChanges ==
    ASSUME NEW S, NEW f, NEW g, f = [x \in S |-> f[x]], g = [x \in S |-> g[x]],
           NEW s \in S, \A x \in S \ {s} : g[x] = f[x]
    PROVE  g = [f EXCEPT ![s] = g[s]]
OBVIOUS

LEMMA MoveIsRegistryStep ==
    ASSUME NEW pod \in Pods, MovesOne(pod), Resetting' = Resetting
    PROVE  Registry!Next \/ Claimed' = Claimed
<1>1. Claimed' = [Claimed EXCEPT ![pod] = Claimed'[pod]]
  <2>1. Claimed = [p \in Pods |-> Claimed[p]] /\ Claimed' = [p \in Pods |-> Claimed'[p]]
    BY DEF Claimed
  <2>2. \A p \in Pods \ {pod} : Claimed'[p] = Claimed[p]
    BY DEF MovesOne
  <2> QED  BY <2>1, <2>2, OneValueChanges
<1> USE DEF Registry!Next, Registry!Move
<1>2. CASE Claimed'[pod] = Claimed[pod]
  BY <1>1, <1>2 DEF Claimed
<1>3. CASE Claimed[pod] = "free" /\ Claimed'[pod] = "busy"
  BY <1>1, <1>3 DEF Registry!Claim
<1>4. CASE Claimed[pod] = "busy" /\ Claimed'[pod] = "contained"
  BY <1>1, <1>4 DEF Registry!Confirm
<1>5. CASE Claimed[pod] = "busy" /\ Claimed'[pod] = "free"
  BY <1>1, <1>5 DEF Registry!Abandon
<1>6. CASE Resetting /\ Claimed[pod] = "contained" /\ Claimed'[pod] = "free"
  BY <1>1, <1>6 DEF Registry!Release
<1> QED  BY <1>2, <1>3, <1>4, <1>5, <1>6 DEF MovesOne

LEMMA ResettersAreThemselves ==
    ASSUME TypeOK, NEW g \in Workers, NEW to, Resetters \cap Workers = {},
           pc' = [pc EXCEPT ![g] = to]
    PROVE  Resetting' = Resetting
BY DEF Resetting, TypeOK

LEMMA WorkerClaimStep ==
    ASSUME IInv, NEW w \in Workers, Reserve(w) \/ Proceed(w)
    PROVE  Resetting' = Resetting /\ (Registry!Next \/ Claimed' = Claimed)
<1> USE NoPodAssumption DEF IInv, TypeOK, CallInv
<1>1. Resetting' = Resetting
  <2>1. \/ pc' = pc
        \/ \E to \in {"idle", "patch", "succeed", "fail", "report"} : pc' = [pc EXCEPT ![w] = to]
    BY DEF Reserve, Proceed, PatchOK, PatchAnswerLost, PatchTransient, PatchRefused, Retry,
           Succeed, Forget, Report, local
  <2> QED  BY <2>1, RolesAssumption, ResettersAreThemselves DEF Resetting
<1>2. CASE Reserve(w)
  <2>1. PICK pod \in Pods : Reserve(w)!(pod)
    BY <1>2 DEF Reserve
  <2>2. CASE pod \in quarantined
    BY <1>1, <2>1, <2>2 DEF Claimed, Holders, Holds
  <2>3. CASE pod \notin quarantined
    <3>1. Claimed[pod] = "free" /\ Claimed'[pod] = "busy"
      BY <2>1, <2>3 DEF Claimed, Holders, Holds
    <3>2. \A p \in Pods \ {pod} : Claimed'[p] = Claimed[p]
      BY <2>1, <2>3 DEF Claimed, Holders, Holds
    <3> QED  BY <1>1, <3>1, <3>2, MoveIsRegistryStep DEF MovesOne
  <2> QED  BY <2>2, <2>3
<1>3. CASE Proceed(w)
  <2> DEFINE pod == target[w]
  <2>1. pod \in Pods
    BY <1>3 DEF Proceed, PatchOK, PatchAnswerLost, PatchTransient, PatchRefused, Retry,
                Succeed, Forget, Report, Goto
  <2>2. CASE PatchOK(w)
    <3>1. pod \in quarantined => Claimed[pod] = "busy"
      BY <2>1, <2>2 DEF PatchOK, Claimed, Holders, Holds
    <3>2. Claimed'[pod] \in {Claimed[pod], "contained"}
      BY <2>1, <2>2, <3>1 DEF PatchOK, Claimed, Holders, Holds
    <3>3. Claimed'[pod] = "contained" => pod \in quarantined
      BY <2>1, <2>2 DEF PatchOK, Claimed
    <3>4. \A p \in Pods \ {pod} : Claimed'[p] = Claimed[p]
      BY <2>1, <2>2 DEF PatchOK, Claimed, Holders, Holds
    <3> QED  BY <1>1, <2>1, <3>1, <3>2, <3>3, <3>4, MoveIsRegistryStep DEF MovesOne
  <2>3. CASE PatchAnswerLost(w) \/ PatchTransient(w) \/ PatchRefused(w)
    BY <1>1, <2>1, <2>3 DEF PatchAnswerLost, PatchTransient, PatchRefused, Retry, Claimed,
                            Holders, Holds
  <2>4. CASE Succeed(w)
    BY <1>1, <2>1, <2>4 DEF Succeed, Claimed, Holders, Holds
  <2>5. CASE Forget(w)
    <3>1. Claimed[pod] \in {"free", "busy"} /\ Claimed'[pod] = "free"
      BY <2>1, <2>5 DEF Forget, Claimed, Holders, Holds
    <3>2. \A p \in Pods \ {pod} : Claimed'[p] = Claimed[p]
      BY <2>1, <2>5 DEF Forget, Claimed, Holders, Holds
    <3> QED  BY <1>1, <2>1, <3>1, <3>2, MoveIsRegistryStep DEF MovesOne
  <2>6. CASE Report(w)
    BY <1>1, <2>6 DEF Report, Claimed, Holders, Holds
  <2> QED  BY <1>1, <1>3, <2>2, <2>3, <2>4, <2>5, <2>6 DEF Proceed
<1> QED  BY <1>1, <1>2, <1>3

LEMMA ClaimStep == ASSUME IInv, [Next]_vars PROVE [Registry!Next]_(Registry!claims)
<1> USE DEF Registry!claims, IInv, TypeOK, CallInv
<1>1. ASSUME NEW w \in Workers, Reserve(w) \/ Proceed(w) PROVE [Registry!Next]_(Registry!claims)
  BY <1>1, WorkerClaimStep
<1>2. ASSUME NEW r \in Resetters, StartReset(r) \/ EndReset(r)
      PROVE  [Registry!Next]_(Registry!claims)
  <2>1. Claimed' = Claimed
    BY <1>2, RolesAssumption DEF StartReset, EndReset, Claimed, Holders, Holds
  <2>2. Resetting' \in BOOLEAN
    BY DEF Resetting
  <2> QED  BY <2>1, <2>2 DEF Registry!Next, Registry!Reset
<1>3. ASSUME NEW r \in Resetters, DeleteKey(r) PROVE [Registry!Next]_(Registry!claims)
  <2>1. PICK pod \in toDelete[r] : quarantined' = quarantined \ {pod}
    BY <1>3 DEF DeleteKey
  <2>2. pod \in Pods
    BY <2>1
  <2>3. Resetting /\ Resetting' = Resetting
    BY <1>3 DEF DeleteKey, Resetting
  <2>4. Claimed'[pod] = "free" /\ \A p \in Pods \ {pod} : Claimed'[p] = Claimed[p]
    BY <1>3, <2>1, <2>2 DEF DeleteKey, Claimed, Holders, Holds
  <2>5. Claimed[pod] \in {"free", "busy", "contained"}
    BY <2>2 DEF Claimed
  <2> QED  BY <2>2, <2>3, <2>4, <2>5, MoveIsRegistryStep DEF MovesOne
<1>4. CASE Cluster
  BY <1>4 DEF Cluster, DeletePod, RecreatePod, LiftQuarantine, ChangePod, Claimed, Holders,
              Holds, Resetting
<1>5. CASE UNCHANGED vars
  BY <1>5 DEF vars, Claimed, Holders, Holds, Resetting
<1> QED  BY <1>1, <1>2, <1>3, <1>4, <1>5 DEF Next, Reset, Rest

(* The executor is a registry of claims, also when the cache is reset      *)
(* under running calls: it starts as one, and each of its steps is a       *)
(* claim, its confirmation, its abandonment, or a release by a reset that  *)
(* is under way, or changes nothing.                                       *)
THEOREM ImplementsRegistry == Spec => Registry!Safety
<1>1. Init => Registry!Init
  BY RolesAssumption DEF Init, Registry!Init, Claimed, Resetting
<1>2. IInv /\ [Next]_vars => [Registry!Next]_(Registry!claims)
  BY ClaimStep
<1> QED  BY <1>1, <1>2, InvariantHolds, PTL DEF Spec, Registry!Safety
=============================================================================
