------------------------------- MODULE Executor -------------------------------
(***************************************************************************)
(* The containment executor of the agent, src/pkg/containment/executor.go, *)
(* called by the worker goroutines at once: Quarantine reserves the pod in *)
(* a sync.Map, patches the quarantine label with up to Steps attempts and  *)
(* gives the reservation back if all of them fail.                         *)
(*                                                                         *)
(* The Kubernetes API server answers as it may: the patch is applied, it   *)
(* is applied and the answer is lost, it is refused for a while (conflict, *)
(* throttling, network), the pod is not there, or the patch is invalid.    *)
(* Meanwhile the cluster goes on: pods are deleted, come back under the    *)
(* same name, and an operator lifts a quarantine by removing the label, as *)
(* workshop/INSTALL.md tells him to.                                       *)
(*                                                                         *)
(* Left out: the contents of the patch, the delays between attempts, and   *)
(* the cancelled context (main.go cancels it only after the workers left). *)
(***************************************************************************)
EXTENDS Integers, FiniteSets

CONSTANTS Workers,    \* goroutines that call Quarantine
          Resetters,  \* goroutines that call ResetCache (the tests; none in the agent)
          Pods,       \* pod keys "namespace/podName"
          NoPod,      \* no pod
          Steps,      \* backoff.Steps
          MaxCalls,   \* bound: calls of Quarantine
          MaxChanges, \* bound: changes the cluster makes by itself
          MaxResets   \* bound: calls of ResetCache

ASSUME StepsAssumption == Steps \in Nat \ {0}
ASSUME NoPodAssumption == NoPod \notin Pods
ASSUME BoundsAssumption == MaxCalls \in Nat /\ MaxChanges \in Nat /\ MaxResets \in Nat
ASSUME RolesAssumption == Workers \cap Resetters = {}

VARIABLES quarantined, \* e.quarantined: the keys stored in the sync.Map
          labelled,    \* pods that carry ztre/quarantine=true in the cluster
          running,     \* pods that exist in the cluster
          pc,          \* where each goroutine is
          target,      \* the pod each worker's call is about
          attempts,    \* attempts the worker's retry loop has left
          toDelete,    \* the keys each resetter's Range has still to visit
          actions,     \* the ContainmentActionsTotal metric
          apiErrors,   \* the ApiErrorsTotal metric
          asked,       \* history: pods some call was about
          reported,    \* history: pods for which a call returned an error
          disturbed,   \* history: pods the cluster changed since their last patch
          budget       \* what is left of each bound

cluster == <<labelled, running, disturbed>>
local   == <<pc, target, attempts, toDelete>>
metrics == <<actions, apiErrors>>
vars    == <<quarantined, labelled, running, pc, target, attempts, toDelete,
             actions, apiErrors, asked, reported, disturbed, budget>>

Init == /\ quarantined = {}
        /\ labelled = {} /\ running = Pods /\ disturbed = {}
        /\ pc = [g \in Workers \cup Resetters |-> "idle"]
        /\ target = [w \in Workers |-> NoPod]
        /\ attempts = [w \in Workers |-> 0]
        /\ toDelete = [r \in Resetters |-> {}]
        /\ actions = 0 /\ apiErrors = 0
        /\ asked = {} /\ reported = {}
        /\ budget = [calls |-> MaxCalls, changes |-> MaxChanges, resets |-> MaxResets]

Goto(g, from, to) == pc[g] = from /\ pc' = [pc EXCEPT ![g] = to]
Spend(what) == budget[what] > 0 /\ budget' = [budget EXCEPT ![what] = @ - 1]

-----------------------------------------------------------------------------
(* Quarantine.  A name with an underscore is a plausible slip in the       *)
(* definition that follows it; the properties are tried on it.             *)

(* LoadOrStore: the pod is reserved, or the call returns nil at once.      *)
Reserve_NotStored(w) == \E pod \in Pods :
    /\ Spend("calls")
    /\ asked' = asked \cup {pod}
    /\ pod \notin quarantined
    /\ Goto(w, "idle", "patch")
    /\ target' = [target EXCEPT ![w] = pod]
    /\ attempts' = [attempts EXCEPT ![w] = Steps]
    /\ UNCHANGED <<quarantined, toDelete, cluster, metrics, reported>>

Reserve(w) == \E pod \in Pods :
    /\ Spend("calls")
    /\ asked' = asked \cup {pod}
    /\ \/ /\ pod \in quarantined
          /\ pc[w] = "idle"
          /\ UNCHANGED <<quarantined, local>>
       \/ /\ pod \notin quarantined
          /\ Goto(w, "idle", "patch")
          /\ quarantined' = quarantined \cup {pod}
          /\ target' = [target EXCEPT ![w] = pod]
          /\ attempts' = [attempts EXCEPT ![w] = Steps]
          /\ UNCHANGED toDelete
    /\ UNCHANGED <<cluster, metrics, reported>>

(* The label reaches the pod, and what had happened to the pod before is   *)
(* made good.                                                              *)
Patched(pod) == /\ pod \in running
                /\ labelled' = labelled \cup {pod}
                /\ disturbed' = disturbed \ {pod}
                /\ UNCHANGED running

PatchOK(w) ==
    /\ Goto(w, "patch", "succeed")
    /\ Patched(target[w])
    /\ UNCHANGED <<quarantined, target, attempts, toDelete, metrics, asked, reported, budget>>

(* retry.OnError: another attempt while there are any left.                *)
Retry_OneTooMany(w) ==
    /\ Goto(w, "patch", IF attempts[w] >= 0 THEN "patch" ELSE "fail")
    /\ attempts' = [attempts EXCEPT ![w] = @ - 1]
    /\ UNCHANGED <<quarantined, target, toDelete, metrics, asked, reported, budget>>

Retry(w) ==
    /\ Goto(w, "patch", IF attempts[w] > 1 THEN "patch" ELSE "fail")
    /\ attempts' = [attempts EXCEPT ![w] = @ - 1]
    /\ UNCHANGED <<quarantined, target, toDelete, metrics, asked, reported, budget>>

PatchAnswerLost(w)  == Retry(w) /\ Patched(target[w])
PatchTransient(w)   == Retry(w) /\ UNCHANGED cluster

(* isRetryable is false of NotFound and Invalid: the loop ends.            *)
PatchRefused_Ignored(w) ==
    /\ Goto(w, "patch", "succeed")
    /\ UNCHANGED <<quarantined, cluster, target, attempts, toDelete, metrics, asked,
                   reported, budget>>

PatchRefused(w) == \* Invalid, or NotFound when the pod is not running
    /\ Goto(w, "patch", "fail")
    /\ UNCHANGED <<quarantined, cluster, target, attempts, toDelete, metrics, asked,
                   reported, budget>>

Succeed_Evicts(w) ==
    /\ Goto(w, "succeed", "idle")
    /\ actions' = actions + 1
    /\ quarantined' = quarantined \ {target[w]}
    /\ target' = [target EXCEPT ![w] = NoPod]
    /\ UNCHANGED <<cluster, attempts, toDelete, apiErrors, asked, reported, budget>>

Succeed(w) ==
    /\ Goto(w, "succeed", "idle")
    /\ actions' = actions + 1
    /\ target' = [target EXCEPT ![w] = NoPod]
    /\ UNCHANGED <<quarantined, cluster, attempts, toDelete, apiErrors, asked, reported,
                   budget>>

(* The error path deletes the reservation before it counts and returns.    *)
Forget_KeepsReservation(w) ==
    /\ Goto(w, "fail", "report")
    /\ UNCHANGED <<quarantined, cluster, target, attempts, toDelete, metrics, asked,
                   reported, budget>>

Forget(w) ==
    /\ Goto(w, "fail", "report")
    /\ quarantined' = quarantined \ {target[w]}
    /\ UNCHANGED <<cluster, target, attempts, toDelete, metrics, asked, reported, budget>>

Report(w) ==
    /\ Goto(w, "report", "idle")
    /\ apiErrors' = apiErrors + 1
    /\ reported' = reported \cup {target[w]}
    /\ target' = [target EXCEPT ![w] = NoPod]
    /\ UNCHANGED <<quarantined, cluster, attempts, toDelete, actions, asked, budget>>

Proceed(w) == \/ PatchOK(w) \/ PatchAnswerLost(w) \/ PatchTransient(w) \/ PatchRefused(w)
              \/ Succeed(w) \/ Forget(w) \/ Report(w)

-----------------------------------------------------------------------------
(* ResetCache: Range visits the keys one by one, others come and go.       *)

StartReset(r) ==
    /\ Spend("resets")
    /\ Goto(r, "idle", "range")
    /\ toDelete' = [toDelete EXCEPT ![r] = quarantined]
    /\ UNCHANGED <<quarantined, cluster, target, attempts, metrics, asked, reported>>

DeleteKey(r) == \E pod \in toDelete[r] :
    /\ pc[r] = "range" /\ pc' = pc
    /\ quarantined' = quarantined \ {pod}
    /\ toDelete' = [toDelete EXCEPT ![r] = @ \ {pod}]
    /\ UNCHANGED <<cluster, target, attempts, metrics, asked, reported, budget>>

EndReset(r) ==
    /\ toDelete[r] = {}
    /\ Goto(r, "range", "idle")
    /\ UNCHANGED <<quarantined, cluster, target, attempts, toDelete, metrics, asked,
                   reported, budget>>

-----------------------------------------------------------------------------
(* The cluster *)

ChangePod(pod) ==
    /\ Spend("changes")
    /\ disturbed' = disturbed \cup {pod}
    /\ labelled' = labelled \ {pod}
    /\ UNCHANGED <<quarantined, local, metrics, asked, reported>>

DeletePod   == \E pod \in running        : ChangePod(pod) /\ running' = running \ {pod}
RecreatePod == \E pod \in Pods \ running : ChangePod(pod) /\ running' = running \cup {pod}
LiftQuarantine == \E pod \in labelled    : ChangePod(pod) /\ UNCHANGED running

-----------------------------------------------------------------------------
Cluster == DeletePod \/ RecreatePod \/ LiftQuarantine
Reset(r) == StartReset(r) \/ DeleteKey(r) \/ EndReset(r)

(* Nothing more happens once every call has returned and no bound is left. *)
Rest == /\ \A g \in Workers \cup Resetters : pc[g] = "idle"
        /\ budget.calls = 0
        /\ UNCHANGED vars

Next == \/ \E w \in Workers : Reserve(w) \/ Proceed(w)
        \/ \E r \in Resetters : Reset(r)
        \/ Cluster
        \/ Rest

Spec == Init /\ [][Next]_vars

(* A worker inside Quarantine goes on: the API server answers, or client-go *)
(* gives up on it and reports an error.                                     *)
FairSpec == Spec /\ \A w \in Workers : WF_vars(Proceed(w))

-----------------------------------------------------------------------------
(* Every variable keeps to its type.                                       *)
TypeOK ==
    /\ quarantined \subseteq Pods /\ labelled \subseteq Pods /\ running \subseteq Pods
    /\ asked \subseteq Pods /\ reported \subseteq Pods /\ disturbed \subseteq Pods
    /\ pc \in [Workers \cup Resetters ->
                  {"idle", "patch", "succeed", "fail", "report", "range"}]
    /\ target \in [Workers -> Pods \cup {NoPod}]
    /\ attempts \in [Workers -> 0..Steps]
    /\ toDelete \in [Resetters -> SUBSET Pods]
    /\ actions \in Nat /\ apiErrors \in Nat
    /\ budget \in [calls : 0..MaxCalls, changes : 0..MaxChanges, resets : 0..MaxResets]

(* The workers that hold a reservation on a pod.                           *)
Holds == {"patch", "succeed", "fail"}
Holders(pod) == {w \in Workers : target[w] = pod /\ pc[w] \in Holds}

(* As long as nobody resets the cache, two calls never patch the same pod  *)
(* at once: the reservation "prevents duplicate in-flight API patches      *)
(* across workers" (executor.go:84), also when a failed call has just      *)
(* given it back.                                                          *)
OneCallPerPod == budget.resets = MaxResets => \A u, w \in Workers :
    pc[u] \in Holds /\ pc[w] \in Holds /\ target[u] = target[w] => u = w

(* A pod in the cache that no call is working on carries the label, unless *)
(* the cluster changed it since: a cached pod is skipped, so one that was  *)
(* cached without being patched would never be contained                   *)
(* (executor.go:85-91 and 132-134).                                        *)
CachedPodWasPatched == \A pod \in quarantined :
    Holders(pod) = {} => pod \in labelled \cup disturbed

(* A pod that some caller asked to contain, and that no call is working on *)
(* any more, is labelled, or one of the calls returned an error, or the    *)
(* cluster changed the pod itself.  The callers that returned nil without  *)
(* patching rely on the one they found in flight (executor.go:85-91).      *)
NoSilentFailure == \A pod \in asked :
    (\A w \in Workers : target[w] # pod) => pod \in labelled \cup reported \cup disturbed

(* The inductive invariant behind the safety properties: a worker has a    *)
(* target exactly inside a call, and attempts left while it patches; until *)
(* somebody resets the cache its target is reserved; and it reports        *)
(* success only of a pod it has labelled.                                  *)
CallInv ==
    /\ \A w \in Workers : pc[w] \in {"idle", "patch", "succeed", "fail", "report"}
    /\ \A w \in Workers : target[w] = NoPod <=> pc[w] = "idle"
    /\ \A w \in Workers : pc[w] = "patch" => attempts[w] > 0
    /\ \A r \in Resetters : pc[r] \in {"idle", "range"}

ReservedInv == budget.resets = MaxResets =>
    /\ \A r \in Resetters : pc[r] = "idle"
    /\ \A w \in Workers : pc[w] \in Holds => target[w] \in quarantined

SuccessInv == \A w \in Workers : pc[w] = "succeed" => target[w] \in labelled \cup disturbed

IInv == /\ TypeOK /\ CallInv /\ ReservedInv /\ SuccessInv
        /\ OneCallPerPod /\ CachedPodWasPatched /\ NoSilentFailure

(* The executor is a registry of claims, in which only a reset that is     *)
(* under way releases a pod that was contained.                            *)
Claimed == [pod \in Pods |->
               IF pod \notin quarantined THEN "free"
               ELSE IF \E w \in Holders(pod) : pc[w] # "succeed" THEN "busy"
               ELSE "contained"]

Resetting == \E r \in Resetters : pc[r] = "range"

Registry == INSTANCE ContainmentClaim WITH claim <- Claimed, resetting <- Resetting

RefinesClaim == Registry!Spec
=============================================================================
