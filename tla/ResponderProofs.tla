---------------------------- MODULE ResponderProofs ----------------------------
(***************************************************************************)
(* The safety of the responder for any number of instances, callers and    *)
(* workers of the agent, any pods and any TTL, whatever the API server     *)
(* answers and whenever instances are replaced.                            *)
(***************************************************************************)
EXTENDS Responder, TLAPS

(* The frame of every step: which variables travel together.               *)
USE DEF Spend, Goto, Answer, service, cluster

(* The keys of a workload and of a process of a pod are told apart.        *)
LEMMA KeysDiffer == \A p, q, n : <<p>> # <<q, n>>
  OBVIOUS

LEMMA RequestKinds ==
    /\ \A r \in Remediations : r.endpoint = "remediate" /\ r.pod \in Pods
    /\ \A r \in Alerts : r.endpoint = "agent-alert" /\ r.pod \in Pods /\ r.pid \in Pids
  BY DEF Remediations, Alerts

(* A step that lets requests and cluster alone, or one of a client.        *)
ClientStep(c) ==
    \/ \E r \in Remediations \cup Alerts : Send(c, r)
    \/ \E i \in Instances : Unauthorized(c, i) \/ Dismiss(c, i) \/ Accept(c, i) \/ Reply(c, i)
    \/ Patch(c) \/ CreatePolicy(c)

Aside == \/ \E w \in AgentWorkers : Dispatched(w) \/ Quarantine(w)
         \/ Tick \/ UNCHANGED vars

LEMMA StepKinds == ASSUME [Next]_vars
                   PROVE  \/ \E c \in Clients : ClientStep(c)
                          \/ Aside
                          \/ \E i \in Instances : Replace(i)
  BY DEF Next, ClientStep, Aside, Remediate, Dispatch, Serve, Clients

-----------------------------------------------------------------------------
(* Who sends what.                                                         *)
LEMMA ClientsStep == TypeOK /\ ClientInv /\ [Next]_vars => ClientInv'
<1> SUFFICES ASSUME TypeOK, ClientInv, [Next]_vars PROVE ClientInv'
  OBVIOUS
<1> USE ClientsAssumption DEF TypeOK, ClientInv, Clients
<1>1. ASSUME NEW c \in Callers, Remediate(c) PROVE ClientInv'
  BY <1>1 DEF Remediate, Send
<1>2. ASSUME NEW w \in AgentWorkers, Dispatch(w) PROVE ClientInv'
  BY <1>2 DEF Dispatch, Send
<1>3. ASSUME NEW w \in AgentWorkers, Dispatched(w) PROVE ClientInv'
  BY <1>3 DEF Dispatched
<1>4. ASSUME NEW w \in AgentWorkers, Quarantine(w) PROVE ClientInv'
  BY <1>4 DEF Quarantine
<1>5. ASSUME NEW c \in Clients, Serve(c) PROVE ClientInv'
  <2>1. /\ pc[c] # "idle" /\ UNCHANGED <<request, instance, agent>>
        /\ \E to \in {"answered", "patch", "create", "triage"} : pc' = [pc EXCEPT ![c] = to]
    BY <1>5 DEF Serve, Unauthorized, Dismiss, Accept, Reply, Patch, CreatePolicy
  <2> QED  BY <2>1
<1>6. CASE Tick
  BY <1>6 DEF Tick
<1>7. ASSUME NEW i \in Instances, Replace(i) PROVE ClientInv'
  BY <1>7 DEF Replace
<1>8. CASE UNCHANGED vars
  BY <1>8 DEF vars
<1> QED  BY <1>1, <1>2, <1>3, <1>4, <1>5, <1>6, <1>7, <1>8 DEF Next

-----------------------------------------------------------------------------
(* Every variable keeps its type.                                          *)
LEMMA TypeStep == TypeOK /\ ClientInv /\ [Next]_vars => TypeOK'
<1> SUFFICES ASSUME TypeOK, ClientInv, [Next]_vars PROVE TypeOK'
  OBVIOUS
<1> USE TTLAssumption, BoundsAssumption, RequestKinds DEF TypeOK, ClientInv
<1> DEFINE AgentOK == agent' \in [AgentWorkers -> {"idle", "waiting", "contain"}]
<1>1. ASSUME NEW c \in Clients, ClientStep(c), AgentOK PROVE TypeOK'
  <2>0. pc[c] # "idle" => request[c].pod \in Pods
    OBVIOUS
  <2>1. ASSUME NEW r \in Remediations \cup Alerts, Send(c, r) PROVE TypeOK'
    BY <1>1, <2>1 DEF Send
  <2>2. ASSUME NEW i \in Instances, Unauthorized(c, i) PROVE TypeOK'
    BY <2>2 DEF Unauthorized
  <2>3. ASSUME NEW i \in Instances, Dismiss(c, i) PROVE TypeOK'
    BY <2>3 DEF Dismiss, Fresh, Restrict
  <2>4. ASSUME NEW i \in Instances, Accept(c, i) PROVE TypeOK'
    <3>1. UNCHANGED <<dryRun, request, instance, reply, agent, labelled, policies, left>>
      BY <2>4 DEF Accept
    <3>2. pc' \in [Clients -> {"idle", "arrived", "patch", "create", "triage", "answered"}]
      BY <2>4 DEF Accept
    <3>3. /\ pc[c] = "arrived" /\ request[c] \in Remediations \cup Alerts
          /\ recent' = [recent EXCEPT ![i] =
                 [k \in DOMAIN Fresh(recent[i]) \cup {Key(request[c])} |->
                     IF k = Key(request[c]) THEN 0 ELSE recent[i][k]]]
      BY <2>4 DEF Accept, Mark
    <3>4. DOMAIN Fresh(recent[i]) \subseteq DOMAIN recent[i]
      BY DEF Fresh, Restrict
    <3>5. /\ DOMAIN recent' = Instances
          /\ \A j \in Instances : \A k \in DOMAIN recent'[j] :
                k \in {Key(r) : r \in Remediations \cup Alerts} /\ recent'[j][k] \in 0..TTL
      BY <3>3, <3>4
    <3>6. since' \in [Instances -> [Pods -> 0..TTL]]
      <4>1. \/ since' = since
            \/ since' = [since EXCEPT ![i][request[c].pod] = 0]
        BY <2>4 DEF Accept
      <4>2. [since[i] EXCEPT ![request[c].pod] = 0] \in [Pods -> 0..TTL]
        <5>1. since[i] \in [Pods -> 0..TTL] /\ 0 \in 0..TTL  OBVIOUS
        <5>2. \A f \in [Pods -> 0..TTL] : \A p : [f EXCEPT ![p] = 0] \in [Pods -> 0..TTL]
          BY <5>1
        <5> QED  BY <5>1, <5>2, Zenon
      <4>3. [since EXCEPT ![i] = [since[i] EXCEPT ![request[c].pod] = 0]]
                \in [Instances -> [Pods -> 0..TTL]]
        BY <4>2
      <4> QED  BY <4>1, <4>3
    <3> QED  BY <3>1, <3>2, <3>5, <3>6
  <2>5. ASSUME NEW i \in Instances, Reply(c, i) PROVE TypeOK'
    BY <2>5 DEF Reply
  <2>6. CASE Patch(c)
    <3>1. labelled' \subseteq Pods
      BY <2>0, <2>6 DEF Patch
    <3> QED  BY <2>6, <3>1 DEF Patch
  <2>7. CASE CreatePolicy(c)
    <3>1. policies' \subseteq {NamespaceOf[p] : p \in Pods}
      <4>1. request[c].pod \in Pods  BY <2>0, <2>7 DEF CreatePolicy
      <4>2. policies' \in {policies, policies \cup {NamespaceOf[request[c].pod]}}
        BY <2>7 DEF CreatePolicy
      <4> QED  BY <4>1, <4>2
    <3> QED  BY <2>7, <3>1 DEF CreatePolicy
  <2> QED  BY <1>1, <2>1, <2>2, <2>3, <2>4, <2>5, <2>6, <2>7 DEF ClientStep
<1>2. ASSUME NEW c \in Callers, Remediate(c) PROVE TypeOK'
  BY <1>1, <1>2 DEF Remediate, ClientStep, Clients
<1>3. ASSUME NEW w \in AgentWorkers, Dispatch(w) PROVE TypeOK'
  <2>1. AgentOK  BY <1>3 DEF Dispatch
  <2> QED  BY <1>1, <1>3, <2>1 DEF Dispatch, ClientStep, Clients
<1>4. ASSUME NEW w \in AgentWorkers, Dispatched(w) PROVE TypeOK'
  BY <1>4 DEF Dispatched
<1>5. ASSUME NEW w \in AgentWorkers, Quarantine(w) PROVE TypeOK'
  <2>1. request[w].pod \in Pods  BY <1>5 DEF Quarantine
  <2> QED  BY <1>5, <2>1 DEF Quarantine
<1>6. ASSUME NEW c \in Clients, Serve(c) PROVE TypeOK'
  <2>1. UNCHANGED agent
    BY <1>6 DEF Serve, Unauthorized, Dismiss, Accept, Reply, Patch, CreatePolicy
  <2> QED  BY <1>1, <1>6, <2>1 DEF Serve, ClientStep
<1>7. CASE Tick
  <2>1. \A age \in 0..TTL : Older(age) \in 0..TTL  BY DEF Older
  <2> QED  BY <1>7, <2>1 DEF Tick
<1>8. ASSUME NEW i \in Instances, Replace(i) PROVE TypeOK'
  <2>1. /\ DOMAIN recent' = Instances
        /\ \A j \in Instances : \A k \in DOMAIN recent'[j] :
              k \in DOMAIN recent[j] /\ recent'[j][k] = recent[j][k]
    BY <1>8 DEF Replace
  <2>2. since' \in [Instances -> [Pods -> 0..TTL]]
    <3>1. [p \in Pods |-> TTL] \in [Pods -> 0..TTL]  OBVIOUS
    <3> QED  BY <1>8, <3>1 DEF Replace
  <2>3. /\ pc' \in [Clients -> {"idle", "arrived", "patch", "create", "triage", "answered"}]
        /\ reply' \in [Clients -> {"none", "unauthorized", "ignored", "deduplicated", "error",
                                    "quarantined", "acknowledged"}]
        /\ left' \in [requests : 0..MaxRequests, restarts : 0..MaxRestarts]
    <3> DEFINE open == {c \in Clients : instance[c] = i /\ pc[c] \notin {"idle", "answered"}}
    <3>1. /\ pc' = [c \in Clients |-> IF c \in open THEN "answered" ELSE pc[c]]
          /\ reply' = [c \in Clients |-> IF c \in open THEN "error" ELSE reply[c]]
      BY <1>8 DEF Replace
    <3>2. left.restarts > 0 /\ left' = [left EXCEPT !["restarts"] = @ - 1]
      BY <1>8 DEF Replace
    <3> HIDE DEF open
    <3> QED  BY <3>1, <3>2
  <2>4. UNCHANGED <<dryRun, request, instance, agent, labelled, policies>>
    BY <1>8 DEF Replace
  <2> QED  BY <2>1, <2>2, <2>3, <2>4
<1>9. CASE UNCHANGED vars
  BY <1>9 DEF vars
<1> QED  BY <1>2, <1>3, <1>4, <1>5, <1>6, <1>7, <1>8, <1>9 DEF Next

-----------------------------------------------------------------------------
(* What is done about a quarantine stays done.                             *)
LEMMA IsolationGrows ==
    [Next]_vars => labelled \subseteq labelled' /\ policies \subseteq policies' /\ dryRun' = dryRun
  BY DEF Next, Remediate, Dispatch, Send, Dispatched, Quarantine, Serve, Unauthorized, Dismiss,
         Accept, Reply, Patch, CreatePolicy, Tick, Replace, vars

(* No answer, and no further progress, before its step has succeeded.      *)
Isolated(c) == /\ request[c].pod \in labelled
               /\ NamespaceOf[request[c].pod] \in policies

ProgressOf(c) ==
    /\ reply[c] # "none" => pc[c] = "answered"
    /\ request[c].endpoint = "remediate" /\ ~dryRun =>
          /\ pc[c] = "create" => request[c].pod \in labelled
          /\ pc[c] = "triage" => Isolated(c)
    /\ reply[c] = "quarantined" /\ ~dryRun => Isolated(c)

LEMMA ProgressMeans == ProgressInv /\ QuarantinedIsIsolated <=> \A c \in Clients : ProgressOf(c)
  BY DEF ProgressInv, QuarantinedIsIsolated, ProgressOf, Isolated

(* A client that takes no step keeps what it has reached.                  *)
LEMMA OthersProgress ==
    ASSUME NEW d \in Clients, ProgressOf(d), [Next]_vars,
           pc'[d] = pc[d], request'[d] = request[d], reply'[d] = reply[d]
    PROVE  ProgressOf(d)'
  BY IsolationGrows DEF ProgressOf, Isolated

LEMMA OwnProgress ==
    ASSUME TypeOK, ClientInv, [Next]_vars, NEW c \in Clients, ProgressOf(c), ClientStep(c)
    PROVE  ProgressOf(c)'
<1> USE RequestKinds DEF TypeOK, ClientInv, ProgressOf, Isolated
<1>1. ASSUME NEW r \in Remediations \cup Alerts, Send(c, r) PROVE ProgressOf(c)'
  BY <1>1 DEF Send
<1>2. ASSUME NEW i \in Instances, Unauthorized(c, i) \/ Dismiss(c, i) PROVE ProgressOf(c)'
  BY <1>2 DEF Unauthorized, Dismiss
<1>3. ASSUME NEW i \in Instances, Accept(c, i) PROVE ProgressOf(c)'
  <2>1. /\ pc[c] = "arrived" /\ UNCHANGED <<dryRun, request, reply>>
        /\ request[c].endpoint = "remediate" /\ ~dryRun => pc'[c] = "patch"
        /\ pc'[c] \in {"patch", "triage"}
    BY <1>3 DEF Accept
  <2> QED  BY <2>1
<1>4. ASSUME NEW i \in Instances, Reply(c, i) PROVE ProgressOf(c)'
  BY <1>4 DEF Reply
<1>5. CASE Patch(c)
  BY <1>5 DEF Patch
<1>6. CASE CreatePolicy(c)
  BY <1>6 DEF CreatePolicy
<1> QED  BY <1>1, <1>2, <1>3, <1>4, <1>5, <1>6 DEF ClientStep

LEMMA ProgressStep ==
    ASSUME TypeOK, ClientInv, ProgressInv, QuarantinedIsIsolated, [Next]_vars
    PROVE  ProgressInv' /\ QuarantinedIsIsolated'
<1> SUFFICES ASSUME NEW d \in Clients, ProgressOf(d) PROVE ProgressOf(d)'
  BY ProgressMeans DEF ProgressInv, QuarantinedIsIsolated, ProgressOf, Isolated
<1>1. ASSUME NEW c \in Clients, ClientStep(c) PROVE ProgressOf(d)'
  <2>1. CASE c = d
    BY <1>1, <2>1, OwnProgress
  <2>2. CASE c # d
    <3>1. pc'[d] = pc[d] /\ request'[d] = request[d] /\ reply'[d] = reply[d]
      BY <1>1, <2>2 DEF ClientStep, Send, Unauthorized, Dismiss, Accept, Reply, Patch,
                        CreatePolicy, TypeOK
    <3> QED  BY <3>1, OthersProgress
  <2> QED  BY <2>1, <2>2
<1>2. CASE Aside
  BY <1>2, OthersProgress DEF Aside, Dispatched, Quarantine, Tick, vars
<1>3. ASSUME NEW i \in Instances, Replace(i) PROVE ProgressOf(d)'
  BY <1>3 DEF Replace, ProgressOf, Isolated, TypeOK
<1> QED  BY <1>1, <1>2, <1>3, StepKinds

-----------------------------------------------------------------------------
(* The memory of an instance keeps pace with the quarantines it started.   *)
LEMMA AgeStep == ASSUME TypeOK, ClientInv, AgeInv, [Next]_vars PROVE AgeInv'
<1> USE TTLAssumption DEF AgeInv
<1>1. ASSUME UNCHANGED <<recent, since>> PROVE AgeInv'
  BY <1>1
<1>2. ASSUME NEW c \in Clients, ClientStep(c) PROVE AgeInv'
  <2>1. ASSUME NEW i \in Instances, Dismiss(c, i) PROVE AgeInv'
    BY <2>1 DEF Dismiss, Fresh, Restrict, TypeOK
  <2>2. ASSUME NEW i \in Instances, Accept(c, i) PROVE AgeInv'
    <3> DEFINE r == request[c]
    <3>1. pc[c] # "idle" /\ r \in Remediations \cup Alerts
      BY <2>2 DEF Accept, ClientInv, TypeOK
    <3>2. /\ DOMAIN recent' = Instances
          /\ \A j \in Instances \ {i} : recent'[j] = recent[j]
          /\ recent'[i] = [k \in DOMAIN Fresh(recent[i]) \cup {Key(r)} |->
                              IF k = Key(r) THEN 0 ELSE recent[i][k]]
      BY <2>2 DEF Accept, Mark, TypeOK
    <3>3. DOMAIN Fresh(recent[i]) = {k \in DOMAIN recent[i] : recent[i][k] < TTL}
      BY DEF Fresh, Restrict
    <3>4. CASE r.endpoint = "remediate"
      <4>1. Key(r) = <<r.pod>>  BY <3>4 DEF Key
      <4>2. since' = [since EXCEPT ![i][r.pod] = 0]  BY <2>2, <3>4 DEF Accept
      <4>3. \A p \in Pods : <<p>> = <<r.pod>> => p = r.pod  OBVIOUS
      <4> QED  BY <3>2, <3>3, <4>1, <4>2, <4>3 DEF TypeOK
    <3>5. CASE r.endpoint = "agent-alert"
      <4>1. \A p \in Pods : Key(r) # <<p>>  BY <3>5, KeysDiffer DEF Key
      <4>2. since' = since  BY <2>2, <3>5 DEF Accept
      <4> QED  BY <3>2, <3>3, <4>1, <4>2
    <3> QED  BY <3>1, <3>4, <3>5, RequestKinds
  <2> QED  BY <1>1, <1>2, <2>1, <2>2
              DEF ClientStep, Send, Unauthorized, Reply, Patch, CreatePolicy
<1>3. CASE Aside
  <2>1. CASE Tick
    BY <2>1 DEF Tick, Older, TypeOK
  <2> QED  BY <1>1, <1>3, <2>1 DEF Aside, Dispatched, Quarantine, vars
<1>4. ASSUME NEW i \in Instances, Replace(i) PROVE AgeInv'
  BY <1>4 DEF Replace, TypeOK
<1> QED  BY <1>2, <1>3, <1>4, StepKinds

-----------------------------------------------------------------------------
LEMMA InitInv == Init => IInv
  BY TTLAssumption, BoundsAssumption, ClientsAssumption
     DEF Init, IInv, TypeOK, ClientInv, ProgressInv, QuarantinedIsIsolated, AgeInv, Clients

(* The inductive invariant holds.                                          *)
THEOREM InvariantHolds == Spec => []IInv
<1>1. IInv /\ [Next]_vars => IInv'
  BY TypeStep, ClientsStep, ProgressStep, AgeStep DEF IInv
<1> QED  BY InitInv, <1>1, PTL DEF Spec

(* Every variable keeps to its type.                                       *)
THEOREM TypeCorrect == Spec => []TypeOK
<1>1. IInv => TypeOK  BY DEF IInv
<1> QED  BY InvariantHolds, <1>1, PTL

(* Whoever is told "quarantined", by a responder that does not run dry,    *)
(* finds the pod labelled and the policy of its namespace in place         *)
(* (main.py:128-153).                                                      *)
THEOREM QuarantineIsReal == Spec => []QuarantinedIsIsolated
<1>1. IInv => QuarantinedIsIsolated  BY DEF IInv
<1> QED  BY InvariantHolds, <1>1, PTL

(* One instance quarantines a workload once in TTL (main.py:217-238).      *)
THEOREM AtMostOncePerTTL == Spec => OncePerTTL
<1>1. IInv /\ [Next]_vars => [\A c \in Clients :
            /\ request[c] # NoRequest /\ request[c].endpoint = "remediate"
            /\ pc[c] = "arrived" /\ pc'[c] \in {"patch", "triage"}
            => since[instance[c]][request[c].pod] = TTL]_vars
  <2> SUFFICES ASSUME IInv, [Next]_vars, NEW c \in Clients,
                      request[c].endpoint = "remediate", pc[c] = "arrived",
                      pc'[c] \in {"patch", "triage"}
               PROVE  since[instance[c]][request[c].pod] = TTL
    OBVIOUS
  <2> USE DEF IInv
  <2>1. PICK i \in Instances : Accept(c, i)
    <3>1. ASSUME NEW d \in Clients, ClientStep(d)
          PROVE  \E i \in Instances : Accept(c, i)
      BY <3>1 DEF ClientStep, Send, Unauthorized, Dismiss, Accept, Reply, Patch, CreatePolicy,
                  TypeOK
    <3>2. ~Aside  BY DEF Aside, Dispatched, Quarantine, Tick, vars
    <3>3. ASSUME NEW i \in Instances, Replace(i) PROVE FALSE
      BY <3>3 DEF Replace
    <3> QED  BY <3>1, <3>2, <3>3, StepKinds
  <2>2. instance[c] = i /\ <<request[c].pod>> \notin DOMAIN Fresh(recent[i])
    BY <2>1 DEF Accept, Runs, Duplicate, Key
  <2>3. request[c].pod \in Pods
    BY RequestKinds DEF ClientInv, Clients
  <2>4. since[i][request[c].pod] \in 0..TTL
    BY <2>3 DEF TypeOK
  <2>5. ~(since[i][request[c].pod] < TTL)
    BY <2>2, <2>3 DEF AgeInv, Fresh, Restrict
  <2> QED  BY <2>2, <2>4, <2>5, TTLAssumption
<1> QED  BY InvariantHolds, <1>1, PTL DEF Spec, OncePerTTL
=============================================================================
