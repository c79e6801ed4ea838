------------------------------ MODULE Responder ------------------------------
(***************************************************************************)
(* The serverless responder, src/cloud-run-webhook/main.py, and its two    *)
(* kinds of clients: callers of /v1/remediate, who ask it to quarantine a  *)
(* workload, and workers of the agent, which post their alert to           *)
(* /v1/agent-alert and, when it is a red one, contain the pod themselves   *)
(* afterwards (src/cmd/ztre-agent/main.go:448-470).                        *)
(*                                                                         *)
(* Each instance runs one event loop: a handler is interrupted only where  *)
(* it awaits, and the calls of the Kubernetes API block the whole loop.    *)
(* An instance keeps in memory when it last dealt with a key, and forgets  *)
(* it all when it is replaced.  Time is kept as ages, which Tick advances; *)
(* an age of TTL stands for every longer one.                              *)
(*                                                                         *)
(* Left out: the text of the summary, and bodies that do not validate.     *)
(***************************************************************************)
EXTENDS Integers, FiniteSets, Functions

CONSTANTS Instances, Callers, AgentWorkers,
          Pods,         \* workloads; a pod is named by its uid
          NamespaceOf,  \* pod -> namespace
          Protected,    \* PROTECTED_NAMESPACES
          Pids,         \* process ids
          TTL,          \* ZTRE_DEDUP_TTL, in ticks
          NoRequest, NoInstance,
          MaxRequests, MaxRestarts \* bounds

ASSUME TTLAssumption == TTL \in Nat \ {0}
ASSUME ClientsAssumption == Callers \cap AgentWorkers = {}
ASSUME BoundsAssumption == MaxRequests \in Nat /\ MaxRestarts \in Nat

VARIABLES dryRun,            \* ZTRE_DRY_RUN
          recent,            \* per instance: key -> age of its entry
          pc,                \* where the request of each client is
          request, instance, \* what it asks, and who serves it
          reply,             \* the answer's status
          agent,             \* where each worker of the agent is
          labelled,          \* pods that carry ztre/quarantine=true
          policies,          \* namespaces with the quarantine network policy
          since,             \* history: age of the last quarantine of each pod
          left               \* what is left of the bounds

service == <<pc, request, instance, reply>>
cluster == <<labelled, policies>>
vars    == <<dryRun, recent, pc, request, instance, reply, agent, labelled, policies,
             since, left>>

Clients == Callers \cup AgentWorkers

Remediations == [endpoint : {"remediate"}, pod : Pods, signed : BOOLEAN]
Alerts == [endpoint : {"agent-alert"}, pod : Pods, pid : Pids,
           action : {"LOG_AND_ALERT", "AUTO_CONTAINMENT"}]

(* The workload's uid, or the agent's "podName-PID".                       *)
Key(r) == IF r.endpoint = "remediate" THEN <<r.pod>> ELSE <<r.pod, r.pid>>

Init == /\ dryRun \in BOOLEAN
        /\ recent = [i \in Instances |-> [k \in {} |-> 0]]
        /\ pc = [c \in Clients |-> "idle"]
        /\ request = [c \in Clients |-> NoRequest]
        /\ instance = [c \in Clients |-> NoInstance]
        /\ reply = [c \in Clients |-> "none"]
        /\ agent = [w \in AgentWorkers |-> "idle"]
        /\ labelled = {} /\ policies = {}
        /\ since = [i \in Instances |-> [p \in Pods |-> TTL]]
        /\ left = [requests |-> MaxRequests, restarts |-> MaxRestarts]

Spend(what) == left[what] > 0 /\ left' = [left EXCEPT ![what] = @ - 1]
Goto(c, from, to) == pc[c] = from /\ pc' = [pc EXCEPT ![c] = to]
Answer(c, from, status) == Goto(c, from, "answered") /\ reply' = [reply EXCEPT ![c] = status]

-----------------------------------------------------------------------------
(* The clients *)

Send(c, r) == /\ Spend("requests")
              /\ pc[c] \in {"idle", "answered"} /\ pc' = [pc EXCEPT ![c] = "arrived"]
              /\ request' = [request EXCEPT ![c] = r]
              /\ reply' = [reply EXCEPT ![c] = "none"]
              /\ \E i \in Instances : instance' = [instance EXCEPT ![c] = i]
              /\ UNCHANGED <<dryRun, recent, cluster, since>>

Remediate(c) == \E r \in Remediations : Send(c, r) /\ UNCHANGED agent

Dispatch(w) == /\ agent[w] = "idle" /\ agent' = [agent EXCEPT ![w] = "waiting"]
               /\ \E r \in Alerts : Send(w, r)

(* The agent has its answer, or has waited for five seconds.               *)
Dispatched(w) ==
    /\ agent[w] = "waiting"
    /\ agent' = [agent EXCEPT ![w] = IF request[w].action = "AUTO_CONTAINMENT"
                                     THEN "contain" ELSE "idle"]
    /\ UNCHANGED <<dryRun, recent, service, cluster, since, left>>

(* The agent's executor succeeds or fails.                                 *)
Quarantine(w) == /\ agent[w] = "contain" /\ agent' = [agent EXCEPT ![w] = "idle"]
                 /\ labelled' \in {labelled, labelled \cup {request[w].pod}}
                 /\ UNCHANGED <<dryRun, recent, service, policies, since, left>>

-----------------------------------------------------------------------------
(* The handlers.  A name with an underscore is a plausible slip in the     *)
(* definition that follows it; the properties are tried on it.             *)

(* The instance's loop is free.                                            *)
Runs(c, on) == /\ instance[c] = on
               /\ \A d \in Clients : instance[d] = on => pc[d] \notin {"patch", "create"}

Fresh_OneTickShort(entries) == Restrict(entries, {k \in DOMAIN entries : entries[k] < TTL - 1})

Fresh(entries) == Restrict(entries, {k \in DOMAIN entries : entries[k] < TTL})

Guarded(c) == NamespaceOf[request[c].pod] \in Protected
Duplicate(c, entries) == Key(request[c]) \in DOMAIN entries

Mark(c, i) == recent' = [recent EXCEPT ![i] =
                  [k \in DOMAIN Fresh(@) \cup {Key(request[c])} |->
                      IF k = Key(request[c]) THEN 0 ELSE @[k]]]

Unauthorized(c, i) == /\ Runs(c, i) /\ request[c].endpoint = "remediate"
                      /\ ~request[c].signed
                      /\ Answer(c, "arrived", "unauthorized")
                      /\ UNCHANGED <<dryRun, recent, request, instance, agent, cluster,
                                     since, left>>

Authorized(c) == request[c].endpoint = "remediate" => request[c].signed

(* Both endpoints prune, then look at the namespace and at the key.        *)
Dismiss(c, i) ==
    /\ Runs(c, i) /\ Authorized(c)
    /\ \/ Guarded(c) /\ Answer(c, "arrived", "ignored")
       \/ /\ ~Guarded(c) /\ Duplicate(c, Fresh(recent[i]))
          /\ Answer(c, "arrived", "deduplicated")
    /\ recent' = [recent EXCEPT ![i] = Fresh(@)]
    /\ UNCHANGED <<dryRun, request, instance, agent, cluster, since, left>>

(* The key is marked first; then /v1/remediate enforces the quarantine,    *)
(* which a dry run skips, and /v1/agent-alert goes on to the summary.      *)
Accept(c, i) ==
    /\ Runs(c, i) /\ Authorized(c)
    /\ ~Guarded(c) /\ ~Duplicate(c, Fresh(recent[i]))
    /\ Mark(c, i)
    /\ \/ /\ request[c].endpoint = "remediate"
          /\ Goto(c, "arrived", IF dryRun THEN "triage" ELSE "patch")
          /\ since' = [since EXCEPT ![i][request[c].pod] = 0]
       \/ /\ request[c].endpoint = "agent-alert"
          /\ Goto(c, "arrived", "triage")
          /\ UNCHANGED since
    /\ UNCHANGED <<dryRun, request, instance, reply, agent, cluster, left>>

(* An exception of the API client ends the request with status 500; the    *)
(* patch may have been applied all the same.                               *)
Patch(c) ==
    /\ \/ /\ Goto(c, "patch", "create") /\ UNCHANGED reply
          /\ labelled' = labelled \cup {request[c].pod}
       \/ /\ Answer(c, "patch", "error")
          /\ labelled' \in {labelled, labelled \cup {request[c].pod}}
    /\ UNCHANGED <<dryRun, recent, request, instance, agent, policies, since, left>>

CreatePolicy_AnyErrorIsPresent(c) == LET ns == NamespaceOf[request[c].pod] IN
    /\ Goto(c, "create", "triage") /\ UNCHANGED reply
    /\ policies' \in {policies, policies \cup {ns}}
    /\ UNCHANGED <<dryRun, recent, request, instance, agent, labelled, since, left>>

CreatePolicy(c) == LET ns == NamespaceOf[request[c].pod] IN
    /\ \/ /\ Goto(c, "create", "triage") /\ UNCHANGED reply
          /\ policies' = policies \cup {ns} \* created, or there already
       \/ /\ Answer(c, "create", "error")
          /\ policies' \in {policies, policies \cup {ns}}
    /\ UNCHANGED <<dryRun, recent, request, instance, agent, labelled, since, left>>

(* The summary is awaited, and has a text to fall back on.                 *)
Reply(c, i) == /\ Runs(c, i)
               /\ Answer(c, "triage", IF request[c].endpoint = "remediate"
                                      THEN "quarantined" ELSE "acknowledged")
               /\ UNCHANGED <<dryRun, recent, request, instance, agent, cluster, since,
                              left>>

Serve(c) == \/ \E i \in Instances : \/ Unauthorized(c, i) \/ Dismiss(c, i)
                                    \/ Accept(c, i) \/ Reply(c, i)
            \/ Patch(c) \/ CreatePolicy(c)

-----------------------------------------------------------------------------
Older_OneTooMany(age) == IF age <= TTL THEN age + 1 ELSE age

Older(age) == IF age < TTL THEN age + 1 ELSE age

Tick == /\ recent' = [i \in Instances |-> [k \in DOMAIN recent[i] |-> Older(recent[i][k])]]
        /\ since' = [i \in Instances |-> [p \in Pods |-> Older(since[i][p])]]
        /\ UNCHANGED <<dryRun, service, agent, cluster, left>>

(* An instance is replaced: the requests it was serving fail.              *)
Replace(i) ==
    /\ Spend("restarts")
    /\ recent' = [recent EXCEPT ![i] = [k \in {} |-> 0]]
    /\ since' = [since EXCEPT ![i] = [p \in Pods |-> TTL]]
    /\ LET open == {c \in Clients : instance[c] = i /\ pc[c] \notin {"idle", "answered"}}
       IN  /\ pc' = [c \in Clients |-> IF c \in open THEN "answered" ELSE pc[c]]
           /\ reply' = [c \in Clients |-> IF c \in open THEN "error" ELSE reply[c]]
    /\ UNCHANGED <<dryRun, request, instance, agent, cluster>>

Next == \/ \E c \in Callers : Remediate(c)
        \/ \E w \in AgentWorkers : Dispatch(w) \/ Dispatched(w) \/ Quarantine(w)
        \/ \E c \in Clients : Serve(c)
        \/ Tick
        \/ \E i \in Instances : Replace(i)

Spec == Init /\ [][Next]_vars

-----------------------------------------------------------------------------
(* Every variable keeps to its type.                                       *)
TypeOK ==
    /\ dryRun \in BOOLEAN
    /\ DOMAIN recent = Instances
    /\ \A i \in Instances : \A k \in DOMAIN recent[i] :
          k \in {Key(r) : r \in Remediations \cup Alerts} /\ recent[i][k] \in 0..TTL
    /\ pc \in [Clients -> {"idle", "arrived", "patch", "create", "triage", "answered"}]
    /\ request \in [Clients -> Remediations \cup Alerts \cup {NoRequest}]
    /\ instance \in [Clients -> Instances \cup {NoInstance}]
    /\ reply \in [Clients -> {"none", "unauthorized", "ignored", "deduplicated", "error",
                              "quarantined", "acknowledged"}]
    /\ agent \in [AgentWorkers -> {"idle", "waiting", "contain"}]
    /\ labelled \subseteq Pods /\ policies \subseteq {NamespaceOf[p] : p \in Pods}
    /\ since \in [Instances -> [Pods -> 0..TTL]]
    /\ left \in [requests : 0..MaxRequests, restarts : 0..MaxRestarts]

(* An instance quarantines a workload at most once in TTL, however the     *)
(* requests about it interleave at the points where a handler awaits       *)
(* (main.py:217-238).                                                      *)
OncePerTTL == [][\A c \in Clients :
    /\ request[c] # NoRequest /\ request[c].endpoint = "remediate"
    /\ pc[c] = "arrived" /\ pc'[c] \in {"patch", "triage"}
    => since[instance[c]][request[c].pod] = TTL]_vars

(* Whoever is told "quarantined" can rely on it, dry runs apart: the pod   *)
(* carries the label and its namespace has the policy that acts on it,     *)
(* although either API call may fail half way (main.py:128-153).           *)
QuarantinedIsIsolated == \A c \in Clients :
    reply[c] = "quarantined" /\ ~dryRun =>
        request[c].pod \in labelled /\ NamespaceOf[request[c].pod] \in policies

(* The inductive invariant behind the two.  A client that has sent         *)
(* something has a request of its kind, and an instance that serves it.    *)
ClientInv ==
    /\ \A c \in Clients : pc[c] # "idle" =>
          instance[c] \in Instances /\ request[c] \in Remediations \cup Alerts
    /\ \A w \in AgentWorkers :
          /\ pc[w] # "idle" => request[w] \in Alerts
          /\ agent[w] # "idle" => pc[w] # "idle"

(* The steps of the quarantine that a request has behind it have been made.*)
ProgressInv == \A c \in Clients :
    /\ reply[c] # "none" => pc[c] = "answered"
    /\ pc[c] \in {"create", "triage"} /\ request[c].endpoint = "remediate" /\ ~dryRun
          => request[c].pod \in labelled
    /\ pc[c] = "triage" /\ request[c].endpoint = "remediate" /\ ~dryRun
          => NamespaceOf[request[c].pod] \in policies

(* What an instance remembers of a workload is as old as its quarantine.   *)
AgeInv == \A i \in Instances, p \in Pods : since[i][p] < TTL =>
    <<p>> \in DOMAIN recent[i] /\ recent[i][<<p>>] = since[i][p]

IInv == TypeOK /\ ClientInv /\ ProgressInv /\ QuarantinedIsIsolated /\ AgeInv

(* What main.py:277 says of an agent's alert, that the agent has already   *)
(* performed the containment: an acknowledged red alert is about a pod     *)
(* that is contained.                                                      *)
AcknowledgedWasContained == \A w \in AgentWorkers :
    reply[w] = "acknowledged" /\ request[w].action = "AUTO_CONTAINMENT" =>
        request[w].pod \in labelled
=============================================================================
