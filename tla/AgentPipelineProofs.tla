-------------------------- MODULE AgentPipelineProofs --------------------------
(***************************************************************************)
(* The safety of the running agent, for any number of workers and events,  *)
(* any size of the buffer, and any configuration file and command line.    *)
(***************************************************************************)
EXTENDS AgentPipeline, FiniteSetTheorems, WellFoundedInduction, TLAPS

(* The frame of every step: which variables travel together.               *)
USE DEF Goto, Main, buffer, control, worker, files, effects

(* What main and the goroutines besides the workers do.                    *)
Others == \/ ClientPush \/ ClientStop \/ StoreTick \/ StoreStop
          \/ Signal \/ Shutdown \/ Terminated

LEMMA StepKinds == Next => Others \/ \E w \in Workers : Work(w)
BY DEF Next, Others

-----------------------------------------------------------------------------
(* The mode is one of three, and enforcement has been asked for: a file    *)
(* that does not load never does (config.go:120-131, main.go:63-79,        *)
(* 130-148).                                                               *)
LEMMA ModeIsAskedFor ==
    ASSUME launch \in Launches
    PROVE  /\ mode \in {"discovery", "shadow", "enforcement"}
           /\ mode = "enforcement" =>
                 \/ launch.flag = "enforcement"
                 \/ /\ launch.flag = "" /\ launch.file # NotLoading
                    /\ launch.file.mode = "enforcement"
BY LaunchesAssumption DEF mode, Config!AgentMode, Config!AgentModes, Config!Loaded,
                          Config!Loads, Config!Fallback

(* What is not excluded is in no list that applies (config.go:44-56).      *)
LEMMA NotExcluded ==
    ASSUME launch \in Launches, NEW e, ~Excluded(e)
    PROVE  /\ e.namespace \notin Config!ControlPlane
           /\ Config!Loads(launch.file) => e.namespace \notin launch.file.exclude
<1>1. Config!Loads(launch.file) => Config!Loaded(launch.file).exclude = launch.file.exclude
  BY LaunchesAssumption DEF Config!Loads, Config!Loaded
<1> QED  BY <1>1 DEF Excluded, Config!IsNamespaceExcluded

(* The launch is for good, so neither the mode nor the exclusions change.  *)
LEMMA LaunchStays ==
    ASSUME [Next]_vars
    PROVE  /\ launch' = launch /\ mode' = mode /\ Learns' = Learns
           /\ \A e : Excluded(e)' = Excluded(e) /\ Asks(e)' = Asks(e)
           /\ restored' = restored
<1>1. launch' = launch
  <2>1. CASE Others
    BY <2>1 DEF Others, ClientPush, ClientStop, StoreTick, StoreStop, Signal, Shutdown,
                ClientDone, StoreDone, CloseBuffer, Drained, SaveFinal, WriteReport,
                WriteWhitelist, Terminated, vars
  <2>2. ASSUME NEW w \in Workers, Work(w) PROVE launch' = launch
    BY <2>2 DEF Work, Receive, EndOfRange, Route, Track, Decide, Dispatch, Reserve, Contain,
                GiveUp
  <2>3. CASE UNCHANGED vars  BY <2>3 DEF vars
  <2> QED  BY <2>1, <2>2, <2>3, StepKinds
<1> QED  BY <1>1 DEF mode, Learns, Excluded, Asks, Scored, restored

-----------------------------------------------------------------------------
(* What the queue's operations do to its two histories.                    *)
LEMMA QueueSteps ==
    ASSUME TypeOK
    PROVE  /\ Buffer!Accept => /\ accepted' \in Seq(Events)
                              /\ Len(accepted') = Len(accepted) + 1
                              /\ \A i \in DOMAIN accepted : i \in DOMAIN accepted' /\ accepted'[i] = accepted[i]
           /\ Buffer!Take => /\ taken' \in Seq(Events)
                            /\ Len(taken) < Len(accepted)
                            /\ Len(taken') = Len(taken) + 1
                            /\ taken'[Len(taken')] = accepted[Len(taken')]
                            /\ \A i \in DOMAIN taken : i \in DOMAIN taken' /\ taken'[i] = taken[i]
<1>1. ASSUME Buffer!Accept
      PROVE  /\ accepted' \in Seq(Events) /\ Len(accepted') = Len(accepted) + 1
             /\ \A i \in DOMAIN accepted : i \in DOMAIN accepted' /\ accepted'[i] = accepted[i]
  BY <1>1 DEF Buffer!Accept, TypeOK
<1>2. ASSUME Buffer!Take
      PROVE  /\ taken' \in Seq(Events) /\ Len(taken) < Len(accepted)
             /\ Len(taken') = Len(taken) + 1
             /\ taken'[Len(taken')] = accepted[Len(taken')]
             /\ \A i \in DOMAIN taken : i \in DOMAIN taken' /\ taken'[i] = taken[i]
  <2>1. Len(taken) < Len(accepted)
    BY <1>2 DEF Buffer!Take, Buffer!Pending, TypeOK
  <2>2. accepted[Len(taken) + 1] \in Events
    BY <2>1 DEF TypeOK
  <2> QED  BY <1>2, <2>1, <2>2 DEF Buffer!Take, TypeOK
<1> QED  BY <1>1, <1>2

(* Every variable keeps its type.                                          *)
LEMMA TypeStep == TypeOK /\ [Next]_vars => TypeOK'
<1> SUFFICES ASSUME TypeOK, [Next]_vars PROVE TypeOK'
  OBVIOUS
<1> USE DEF TypeOK
<1>1. CASE ClientPush
  BY <1>1, QueueSteps DEF ClientPush, Buffer!Accept, Buffer!Lose
<1>2. CASE ClientStop \/ StoreTick \/ StoreStop \/ Signal \/ Terminated
  BY <1>2 DEF ClientStop, StoreTick, StoreStop, Signal, Terminated, vars
<1>3. CASE Shutdown
  BY <1>3 DEF Shutdown, ClientDone, StoreDone, CloseBuffer, Drained, SaveFinal, WriteReport,
              WriteWhitelist, Write, Buffer!Close
<1>4. ASSUME NEW w \in Workers, Work(w) PROVE TypeOK'
  <2>1. CASE Receive(w)
    <3>1. taken'[Len(taken')] \in Events
      BY <2>1, QueueSteps DEF Receive
    <3> QED  BY <2>1, <3>1, QueueSteps DEF Receive, Buffer!Take
  <2>2. CASE EndOfRange(w) \/ Route(w) \/ Decide(w) \/ Track(w)
    <3>1. CASE EndOfRange(w) \/ Track(w)
      BY <3>1, ZenonT(30) DEF EndOfRange, Track
    <3>2. CASE Route(w)
      BY <3>2 DEF Route
    <3>3. CASE Decide(w)
      BY <3>3 DEF Decide
    <3> QED  BY <2>2, <3>1, <3>2, <3>3
  <2>3. CASE Dispatch(w)
    BY <2>3 DEF Dispatch
  <2>4. CASE Reserve(w) \/ Contain(w) \/ GiveUp(w)
    <3>1. event[w].pod \in Pods
      BY <2>4 DEF Reserve, Contain, GiveUp, Pods
    <3>2. CASE Reserve(w)
      BY <3>1, <3>2 DEF Reserve, Containment!Claim, Containment!Move
    <3>3. CASE Contain(w)
      BY <3>1, <3>3 DEF Contain, Containment!Confirm, Containment!Move
    <3>4. CASE GiveUp(w)
      BY <3>1, <3>4 DEF GiveUp, Containment!Abandon, Containment!Move
    <3> QED  BY <2>4, <3>2, <3>3, <3>4
  <2> QED  BY <1>4, <2>1, <2>2, <2>3, <2>4 DEF Work
<1>5. CASE UNCHANGED vars  BY <1>5 DEF vars
<1> QED  BY <1>1, <1>2, <1>3, <1>4, <1>5, StepKinds DEF Others

(* The shutdown cancels the context of the workers after they have left.   *)
LEMMA PhaseStep == TypeOK /\ PhaseInv /\ [Next]_vars => PhaseInv'
<1> SUFFICES ASSUME TypeOK, PhaseInv, [Next]_vars PROVE PhaseInv'
  OBVIOUS
<1> USE DEF TypeOK, PhaseInv
<1>1. CASE Others
  BY <1>1 DEF Others, ClientPush, ClientStop, StoreTick, StoreStop, Signal, Shutdown,
              ClientDone, StoreDone, CloseBuffer, Drained, SaveFinal, WriteReport,
              WriteWhitelist, Terminated, vars
<1>2. ASSUME NEW w \in Workers, Work(w) PROVE PhaseInv'
  BY <1>2 DEF Work, Receive, EndOfRange, Route, Track, Decide, Dispatch, Reserve, Contain,
              GiveUp
<1>3. CASE UNCHANGED vars  BY <1>3 DEF vars
<1> QED  BY <1>1, <1>2, <1>3, StepKinds

(* What was taken is what was accepted first, and a worker that has left   *)
(* left nothing behind.                                                    *)
LEMMA QueueStep == TypeOK /\ QueueInv /\ [Next]_vars => QueueInv'
<1> SUFFICES ASSUME TypeOK, QueueInv, [Next]_vars PROVE QueueInv'
  OBVIOUS
<1> USE DEF TypeOK, QueueInv
<1>1. CASE ClientPush
  <2>1. CASE Buffer!Accept
    <3>1. ~closed /\ UNCHANGED <<taken, closed, pc>>
      BY <1>1, <2>1 DEF ClientPush, Buffer!Accept
    <3>2. Len(accepted') = Len(accepted) + 1
      BY <2>1, QueueSteps
    <3>3. \A i \in DOMAIN taken : taken[i] = accepted'[i]
      BY <2>1, QueueSteps
    <3>4. \A w \in Workers : pc[w] # "exited"
      BY <3>1
    <3> QED  BY <3>1, <3>2, <3>3, <3>4
  <2>2. CASE Buffer!Lose
    BY <1>1, <2>2 DEF ClientPush, Buffer!Lose
  <2> QED  BY <1>1, <2>1, <2>2 DEF ClientPush
<1>2. CASE ClientStop \/ StoreTick \/ StoreStop \/ Signal \/ Terminated
  BY <1>2 DEF ClientStop, StoreTick, StoreStop, Signal, Terminated, vars
<1>3. CASE Shutdown
  BY <1>3 DEF Shutdown, ClientDone, StoreDone, CloseBuffer, Drained, SaveFinal, WriteReport,
              WriteWhitelist, Buffer!Close
<1>4. ASSUME NEW w \in Workers, Work(w) PROVE QueueInv'
  <2>1. CASE Receive(w)
    <3>1. accepted' = accepted /\ closed' = closed
      BY <2>1 DEF Receive, Buffer!Take
    <3>2. \A v \in Workers : pc'[v] = "exited" => pc[v] = "exited"
      BY <2>1 DEF Receive
    <3>3. Buffer!Take
      BY <2>1 DEF Receive
    <3> QED  BY <3>1, <3>2, <3>3, QueueSteps
  <2>2. CASE EndOfRange(w)
    <3>1. Len(taken) = Len(accepted) /\ closed
      BY <2>2 DEF EndOfRange, Buffer!Pending
    <3> QED  BY <2>2, <3>1 DEF EndOfRange
  <2>3. CASE Route(w) \/ Decide(w) \/ Track(w) \/ Dispatch(w) \/ Reserve(w) \/ Contain(w)
             \/ GiveUp(w)
    BY <2>3 DEF Route, Decide, Track, Dispatch, Reserve, Contain, GiveUp
  <2> QED  BY <1>4, <2>1, <2>2, <2>3 DEF Work
<1>5. CASE UNCHANGED vars  BY <1>5 DEF vars
<1> QED  BY <1>1, <1>2, <1>3, <1>4, <1>5, StepKinds DEF Others

-----------------------------------------------------------------------------
(* An event a worker holds was accepted, and stays so.                     *)
Accepted(e) == \E i \in DOMAIN accepted : accepted[i] = e

LEMMA AcceptedStays == ASSUME TypeOK, [Next]_vars, NEW e, Accepted(e) PROVE Accepted(e)'
<1>1. CASE ClientPush
  <2>1. CASE Buffer!Accept
    BY <2>1, QueueSteps DEF Accepted
  <2> QED  BY <1>1, <2>1 DEF ClientPush, Buffer!Lose, Accepted
<1>2. CASE ClientStop \/ StoreTick \/ StoreStop \/ Signal \/ Shutdown \/ Terminated
  BY <1>2 DEF ClientStop, StoreTick, StoreStop, Signal, Terminated, vars, Shutdown, ClientDone,
              StoreDone, CloseBuffer, Drained, SaveFinal, WriteReport, WriteWhitelist,
              Buffer!Close, Accepted
<1>3. ASSUME NEW w \in Workers, Work(w) PROVE accepted' = accepted
  BY <1>3 DEF Work, Receive, EndOfRange, Route, Track, Decide, Dispatch, Reserve, Contain,
              GiveUp, Buffer!Take
<1>4. CASE UNCHANGED vars  BY <1>4 DEF vars, Accepted
<1> QED  BY <1>1, <1>2, <1>3, <1>4, StepKinds DEF Others, Accepted

(* What a worker knows of its event where it stands, it has made sure of   *)
(* on the way there.                                                       *)
Knows(w) ==
    /\ pc[w] \notin {"range", "exited"} => Accepted(event[w])
    /\ pc[w] = "track" => Learns
    /\ pc[w] \in {"decide", "dispatch", "reserve", "patch"} => ~Learns /\ ~Excluded(event[w])
    /\ pc[w] \in {"reserve", "patch"}
          => event[w].action = "AUTO_CONTAINMENT" /\ event[w] \in alerted

LEMMA KnowledgeKept ==
    ASSUME TypeOK, [Next]_vars, NEW v \in Workers, Knows(v),
           pc'[v] = pc[v], event'[v] = event[v], alerted \subseteq alerted'
    PROVE  Knows(v)'
BY LaunchStays, AcceptedStays DEF Knows

LEMMA WorkersStep == ASSUME TypeOK, WorkInv, [Next]_vars PROVE WorkInv'
<1> USE DEF TypeOK
<1>1. \A v \in Workers : Knows(v)
  BY DEF WorkInv, Knows, Accepted
<1>2. \A v \in Workers : Knows(v)'
  <2>1. CASE Others \/ UNCHANGED vars
    <3>1. UNCHANGED <<pc, event, alerted>>
      BY <2>1 DEF Others, ClientPush, ClientStop, StoreTick, StoreStop, Signal, Shutdown,
                  ClientDone, StoreDone, CloseBuffer, Drained, SaveFinal, WriteReport,
                  WriteWhitelist, Terminated, vars
    <3> QED  BY <1>1, <3>1, KnowledgeKept
  <2>2. ASSUME NEW w \in Workers, Work(w) PROVE \A v \in Workers : Knows(v)'
    <3>1. ASSUME NEW v \in Workers \ {w} PROVE Knows(v)'
      <4>1. pc'[v] = pc[v] /\ event'[v] = event[v] /\ alerted \subseteq alerted'
        BY <2>2, <3>1 DEF Work, Receive, EndOfRange, Route, Track, Decide, Dispatch, Reserve,
                          Contain, GiveUp
      <4> QED  BY <1>1, <3>1, <4>1, KnowledgeKept
    <3>2. Knows(w)'
      <4>1. CASE Receive(w)
        <5>1. Accepted(event'[w]) /\ UNCHANGED accepted
          BY <4>1, QueueSteps DEF Receive, Accepted, Buffer!Take
        <5>2. pc'[w] = "route"
          BY <4>1 DEF Receive
        <5> QED  BY <5>1, <5>2 DEF Knows, Accepted
      <4>2. CASE EndOfRange(w) \/ Contain(w) \/ GiveUp(w) \/ Track(w)
        BY <4>2 DEF EndOfRange, Contain, GiveUp, Track, Knows
      <4>3. CASE Route(w) \/ Decide(w)
        BY <1>1, <4>3, LaunchStays, AcceptedStays, SMTT(20) DEF Route, Decide, Knows
      <4>4. CASE Dispatch(w) \/ Reserve(w)
        BY <1>1, <4>4, LaunchStays, AcceptedStays DEF Dispatch, Reserve, Knows
      <4> QED  BY <2>2, <4>1, <4>2, <4>3, <4>4 DEF Work
    <3> QED  BY <3>1, <3>2
  <2> QED  BY <2>1, <2>2, StepKinds
<1> QED  BY <1>2 DEF WorkInv, Knows, Accepted

-----------------------------------------------------------------------------
(* How a step moves the claim on a pod: only a worker at it does.          *)
LEMMA ClaimMoves ==
    ASSUME TypeOK, [Next]_vars, NEW pod \in Pods, claim'[pod] # claim[pod]
    PROVE  \E w \in Workers :
              /\ event[w].pod = pod /\ event[w] \in Events /\ event' = event
              /\ \/ /\ Reserve(w) /\ pc[w] = "reserve" /\ pc'[w] = "patch"
                    /\ claim[pod] = "free" /\ claim'[pod] = "busy"
                 \/ Contain(w) /\ claim[pod] = "busy" /\ claim'[pod] = "contained"
                 \/ GiveUp(w) /\ claim[pod] = "busy" /\ claim'[pod] = "free" /\ pod \in failed'
<1> USE DEF TypeOK
<1>1. CASE Others \/ UNCHANGED vars
  BY <1>1 DEF Others, ClientPush, ClientStop, StoreTick, StoreStop, Signal, Shutdown,
              ClientDone, StoreDone, CloseBuffer, Drained, SaveFinal, WriteReport,
              WriteWhitelist, Terminated, vars
<1>2. ASSUME NEW w \in Workers, Work(w) PROVE Reserve(w) \/ Contain(w) \/ GiveUp(w)
  BY <1>2 DEF Work, Receive, EndOfRange, Route, Track, Decide, Dispatch
<1>3. PICK w \in Workers : Reserve(w) \/ Contain(w) \/ GiveUp(w)
  BY <1>1, <1>2, StepKinds
<1>4. event[w] \in Events /\ event' = event
  BY <1>3 DEF Reserve, Contain, GiveUp
<1>5. event[w].pod = pod
  BY <1>3 DEF Reserve, Contain, GiveUp, Containment!Claim, Containment!Confirm,
              Containment!Abandon, Containment!Move
<1>6. CASE Reserve(w)
  BY <1>4, <1>5, <1>6 DEF Reserve, Containment!Claim, Containment!Move
<1>7. CASE Contain(w)
  BY <1>4, <1>5, <1>7 DEF Contain, Containment!Confirm, Containment!Move
<1>8. CASE GiveUp(w)
  BY <1>4, <1>5, <1>8 DEF GiveUp, Containment!Abandon, Containment!Move
<1> QED  BY <1>3, <1>6, <1>7, <1>8

(* Alerts that were dispatched, and failures, are not taken back.          *)
LEMMA RecordsStay == [Next]_vars => alerted \subseteq alerted' /\ failed \subseteq failed'
<1> SUFFICES ASSUME [Next]_vars PROVE alerted \subseteq alerted' /\ failed \subseteq failed'
  OBVIOUS
<1>1. CASE Others \/ UNCHANGED vars
  BY <1>1 DEF Others, ClientPush, ClientStop, StoreTick, StoreStop, Signal, Shutdown,
              ClientDone, StoreDone, CloseBuffer, Drained, SaveFinal, WriteReport,
              WriteWhitelist, Terminated, vars
<1>2. ASSUME NEW w \in Workers, Work(w)
      PROVE  alerted \subseteq alerted' /\ failed \subseteq failed'
  BY <1>2 DEF Work, Receive, EndOfRange, Route, Track, Decide, Dispatch, Reserve, Contain,
              GiveUp
<1> QED  BY <1>1, <1>2, StepKinds

(* Why a pod may be touched, and which event spares no exempt namespace.   *)
Reason(e, pod) ==
    /\ Accepted(e) /\ e.pod = pod /\ e.action = "AUTO_CONTAINMENT" /\ e \in alerted
    /\ e.namespace \notin Config!ControlPlane

NotListed(e, pod) ==
    /\ Accepted(e) /\ e.pod = pod /\ e.action = "AUTO_CONTAINMENT"
    /\ e.namespace \notin launch.file.exclude

AskedFor == \/ launch.flag = "enforcement"
            \/ launch.flag = "" /\ launch.file # NotLoading /\ launch.file.mode = "enforcement"

(* The same with an event instead of its place in the queue. *)
Justified == \A pod \in Pods : claim[pod] # "free" =>
    /\ AskedFor /\ \E e : Reason(e, pod)
    /\ Config!Loads(launch.file) => \E e : NotListed(e, pod)

LEMMA ReasonMeans == ContainedAfterAlert /\ ExemptInv <=> Justified
<1>1. ASSUME ContainedAfterAlert, ExemptInv, NEW pod \in Pods, claim[pod] # "free"
      PROVE  /\ AskedFor /\ \E e : Reason(e, pod)
             /\ Config!Loads(launch.file) => \E e : NotListed(e, pod)
  <2>1. PICK i \in DOMAIN accepted : Reason(accepted[i], pod)
    BY <1>1 DEF ContainedAfterAlert, Reason, Accepted
  <2>2. ASSUME Config!Loads(launch.file) PROVE \E e : NotListed(e, pod)
    <3>1. PICK j \in DOMAIN accepted : NotListed(accepted[j], pod)
      BY <1>1, <2>2 DEF ExemptInv, ExemptIsLeftAlone, NotListed, Accepted, Config!Loads
    <3> QED  BY <3>1
  <2> QED  BY <1>1, <2>1, <2>2 DEF ContainedAfterAlert, AskedFor
<1>2. ASSUME Justified, NEW pod \in Pods, claim[pod] # "free"
      PROVE  /\ AskedFor
             /\ \E i \in DOMAIN accepted : Reason(accepted[i], pod)
             /\ Config!Loads(launch.file) => \E i \in DOMAIN accepted : NotListed(accepted[i], pod)
  BY <1>2 DEF Justified, Reason, NotListed, Accepted
<1>3. Justified => ContainedAfterAlert
  BY <1>2 DEF ContainedAfterAlert, AskedFor, Reason
<1>4. Justified => ExemptInv
  BY <1>2 DEF ExemptInv, ExemptIsLeftAlone, NotListed
<1> QED  BY <1>1, <1>3, <1>4 DEF Justified

(* A claim begins with a worker that knows its event to be accepted, not   *)
(* excluded, alerted and to be contained, in a mode that was asked for.    *)
LEMMA ContainedStep ==
    ASSUME TypeOK, WorkInv, Justified, [Next]_vars PROVE Justified'
<1> SUFFICES ASSUME NEW pod \in Pods, claim'[pod] # "free"
             PROVE  /\ AskedFor' /\ \E e : Reason(e, pod)'
                    /\ Config!Loads(launch.file)' => \E e : NotListed(e, pod)'
  BY DEF Justified, Pods
<1>1. launch' = launch /\ (Config!Loads(launch.file)' <=> Config!Loads(launch.file))
  BY LaunchStays DEF Config!Loads, Config!AgentModes
<1>2. ASSUME NEW e, Reason(e, pod) PROVE Reason(e, pod)'
  BY <1>2, AcceptedStays, RecordsStay DEF Reason, Config!ControlPlane
<1>3. ASSUME NEW e, NotListed(e, pod) PROVE NotListed(e, pod)'
  BY <1>1, <1>3, AcceptedStays DEF NotListed
<1>4. CASE claim'[pod] = claim[pod]
  BY <1>1, <1>2, <1>3, <1>4 DEF AskedFor, Justified
<1>5. CASE claim'[pod] # claim[pod]
  <2>1. PICK w \in Workers : /\ event[w].pod = pod
                             /\ pc[w] \in {"reserve", "patch"}
    BY <1>5, ClaimMoves DEF Contain, GiveUp
  <2>2. /\ ~Learns /\ ~Excluded(event[w]) /\ event[w].action = "AUTO_CONTAINMENT"
        /\ event[w] \in alerted /\ Accepted(event[w])
    BY <2>1 DEF WorkInv, Accepted
  <2>3. AskedFor
    BY <2>2, ModeIsAskedFor DEF TypeOK, AskedFor, Learns
  <2>4. Reason(event[w], pod)
    BY <2>1, <2>2, NotExcluded DEF TypeOK, Reason
  <2>5. Config!Loads(launch.file) => NotListed(event[w], pod)
    BY <2>1, <2>2, NotExcluded DEF TypeOK, NotListed
  <2> QED  BY <1>1, <1>2, <1>3, <2>3, <2>4, <2>5 DEF AskedFor
<1> QED  BY <1>4, <1>5

-----------------------------------------------------------------------------
(* What a worker does to a pod it patches: it goes on patching, succeeds,  *)
(* or reports the failure and gives the claim back.                        *)
LEMMA PatchingKept ==
    ASSUME TypeOK, [Next]_vars, NEW pod \in Pods, Patching(pod)
    PROVE  \/ Patching(pod)'
           \/ claim'[pod] = "contained"
           \/ claim'[pod] = "free" /\ pod \in failed'
<1> USE DEF TypeOK
<1> PICK v \in Workers : pc[v] = "patch" /\ event[v].pod = pod
  BY DEF Patching
<1>1. CASE pc'[v] = pc[v] /\ event'[v] = event[v]
  BY <1>1 DEF Patching
<1>2. ASSUME NEW w \in Workers, Work(w), w # v PROVE pc'[v] = pc[v] /\ event'[v] = event[v]
  BY <1>2 DEF Work, Receive, EndOfRange, Route, Track, Decide, Dispatch, Reserve, Contain,
              GiveUp
<1>3. CASE Others \/ UNCHANGED vars
  BY <1>1, <1>3 DEF Others, ClientPush, ClientStop, StoreTick, StoreStop, Signal, Shutdown,
              ClientDone, StoreDone, CloseBuffer, Drained, SaveFinal, WriteReport,
              WriteWhitelist, Terminated, vars
<1>4. CASE Work(v)
  <2>1. Contain(v) \/ GiveUp(v)
    BY <1>4 DEF Work, Receive, EndOfRange, Route, Track, Decide, Dispatch, Reserve
  <2> QED
    BY <2>1 DEF Contain, GiveUp, Containment!Confirm, Containment!Abandon, Containment!Move
<1> QED  BY <1>1, <1>2, <1>3, <1>4, StepKinds

(* A pod that has to be contained is, or its failure was reported, or a    *)
(* worker is at it.                                                        *)
Handled(pod) == claim[pod] = "contained" \/ pod \in failed \/ Patching(pod) \/ OnTheWay(pod)

BusyIsPatched == \A pod \in Pods : claim[pod] = "busy" => Patching(pod)

(* A worker on the way to a pod gets nearer; should it find the pod        *)
(* claimed, another has contained it or is about to.                       *)
LEMMA HandledKept ==
    ASSUME TypeOK, BusyIsPatched, [Next]_vars, NEW pod \in Pods, Handled(pod)
    PROVE  Handled(pod)'
<1> USE DEF TypeOK
<1>1. CASE claim[pod] = "contained"
  BY <1>1, ClaimMoves DEF Handled
<1>2. CASE pod \in failed
  BY <1>2, RecordsStay DEF Handled
<1>3. ASSUME Patching(pod) PROVE Handled(pod)'
  BY <1>3, PatchingKept DEF Handled
<1>4. CASE OnTheWay(pod)
  <2> PICK v \in Workers : /\ pc[v] \in {"route", "decide", "dispatch", "reserve"}
                           /\ event[v].pod = pod /\ Asks(event[v])
    BY <1>4 DEF OnTheWay
  <2>1. CASE pc'[v] = pc[v] /\ event'[v] = event[v]
    BY <2>1, LaunchStays DEF Handled, OnTheWay
  <2>2. CASE Others \/ UNCHANGED vars
    BY <2>1, <2>2 DEF Others, ClientPush, ClientStop, StoreTick, StoreStop, Signal, Shutdown,
                ClientDone, StoreDone, CloseBuffer, Drained, SaveFinal, WriteReport,
                WriteWhitelist, Terminated, vars
  <2>3. ASSUME NEW w \in Workers, Work(w), w # v
        PROVE  pc'[v] = pc[v] /\ event'[v] = event[v]
    BY <2>3 DEF Work, Receive, EndOfRange, Route, Track, Decide, Dispatch, Reserve, Contain,
                GiveUp
  <2>4. CASE Work(v)
    <3>1. ~Learns /\ ~Excluded(event[v]) /\ Scored(event[v])
          /\ event[v].action = "AUTO_CONTAINMENT"
      BY DEF Asks, Learns
    <3>2. CASE Route(v) \/ Decide(v) \/ Dispatch(v)
      <4>1. event'[v] = event[v] /\ pc'[v] \in {"decide", "dispatch", "reserve"}
        BY <3>1, <3>2 DEF Route, Decide, Dispatch
      <4> QED  BY <4>1, LaunchStays DEF Handled, OnTheWay
    <3>3. CASE Reserve(v)
      <4>1. CASE pc'[v] = "patch"
        BY <3>3, <4>1 DEF Reserve, Handled, Patching
      <4>2. CASE pc'[v] = "range"
        <5>1. claim[pod] \in {"busy", "contained"}
          BY <3>3, <4>2 DEF Reserve
        <5> QED  BY <1>1, <1>3, <5>1 DEF BusyIsPatched
      <4> QED  BY <3>3, <4>1, <4>2 DEF Reserve
    <3> QED
      BY <2>4, <3>2, <3>3 DEF Work, Receive, EndOfRange, Track, Contain, GiveUp
  <2> QED  BY <2>1, <2>2, <2>3, <2>4, StepKinds
<1> QED  BY <1>1, <1>2, <1>3, <1>4 DEF Handled

LEMMA RedStep == ASSUME TypeOK, RedInv, [Next]_vars PROVE RedInv'
<1> USE DEF TypeOK
<1>1. BusyIsPatched /\ \A i \in DOMAIN taken : Asks(taken[i]) => Handled(taken[i].pod)
  BY DEF RedInv, BusyIsPatched, Handled
<1>2. ASSUME NEW pod \in Pods, claim'[pod] = "busy" PROVE Patching(pod)'
  <2>1. CASE claim'[pod] = claim[pod]
    BY <1>1, <1>2, <2>1, PatchingKept DEF BusyIsPatched
  <2>2. CASE claim'[pod] # claim[pod]
    BY <1>2, <2>2, ClaimMoves DEF Patching
  <2> QED  BY <2>1, <2>2
<1>3. ASSUME NEW i \in DOMAIN taken', Asks(taken[i])' PROVE Handled(taken[i].pod)'
  <2>1. ASSUME i \in DOMAIN taken, taken'[i] = taken[i] PROVE Handled(taken[i].pod)'
    <3>1. taken[i].pod \in Pods
      BY <2>1 DEF Pods
    <3>2. Asks(taken[i])
      BY <1>3, <2>1, LaunchStays
    <3>3. ASSUME NEW pod, pod = taken[i].pod PROVE Handled(pod)'
      BY <1>1, <2>1, <3>1, <3>2, <3>3, HandledKept
    <3>4. taken'[i].pod = taken[i].pod
      BY <2>1
    <3> QED  BY <3>3, <3>4 DEF Handled, Patching, OnTheWay
  <2>2. CASE taken' = taken
    BY <2>1, <2>2
  <2>3. ASSUME NEW w \in Workers, Receive(w) PROVE Handled(taken[i].pod)'
    <3>1. CASE i \in DOMAIN taken
      BY <2>1, <2>3, <3>1, QueueSteps DEF Receive
    <3>2. CASE i \notin DOMAIN taken
      <4>1. i = Len(taken') /\ event'[w] = taken'[i] /\ pc'[w] = "route"
        BY <2>3, <3>2, QueueSteps DEF Receive
      <4> QED  BY <1>3, <4>1 DEF Handled, OnTheWay
    <3> QED  BY <3>1, <3>2
  <2>4. ASSUME ~ \E w \in Workers : Receive(w) PROVE taken' = taken
    <3>1. CASE Others \/ UNCHANGED vars
      BY <3>1 DEF Others, ClientPush, Buffer!Accept, Buffer!Lose, ClientStop, StoreTick,
                  StoreStop, Signal, Shutdown, ClientDone, StoreDone, CloseBuffer,
                  Buffer!Close, Drained, SaveFinal, WriteReport, WriteWhitelist, Terminated,
                  vars
    <3>2. ASSUME NEW w \in Workers, Work(w) PROVE taken' = taken
      BY <2>4, <3>2 DEF Work, EndOfRange, Route, Track, Decide, Dispatch, Reserve, Contain,
                        GiveUp
    <3> QED  BY <3>1, <3>2, StepKinds
  <2> QED  BY <2>2, <2>3, <2>4
<1> QED  BY <1>2, <1>3 DEF RedInv, Handled

-----------------------------------------------------------------------------
(* The tracker.  What it says of a lineage does not depend on the order of *)
(* the events it was shown.                                                *)
LEMMA EarlierOrLater ==
    ASSUME NEW a \in Int, NEW b \in Int
    PROVE  /\ Discovery!Min({a, b}) = IF a <= b THEN a ELSE b
           /\ Discovery!Max({a, b}) = IF a <= b THEN b ELSE a
<1>1. \E x \in {a, b} : \A y \in {a, b} : x <= y
  OBVIOUS
<1>2. \E x \in {a, b} : \A y \in {a, b} : x >= y
  OBVIOUS
<1>3. Discovery!Min({a, b}) \in {a, b} /\ \A y \in {a, b} : Discovery!Min({a, b}) <= y
  BY <1>1 DEF Discovery!Min
<1>4. Discovery!Max({a, b}) \in {a, b} /\ \A y \in {a, b} : Discovery!Max({a, b}) >= y
  BY <1>2 DEF Discovery!Max
<1> QED  BY <1>3, <1>4

LEMMA SeenOnceMore ==
    ASSUME NEW p, NEW time \in Int, p.first \in Int, p.last \in Int, p.first <= p.last
    PROVE  LET q == Discovery!Seen(p, time) IN
           /\ q.count = p.count + 1
           /\ q.first \in {p.first, time} /\ q.first <= p.first /\ q.first <= time
           /\ q.last \in {p.last, time} /\ q.last >= p.last /\ q.last >= time
<1>1. /\ Discovery!Min({p.first, time}) = IF p.first <= time THEN p.first ELSE time
      /\ Discovery!Max({p.last, time}) = IF p.last <= time THEN time ELSE p.last
  BY EarlierOrLater
<1>2. /\ Discovery!Min({p.first, time}) \in {p.first, time}
      /\ Discovery!Min({p.first, time}) <= p.first /\ Discovery!Min({p.first, time}) <= time
      /\ Discovery!Max({p.last, time}) \in {p.last, time}
      /\ Discovery!Max({p.last, time}) >= p.last /\ Discovery!Max({p.last, time}) >= time
  BY <1>1
<1> QED  BY <1>2 DEF Discovery!Seen

(* A baseline that was restored counts, and its windows do not end before  *)
(* they begin.                                                             *)
LEMMA RestoredIsSound ==
    ASSUME launch \in Launches
    PROVE  /\ restored.total \in Nat /\ IsFiniteSet(DOMAIN restored.patterns)
           /\ \A key : Before(key) \in Nat
           /\ \A key : \A time \in Window(key) : time \in Int
           /\ \A key \in DOMAIN restored.patterns :
                 LET p == restored.patterns[key]
                 IN  p.count \in Nat /\ p.first \in Int /\ p.last \in Int /\ p.first <= p.last
<1>1. /\ restored.total \in Nat /\ IsFiniteSet(DOMAIN restored.patterns)
      /\ \A key \in DOMAIN restored.patterns :
            LET p == restored.patterns[key]
            IN  p.count \in Nat /\ p.first \in Int /\ p.last \in Int /\ p.first <= p.last
  BY BaselinesAssumption DEF restored
<1> QED  BY <1>1 DEF Before, Window

LEMMA TrackAdds ==
    ASSUME launch \in Launches,
           NEW t, NEW places, IsFiniteSet(places), NEW i, i \notin places,
           \A j \in places \cup {i} : accepted[j] \in Events,
           Summarises(t, places)
    PROVE  Summarises(Discovery!Track(t, accepted[i]), places \cup {i})
<1> DEFINE e == accepted[i]
           k == Discovery!Key(e)
           more == places \cup {i}
           u == Discovery!Track(t, e)
<1> SUFFICES Summarises(u, more)
  OBVIOUS
<1>0. /\ restored.total \in Nat /\ (\A key : Before(key) \in Nat)
      /\ \A key : \A time \in Window(key) : time \in Int
  BY RestoredIsSound
<1>1. u.total = restored.total + Cardinality(more)
  <2>1. Cardinality(more) = Cardinality(places) + 1 /\ Cardinality(places) \in Nat
    BY FS_AddElement, FS_CardinalityType
  <2>2. u.total = restored.total + Cardinality(places) + 1
    BY DEF Discovery!Track, Summarises
  <2> HIDE DEF u, more
  <2> QED  BY <1>0, <2>1, <2>2
<1>2. ASSUME NEW j \in more PROVE accepted[j].time \in Int
  BY EventsAssumption
<1>3. CASE ~Discovery!HasLineage(e)
  <2>1. u.patterns = t.patterns
    BY <1>3 DEF Discovery!Track
  <2>2. Lineages(more) = Lineages(places)
    BY <1>3 DEF Lineages
  <2>3. /\ Observed(more) = Observed(places)
        /\ \A key : Among(more, key) = Among(places, key) /\ Times(more, key) = Times(places, key)
    BY <2>2 DEF Among, Observed, Times
  <2> HIDE DEF u, more
  <2> QED  BY <1>1, <2>1, <2>3 DEF Summarises
<1>4. CASE Discovery!HasLineage(e)
  <2>1. /\ DOMAIN u.patterns = DOMAIN t.patterns \cup {k}
        /\ \A key \in DOMAIN t.patterns : key # k => u.patterns[key] = t.patterns[key]
        /\ k \in DOMAIN t.patterns => u.patterns[k] = Discovery!Seen(t.patterns[k], e.time)
        /\ k \notin DOMAIN t.patterns => u.patterns[k] = Discovery!First(e.time)
    BY <1>4 DEF Discovery!Track
  <2>2. Lineages(more) = Lineages(places) \cup {i}
    BY <1>4 DEF Lineages
  <2>3. \A key : key # k => Among(more, key) = Among(places, key) /\ Times(more, key) = Times(places, key)
    BY <2>2 DEF Among, Times
  <2>4. /\ Among(more, k) = Among(places, k) \cup {i}
        /\ Times(more, k) = Times(places, k) \cup {e.time}
    <3>1. Among(more, k) = Among(places, k) \cup {i}  BY <2>2 DEF Among
    <3>2. {accepted[j].time : j \in Among(more, k)}
             = {accepted[j].time : j \in Among(places, k)} \cup {e.time}
      BY <3>1
    <3> QED  BY <3>1, <3>2 DEF Times
  <2>5. /\ IsFiniteSet(Among(places, k)) /\ i \notin Among(places, k)
        /\ Among(places, k) \subseteq places
    <3>1. Among(places, k) \subseteq places  BY DEF Among, Lineages
    <3> QED  BY <3>1, FS_Subset
  <2>6. /\ Cardinality(Among(more, k)) = Cardinality(Among(places, k)) + 1
        /\ Cardinality(Among(places, k)) \in Nat
    BY <2>4, <2>5, FS_AddElement, FS_CardinalityType
  <2>7. DOMAIN t.patterns = Observed(places)
    BY DEF Summarises
  <2>8. DOMAIN u.patterns = Observed(more)
    <3>1. Observed(more) = Observed(places) \cup {k}
      BY <2>2 DEF Observed
    <3> QED  BY <2>1, <2>7, <3>1
  <2>9. /\ e.time \in Int
        /\ \A time \in Times(places, k) : time \in Int
    <3>1. \A j \in Among(places, k) : accepted[j].time \in Int
      BY <1>2, <2>5
    <3> QED  BY <1>0, <1>2, <3>1 DEF Times
  <2> HIDE DEF u, more, k, e
  <2>10. ASSUME NEW key \in DOMAIN u.patterns
         PROVE  LET p == u.patterns[key]
                IN  /\ p.count = Before(key) + Cardinality(Among(more, key))
                    /\ {p.first, p.last} \subseteq Times(more, key)
                    /\ \A time \in Times(more, key) : p.first <= time /\ time <= p.last
    <3>1. CASE key # k
      <4>1. key \in DOMAIN t.patterns /\ u.patterns[key] = t.patterns[key]
        BY <2>1, <3>1
      <4> QED  BY <2>3, <3>1, <4>1 DEF Summarises
    <3>2. CASE key = k /\ k \in DOMAIN t.patterns
      <4> DEFINE p == t.patterns[k]
                 q == Discovery!Seen(p, e.time)
      <4>1. /\ p.count = Before(k) + Cardinality(Among(places, k))
            /\ {p.first, p.last} \subseteq Times(places, k)
            /\ \A time \in Times(places, k) : p.first <= time /\ time <= p.last
        BY <3>2 DEF Summarises
      <4>2. p.first \in Int /\ p.last \in Int /\ p.first <= p.last
        BY <2>9, <4>1
      <4>3. /\ q.count = p.count + 1
            /\ q.first \in {p.first, e.time} /\ q.first <= p.first /\ q.first <= e.time
            /\ q.last \in {p.last, e.time} /\ q.last >= p.last /\ q.last >= e.time
        BY <2>9, <4>2, SeenOnceMore
      <4>4. u.patterns[key] = q
        BY <2>1, <3>2
      <4> HIDE DEF p, q
      <4>5. q.count = Before(k) + Cardinality(Among(more, k))
        BY <1>0, <2>6, <4>1, <4>3
      <4>6. {q.first, q.last} \subseteq Times(more, k)
        BY <2>4, <4>1, <4>3
      <4>7. ASSUME NEW time \in Times(more, k) PROVE q.first <= time /\ time <= q.last
        <5>1. q.first \in Int /\ q.last \in Int
          BY <2>9, <4>2, <4>3
        <5>2. CASE time = e.time
          BY <2>9, <4>3, <5>1, <5>2
        <5>3. CASE time \in Times(places, k)
          <6>1. time \in Int /\ p.first <= time /\ time <= p.last
            BY <2>9, <4>1, <5>3
          <6> QED  BY <4>2, <4>3, <5>1, <6>1
        <5> QED  BY <2>4, <4>7, <5>2, <5>3
      <4> QED  BY <3>2, <4>4, <4>5, <4>6, <4>7
    <3>3. CASE key = k /\ k \notin DOMAIN t.patterns
      <4>1. Among(places, k) = {} /\ Before(k) = 0 /\ Window(k) = {}
        BY <2>7, <3>3 DEF Among, Observed, Before, Window
      <4>2. Cardinality(Among(more, k)) = 1
        <5>1. Among(more, k) = {i}  BY <2>4, <4>1
        <5>2. Cardinality({i}) = 1  BY FS_Singleton
        <5> QED  BY <5>1, <5>2
      <4>3. Times(more, k) = {e.time}
        BY <2>4, <4>1 DEF Times
      <4>4. u.patterns[k] = [count |-> 1, first |-> e.time, last |-> e.time]
        BY <2>1, <3>3 DEF Discovery!First
      <4> QED  BY <2>9, <3>3, <4>1, <4>2, <4>3, <4>4
    <3> QED  BY <3>1, <3>2, <3>3
  <2> QED  BY <1>1, <2>8, <2>10 DEF Summarises
<1> QED  BY <1>3, <1>4

(* What the tracker ought to hold while the workers hold these places.     *)
Done(at) == {i \in 1..Len(taken) : ~Excluded(accepted[i]) /\ \A w \in Holding : at[w] # i}
Held(at) == \A w \in Holding :
    /\ at[w] > 0 /\ event[w] = accepted[at[w]]
    /\ \A v \in Holding \ {w} : at[v] # at[w]
    /\ pc[w] = "track" => ~Excluded(event[w])

LEMMA DoneIsFinite ==
    ASSUME TypeOK, QueueInv, NEW at
    PROVE  IsFiniteSet(Done(at)) /\ \A i \in Done(at) : i \in DOMAIN accepted /\ accepted[i] \in Events
<1>1. Done(at) \in SUBSET (1..Len(taken)) /\ IsFiniteSet(1..Len(taken))
  BY FS_Interval DEF Done, TypeOK
<1>2. \A i \in 1..Len(taken) : i \in DOMAIN accepted /\ accepted[i] \in Events
  BY DEF TypeOK, QueueInv
<1> QED  BY <1>1, <1>2, FS_Subset

LEMMA SummaryStays ==
    ASSUME NEW t, NEW places, Summarises(t, places), launch' = launch,
           \A i \in places : accepted'[i] = accepted[i]
    PROVE  Summarises(t, places)'
<1>0. restored' = restored /\ \A key : Before(key)' = Before(key) /\ Window(key)' = Window(key)
  BY DEF restored, Before, Window
<1>1. Lineages(places)' = Lineages(places) /\ \A i \in Lineages(places) : accepted'[i] = accepted[i]
  BY DEF Lineages
<1>2. \A key : Among(places, key)' = {i \in Lineages(places)' : Discovery!Key(accepted'[i]) = key}
  BY DEF Among
<1>3. \A key : Among(places, key)' = Among(places, key)
  BY <1>1, <1>2 DEF Among
<1>4. \A key : {accepted'[i].time : i \in Among(places, key)} = {accepted[i].time : i \in Among(places, key)}
  BY <1>1 DEF Among
<1>5. \A key : Times(places, key)' = Window(key)' \cup {accepted'[i].time : i \in Among(places, key)'}
  BY DEF Times
<1>6. \A key : Times(places, key)' = Times(places, key)
  BY <1>0, <1>3, <1>4, <1>5 DEF Times
<1>7. {Discovery!Key(accepted'[i]) : i \in Lineages(places)} = {Discovery!Key(accepted[i]) : i \in Lineages(places)}
  BY <1>1
<1>8. Observed(places)' = DOMAIN restored'.patterns \cup {Discovery!Key(accepted'[i]) : i \in Lineages(places)'}
  BY DEF Observed
<1>9. Observed(places)' = Observed(places)
  BY <1>0, <1>1, <1>7, <1>8 DEF Observed
<1>10. /\ t.total = restored'.total + Cardinality(places)
       /\ DOMAIN t.patterns = Observed(places)'
  BY <1>0, <1>9 DEF Summarises
<1>11. ASSUME NEW key \in DOMAIN t.patterns
       PROVE  LET p == t.patterns[key]
              IN  /\ p.count = Before(key)' + Cardinality(Among(places, key)')
                  /\ {p.first, p.last} \subseteq Times(places, key)'
                  /\ \A time \in Times(places, key)' : p.first <= time /\ time <= p.last
  BY <1>0, <1>3, <1>6 DEF Summarises
<1> QED  BY <1>10, <1>11 DEF Summarises

LEMMA LearntSame ==
    ASSUME TypeOK, QueueInv, LearntInv, launch' = launch, Learns' = Learns, UNCHANGED <<taken, learnt, event>>,
           \A e : Excluded(e)' = Excluded(e),
           Holding' = Holding, \A w \in Holding : pc'[w] = pc[w],
           \A i \in DOMAIN accepted : accepted'[i] = accepted[i]
    PROVE  LearntInv'
<1> SUFFICES ASSUME Learns PROVE
        \E at \in [Workers -> 0..Len(taken')] : Held(at)' /\ Summarises(learnt, Done(at))'
  BY DEF LearntInv, Held, Done
<1>1. PICK at \in [Workers -> 0..Len(taken)] : Held(at) /\ Summarises(learnt, Done(at))
  BY DEF LearntInv, Held, Done
<1>2. \A i \in 1..Len(taken) : i \in DOMAIN accepted /\ accepted'[i] = accepted[i]
  BY DEF QueueInv, TypeOK
<1>3. Held(at)'
  <2>1. \A w \in Holding : at[w] \in 1..Len(taken)
    BY <1>1 DEF Held, TypeOK, Holding
  <2> QED  BY <1>1, <1>2, <2>1 DEF Held
<1>4. Done(at)' = Done(at)
  BY <1>2 DEF Done
<1>5. Summarises(learnt, Done(at))'
  <2>1. \A i \in Done(at) : accepted'[i] = accepted[i]
    BY DoneIsFinite
  <2> HIDE DEF Done
  <2>2. ASSUME NEW t, NEW places, t = learnt, places = Done(at) PROVE Summarises(t, places)'
    BY <1>1, <2>1, <2>2, SummaryStays
  <2> QED  BY <2>2, <1>4
<1> QED  BY <1>1, <1>3, <1>4, <1>5

LEMMA LearntStep == ASSUME TypeOK, QueueInv, WorkInv, LearntInv, [Next]_vars PROVE LearntInv'
<1>0. launch' = launch /\ Learns' = Learns /\ \A e : Excluded(e)' = Excluded(e)
  BY LaunchStays
<1>1. CASE Others \/ UNCHANGED vars
  <2>1. UNCHANGED <<taken, learnt, event, pc>>
    BY <1>1 DEF Others, ClientPush, Buffer!Accept, Buffer!Lose, ClientStop, StoreTick, StoreStop,
                Signal, Shutdown, ClientDone, StoreDone, CloseBuffer, Buffer!Close, Drained,
                SaveFinal, WriteReport, WriteWhitelist, Terminated, vars
  <2>2. \A i \in DOMAIN accepted : accepted'[i] = accepted[i]
    <3>1. accepted' = accepted \/ Buffer!Accept
      BY <1>1 DEF Others, ClientPush, Buffer!Lose, ClientStop, StoreTick, StoreStop,
                  Signal, Shutdown, ClientDone, StoreDone, CloseBuffer, Buffer!Close, Drained,
                  SaveFinal, WriteReport, WriteWhitelist, Terminated, vars
    <3> QED  BY <3>1, QueueSteps
  <2>3. Holding' = Holding
    BY <2>1 DEF Holding
  <2> QED  BY <1>0, <2>1, <2>2, <2>3, LearntSame
<1>2. ASSUME NEW w \in Workers, Work(w) PROVE LearntInv'
  <2> SUFFICES ASSUME Learns PROVE
          \E at \in [Workers -> 0..Len(taken')] : Held(at)' /\ Summarises(learnt, Done(at))'
    BY <1>0 DEF LearntInv, Held, Done
  <2>0. accepted' = accepted /\ (Holding \subseteq Workers)
    BY <1>2 DEF Work, Receive, EndOfRange, Route, Track, Decide, Dispatch, Reserve, Contain,
                GiveUp, Buffer!Take, Holding
  <2>1. PICK at \in [Workers -> 0..Len(taken)] : Held(at) /\ Summarises(learnt, Done(at))
    BY DEF LearntInv, Held, Done
  <2>2. CASE Receive(w)
    <3> PICK n : n = Len(taken) + 1
      OBVIOUS
    <3> PICK there : there = [at EXCEPT ![w] = n]
      OBVIOUS
    <3>1. /\ n = Len(taken) + 1 /\ Len(taken') = n /\ Len(taken) \in Nat /\ taken'[n] = accepted[n]
          /\ pc[w] = "range" /\ pc' = [pc EXCEPT ![w] = "route"] /\ learnt' = learnt
          /\ event' = [event EXCEPT ![w] = accepted[n]]
      <4>1. /\ Buffer!Take /\ pc[w] = "range" /\ pc' = [pc EXCEPT ![w] = "route"]
            /\ event' = [event EXCEPT ![w] = taken'[Len(taken')]] /\ learnt' = learnt
        BY <2>2 DEF Receive
      <4>2. Len(taken') = Len(taken) + 1 /\ taken'[Len(taken')] = accepted[Len(taken')]
        BY <4>1, QueueSteps
      <4>3. Len(taken) \in Nat
        BY DEF TypeOK
      <4> QED  BY <4>1, <4>2, <4>3
    <3>2. there \in [Workers -> 0..n] /\ there \in [Workers -> 0..Len(taken')]
      BY <2>1, <3>1
    <3>3. Holding' = Holding \cup {w} /\ w \notin Holding
      BY <3>1 DEF Holding, TypeOK
    <3>4. there[w] = n /\ \A v \in Holding : there[v] = at[v] /\ at[v] <= Len(taken)
      BY <2>0, <2>1, <3>1, <3>3
    <3>5. Held(there)'
      <4>1. pc'[w] = "route" /\ event'[w] = accepted[n]
        BY <3>1 DEF TypeOK
      <4>2. \A v \in Holding : v # w /\ pc'[v] = pc[v] /\ event'[v] = event[v]
        BY <2>0, <3>1, <3>3 DEF TypeOK
      <4>3. ASSUME NEW v \in Holding'
            PROVE  /\ there[v] > 0 /\ event'[v] = accepted[there[v]]
                   /\ \A u \in Holding' \ {v} : there[u] # there[v]
                   /\ pc'[v] = "track" => ~Excluded(event'[v])
        <5>1. CASE v = w
          <6>1. \A u \in Holding : there[u] # there[w]
            <7> TAKE u \in Holding
            <7>1. there[u] <= Len(taken) /\ there[u] \in Int
              BY <2>0, <2>1, <3>4
            <7> QED  BY <3>1, <3>4, <7>1
          <6> QED  BY <3>1, <3>3, <3>4, <4>1, <5>1, <6>1
        <5>2. CASE v # w
          <6>1. v \in Holding  BY <3>3, <5>2
          <6>2. there[v] = at[v] /\ there[v] # there[w]
            <7>1. at[v] \in Int  BY <2>0, <2>1, <6>1
            <7> QED  BY <3>1, <3>4, <6>1, <7>1
          <6> QED  BY <2>1, <3>3, <3>4, <4>2, <6>1, <6>2 DEF Held
        <5> QED  BY <5>1, <5>2
      <4> QED  BY <1>0, <2>0, <4>3 DEF Held
    <3>6. Done(there)' = Done(at)
      <4>1. Done(there)' = {i \in 1..n : ~Excluded(accepted[i]) /\ \A v \in Holding' : there[v] # i}
        BY <1>0, <2>0, <3>1 DEF Done
      <4>2. ASSUME NEW i \in 1..n
            PROVE  (\A v \in Holding' : there[v] # i)
                   <=> i \in 1..Len(taken) /\ (\A v \in Holding : at[v] # i)
        <5>1. CASE i = n
          BY <3>1, <3>3, <3>4, <5>1
        <5>2. CASE i # n
          BY <3>1, <3>3, <3>4, <5>2
        <5> QED  BY <5>1, <5>2
      <4> QED  BY <3>1, <4>1, <4>2 DEF Done
    <3>7. Summarises(learnt, Done(there))'
      <4>1. ASSUME NEW t, NEW places, t = learnt, places = Done(at) PROVE Summarises(t, places)'
        BY <1>0, <2>0, <2>1, <4>1, SummaryStays
      <4> QED  BY <3>1, <3>6, <4>1
    <3> QED  BY <3>2, <3>5, <3>7
  <2>3. CASE EndOfRange(w)
    <3>1. UNCHANGED <<taken, learnt, event>> /\ pc[w] = "range" /\ pc' = [pc EXCEPT ![w] = "exited"]
      BY <2>3 DEF EndOfRange
    <3>2. Holding' = Holding /\ \A v \in Holding : pc'[v] = pc[v]
      BY <3>1 DEF Holding, TypeOK
    <3>3. LearntInv'
      BY <1>0, <2>0, <3>1, <3>2, LearntSame
    <3> QED  BY <1>0, <3>3 DEF LearntInv, Held, Done
  <2>4. CASE Route(w)
    <3>1. /\ UNCHANGED <<taken, learnt, event>> /\ pc[w] = "route" /\ w \in Holding
          /\ pc' = [pc EXCEPT ![w] = IF Excluded(event[w]) THEN "range" ELSE "track"]
      BY <2>4 DEF Route, Holding
    <3>2. CASE ~Excluded(event[w])
      <4>1. Holding' = Holding
        BY <3>1, <3>2 DEF Holding, TypeOK
      <4>2. Done(at)' = Done(at)
        BY <1>0, <2>0, <3>1, <4>1 DEF Done
      <4>3. Held(at)'
        <5>1. \A v \in Holding : (pc'[v] = "track" => ~Excluded(event[v]))
          BY <2>0, <2>1, <3>1, <3>2 DEF Held, TypeOK
        <5> QED  BY <1>0, <2>0, <2>1, <3>1, <4>1, <5>1 DEF Held
      <4>4. Summarises(learnt, Done(at))'
        <5>1. ASSUME NEW t, NEW places, t = learnt, places = Done(at) PROVE Summarises(t, places)'
          BY <1>0, <2>0, <2>1, <5>1, SummaryStays
        <5> QED  BY <3>1, <4>2, <5>1
      <4> QED  BY <2>1, <3>1, <4>3, <4>4
    <3>3. CASE Excluded(event[w])
      <4>1. Holding' = Holding \ {w} /\ \A v \in Holding' : pc'[v] = pc[v]
        BY <3>1, <3>3 DEF Holding, TypeOK
      <4>2. Done(at)' = Done(at)
        <5>1. Excluded(accepted[at[w]])
          BY <2>1, <3>1, <3>3 DEF Held
        <5>2. Done(at)' = {i \in 1..Len(taken) : ~Excluded(accepted[i]) /\ \A v \in Holding' : at[v] # i}
          BY <1>0, <2>0, <3>1 DEF Done
        <5> QED  BY <3>1, <4>1, <5>1, <5>2 DEF Done
      <4>3. Held(at)'
        BY <1>0, <2>0, <2>1, <3>1, <4>1 DEF Held
      <4>4. Summarises(learnt, Done(at))'
        <5>1. ASSUME NEW t, NEW places, t = learnt, places = Done(at) PROVE Summarises(t, places)'
          BY <1>0, <2>0, <2>1, <5>1, SummaryStays
        <5> QED  BY <3>1, <4>2, <5>1
      <4> QED  BY <2>1, <3>1, <4>3, <4>4
    <3> QED  BY <3>2, <3>3
  <2>5. CASE Track(w)
    <3>1. /\ UNCHANGED <<taken, event>> /\ pc[w] = "track" /\ w \in Holding
          /\ pc' = [pc EXCEPT ![w] = "range"]
          /\ learnt' = Discovery!Track(learnt, event[w])
      BY <2>5 DEF Track, Holding
    <3>2. Holding' = Holding \ {w} /\ \A v \in Holding' : pc'[v] = pc[v]
      BY <3>1 DEF Holding, TypeOK
    <3>3. /\ at[w] \in 1..Len(taken) /\ event[w] = accepted[at[w]] /\ ~Excluded(accepted[at[w]])
          /\ at[w] \notin Done(at) /\ \A v \in Holding \ {w} : at[v] # at[w]
      BY <2>1, <3>1 DEF Held, Done, TypeOK
    <3>4. Done(at)' = Done(at) \cup {at[w]}
      <4>1. Done(at)' = {i \in 1..Len(taken) : ~Excluded(accepted[i]) /\ \A v \in Holding' : at[v] # i}
        BY <1>0, <2>0, <3>1 DEF Done
      <4> QED  BY <3>2, <3>3, <4>1 DEF Done
    <3>5. Held(at)'
      BY <1>0, <2>0, <2>1, <3>1, <3>2 DEF Held
    <3>6. Summarises(Discovery!Track(learnt, accepted[at[w]]), Done(at) \cup {at[w]})
      <4>1. IsFiniteSet(Done(at)) /\ \A j \in Done(at) \cup {at[w]} : accepted[j] \in Events
        <5>1. at[w] \in DOMAIN accepted /\ accepted[at[w]] \in Events
          BY <3>3 DEF TypeOK, QueueInv
        <5> QED  BY <5>1, DoneIsFinite
      <4> HIDE DEF Done
      <4> QED  BY <2>1, <3>3, <4>1, TrackAdds DEF TypeOK
    <3>7. Summarises(learnt, Done(at))'
      <4>1. ASSUME NEW t, NEW places, t = Discovery!Track(learnt, accepted[at[w]]),
                   places = Done(at) \cup {at[w]}
            PROVE  Summarises(t, places)'
        BY <1>0, <2>0, <3>6, <4>1, SummaryStays
      <4> QED  BY <3>1, <3>3, <3>4, <4>1
    <3> QED  BY <2>1, <3>1, <3>5, <3>7
  <2>6. ~(Decide(w) \/ Dispatch(w) \/ Reserve(w) \/ Contain(w) \/ GiveUp(w))
    BY DEF WorkInv, Decide, Dispatch, Reserve, Contain, GiveUp
  <2> QED  BY <1>2, <2>2, <2>3, <2>4, <2>5, <2>6 DEF Work
<1> QED  BY <1>1, <1>2, StepKinds

(* main writes the files once the workers, who alone change what was       *)
(* learnt, have left.                                                      *)
LEMMA FilesStep == ASSUME TypeOK, PhaseInv, FilesInv, [Next]_vars PROVE FilesInv'
<1>0. launch' = launch /\ Learns' = Learns /\ Reports' = Reports
  BY LaunchStays DEF Reports
<1>1. CASE SaveFinal \/ WriteReport \/ WriteWhitelist
  <2>1. learnt' = learnt
    BY <1>1 DEF SaveFinal, WriteReport, WriteWhitelist
  <2>2. CASE SaveFinal
    BY <1>0, <2>1, <2>2 DEF SaveFinal, Write, FilesInv
  <2>3. CASE WriteReport
    BY <1>0, <2>1, <2>3 DEF WriteReport, Write, FilesInv
  <2>4. CASE WriteWhitelist
    BY <1>0, <2>1, <2>4 DEF WriteWhitelist, Write, FilesInv
  <2> QED  BY <1>1, <2>2, <2>3, <2>4
<1>2. CASE StoreTick
  <2>1. main' = main /\ snapshot' = learnt /\ UNCHANGED <<report, whitelist, unwritten, learnt>>
    BY <1>2 DEF StoreTick
  <2> QED  BY <1>0, <2>1 DEF FilesInv
<1>3. CASE ClientPush \/ ClientStop \/ StoreStop \/ Signal \/ Terminated \/ UNCHANGED vars
  BY <1>0, <1>3 DEF ClientPush, ClientStop, StoreStop, Signal, Terminated, vars, FilesInv
<1>4. CASE ClientDone \/ StoreDone \/ CloseBuffer \/ Drained
  BY <1>0, <1>4 DEF ClientDone, StoreDone, CloseBuffer, Drained, FilesInv
<1>5. ASSUME NEW w \in Workers, Work(w) PROVE FilesInv'
  <2>1. main \notin {"save", "report", "whitelist", "terminated"}
    BY <1>5 DEF PhaseInv, Work, Receive, EndOfRange, Route, Track, Decide, Dispatch, Reserve,
                Contain, GiveUp
  <2>2. UNCHANGED <<main, snapshot, report, whitelist, unwritten>>
    BY <1>5 DEF Work, Receive, EndOfRange, Route, Track, Decide, Dispatch, Reserve, Contain, GiveUp
  <2> QED  BY <1>0, <2>1, <2>2 DEF FilesInv
<1> QED  BY <1>1, <1>2, <1>3, <1>4, <1>5, StepKinds DEF Others, Shutdown

-----------------------------------------------------------------------------
LEMMA InitInv == Init => IInv
<1> SUFFICES ASSUME Init PROVE IInv
  OBVIOUS
<1> USE DEF Init, Buffer!Init, Containment!Init
<1>1. TypeOK
  <2>1. accepted \in Seq(Events) /\ taken \in Seq(Events)  OBVIOUS
  <2>2. store \in {"running", "done"}  OBVIOUS
  <2>3. claim \in [Pods -> {"free", "busy", "contained"}]  OBVIOUS
  <2>4. /\ pc \in [Workers -> {"range"}] /\ event \in [Workers -> {NoEvent}]
        /\ launch \in Launches  OBVIOUS
  <2> QED  BY <2>1, <2>2, <2>3, <2>4 DEF TypeOK
<1>2. PhaseInv /\ QueueInv  BY DEF PhaseInv, QueueInv
<1>3. WorkInv  BY DEF WorkInv
<1>4. ContainedAfterAlert /\ ExemptInv
  BY DEF ContainedAfterAlert, ExemptInv, ExemptIsLeftAlone, Pods
<1>5. RedInv  BY DEF RedInv
<1>6. LearntInv
  <2>1. taken = <<>> /\ Holding = {} /\ Len(taken) = 0  BY DEF Holding
  <2>2. [w \in Workers |-> 0] \in [Workers -> 0..Len(taken)]  BY <2>1
  <2>3. \A at : Held(at) /\ Done(at) = {}  BY <2>1 DEF Held, Done
  <2>4. Summarises(learnt, {})
    <3>1. Lineages({}) = {} /\ Cardinality({}) = 0  BY FS_EmptySet DEF Lineages
    <3>2. \A key : Among({}, key) = {} /\ Times({}, key) = Window(key)
      BY <3>1 DEF Among, Times
    <3>3. learnt = restored /\ Observed({}) = DOMAIN restored.patterns
      BY <3>1 DEF Observed
    <3>4. /\ restored.total \in Nat
          /\ \A key \in DOMAIN restored.patterns :
                LET p == restored.patterns[key]
                IN  p.count \in Nat /\ p.first \in Int /\ p.last \in Int /\ p.first <= p.last
      BY RestoredIsSound
    <3> HIDE DEF Init
    <3>5. ASSUME NEW key \in DOMAIN restored.patterns, NEW p, p = restored.patterns[key]
          PROVE  /\ p.count = Before(key) + Cardinality(Among({}, key))
                 /\ {p.first, p.last} \subseteq Times({}, key)
                 /\ \A time \in Times({}, key) : p.first <= time /\ time <= p.last
      <4>1. /\ Window(key) = {p.first, p.last} /\ Before(key) = p.count
            /\ p.count \in Nat /\ p.first \in Int /\ p.last \in Int /\ p.first <= p.last
        BY <3>4, <3>5 DEF Before, Window
      <4> QED  BY <3>1, <3>2, <4>1
    <3> QED  BY <3>1, <3>3, <3>4, <3>5 DEF Summarises
  <2>5. \E at \in [Workers -> 0..Len(taken)] : Held(at) /\ Summarises(learnt, Done(at))
    BY <2>2, <2>3, <2>4
  <2> HIDE DEF Init
  <2> QED  BY <2>5 DEF LearntInv, Held, Done
<1>7. FilesInv  BY DEF FilesInv
<1> QED  BY <1>1, <1>2, <1>3, <1>4, <1>5, <1>6, <1>7 DEF IInv

(* The strengthened invariant holds throughout.                            *)
THEOREM InvariantHolds == Spec => []IInv
<1>1. IInv /\ [Next]_vars => IInv'
  <2> SUFFICES ASSUME IInv, [Next]_vars PROVE IInv'
    OBVIOUS
  <2>1. TypeOK' /\ PhaseInv' /\ QueueInv' /\ WorkInv' /\ RedInv' /\ LearntInv' /\ FilesInv'
    BY TypeStep, PhaseStep, QueueStep, WorkersStep, RedStep, LearntStep, FilesStep DEF IInv
  <2>2. Justified'
    BY ReasonMeans, ContainedStep DEF IInv
  <2>3. ContainedAfterAlert' /\ ExemptInv'
    BY <2>2, ReasonMeans, PTL
  <2> QED  BY <2>1, <2>3 DEF IInv
<1> QED  BY <1>1, InitInv, PTL DEF Spec

(* Every variable keeps to its type, however many workers, events and pods *)
(* there are (TypeOK).                                                     *)
THEOREM TypeCorrect == Spec => []TypeOK
<1>1. IInv => TypeOK  BY DEF IInv
<1> QED  BY <1>1, InvariantHolds, PTL

(* A worker that dispatches, claims or patches does so under a context the *)
(* shutdown has not cancelled (main.go:512-515).                           *)
THEOREM LiveContext == Spec => []WorkUnderLiveContext
<1>1. IInv => WorkUnderLiveContext
  BY DEF IInv, TypeOK, PhaseInv, WorkUnderLiveContext
<1> QED  BY <1>1, InvariantHolds, PTL

(* Whatever the file and the flag say, no pod is touched without its       *)
(* reason: a mode that was asked for, an accepted event that calls for     *)
(* containment, a namespace outside the control plane, an alert first      *)
(* (main.go:63-79, 358-360, 452-470).                                      *)
THEOREM ContainmentIsJustified == Spec => []ContainedAfterAlert
<1>1. IInv => ContainedAfterAlert  BY DEF IInv
<1> QED  BY <1>1, InvariantHolds, PTL

(* The namespaces a configuration file exempts are left alone as long as   *)
(* that file loads; one that does not exempts nothing, and the run that    *)
(* checks ExemptIsLeftAlone shows it (main.go:63-79, config.go:44-56).     *)
THEOREM ExemptWhenLoaded == Spec => [](Config!Loads(launch.file) => ExemptIsLeftAlone)
<1>1. IInv => (Config!Loads(launch.file) => ExemptIsLeftAlone)  BY DEF IInv, ExemptInv
<1> QED  BY <1>1, InvariantHolds, PTL

(* However the shutdown and the workers interleave, when the agent has     *)
(* terminated every event that called for containment was dealt with       *)
(* (main.go:512-515).                                                      *)
THEOREM NothingForgotten == Spec => []NoRedEventForgotten
<1>1. IInv => NoRedEventForgotten
  <2> SUFFICES ASSUME IInv, main = "terminated", mode = "enforcement",
                      NEW i \in DOMAIN accepted, ~Excluded(accepted[i]),
                      Scored(accepted[i]), accepted[i].action = "AUTO_CONTAINMENT"
               PROVE  claim[accepted[i].pod] = "contained" \/ accepted[i].pod \in failed
    BY DEF NoRedEventForgotten, Relevant
  <2>1. \A w \in Workers : pc[w] = "exited"
    BY DEF IInv, PhaseInv
  <2>2. i \in DOMAIN taken /\ taken[i] = accepted[i]
    BY <2>1, WorkersAssumption DEF IInv, TypeOK, QueueInv
  <2>3. Asks(taken[i])
    BY <2>2 DEF Asks
  <2> QED  BY <2>1, <2>2, <2>3 DEF IInv, RedInv, Patching, OnTheWay
<1> QED  BY <1>1, InvariantHolds, PTL

-----------------------------------------------------------------------------
(* A sum over a finite set is any function that satisfies its recursion:   *)
(* a least set where the two differ would be empty, or have a smaller one. *)
Total(t, keys) == Discovery!MapThenSumSet(LAMBDA k : t.patterns[k].count, keys)

AddsUp(t, keys, g) ==
    g = [s \in SUBSET keys |->
            IF s = {} THEN 0
            ELSE t.patterns[CHOOSE x \in s : TRUE].count + g[s \ {CHOOSE x \in s : TRUE}]]

LEMMA SumIsUnique ==
    ASSUME NEW t, NEW keys, IsFiniteSet(keys), NEW g, AddsUp(t, keys, g)
    PROVE  Total(t, keys) = g[keys]
<1> DEFINE F(h) == [s \in SUBSET keys |->
                       IF s = {} THEN 0
                       ELSE t.patterns[CHOOSE x \in s : TRUE].count + h[s \ {CHOOSE x \in s : TRUE}]]
           sum == CHOOSE h : h = F(h)
<1>1. Total(t, keys) = sum[keys]
  BY DEF Total, Discovery!MapThenSumSet, Discovery!MapThenFoldSet
<1>2. sum = F(sum)
  <2>1. \E h : h = F(h)  BY DEF AddsUp
  <2> HIDE DEF F
  <2> QED  BY <2>1
<1> HIDE DEF sum
<1>3. SUFFICES ASSUME sum[keys] # g[keys] PROVE FALSE
  BY <1>1
<1> DEFINE Differ == {s \in SUBSET keys : sum[s] # g[s]}
<1>4. /\ keys \in Differ /\ Differ \subseteq FiniteSubsetsOf(keys)
      /\ IsWellFoundedOn(StrictSubsetOrdering(keys), FiniteSubsetsOf(keys))
  BY <1>3, FS_FiniteSubsetsOfFinite, FS_StrictSubsetOrderingWellFounded, Zenon
<1>5. PICK s \in Differ : \A y \in Differ : <<y, s>> \notin StrictSubsetOrdering(keys)
  BY <1>4, WFMin, Zenon
<1>6. s # {}
  BY <1>2, <1>5 DEF AddsUp
<1> DEFINE x == CHOOSE x \in s : TRUE
<1>7. x \in s  BY <1>6
<1>8. s \ {x} \in Differ
  BY <1>2, <1>5, <1>6, <1>7 DEF AddsUp
<1>9. <<s \ {x}, s>> \in StrictSubsetOrdering(keys)
  BY <1>5, <1>7 DEF StrictSubsetOrdering
<1> QED  BY <1>5, <1>8, <1>9

(* What was seen before the restart, lineage by lineage.                   *)
LEMMA SightingsAddUp ==
    ASSUME launch \in Launches, NEW keys, IsFiniteSet(keys), NEW x \in keys
    PROVE  /\ IsFiniteSet(Sightings(keys)) /\ Cardinality(Sightings(keys)) \in Nat
           /\ Cardinality(Sightings(keys \ {x})) \in Nat
           /\ Cardinality(Sightings(keys)) = Before(x) + Cardinality(Sightings(keys \ {x}))
<1> DEFINE Each(key) == {key} \X (1..Before(key))
<1>1. ASSUME NEW key PROVE IsFiniteSet(Each(key)) /\ Cardinality(Each(key)) = Before(key)
  <2>1. Before(key) \in Nat
    BY RestoredIsSound
  <2>2. /\ IsFiniteSet({key}) /\ Cardinality({key}) = 1
        /\ IsFiniteSet(1..Before(key)) /\ Cardinality(1..Before(key)) = Before(key)
    <3>1. \A n \in Nat : IsFiniteSet(1..n) /\ Cardinality(1..n) = n
      BY FS_Interval
    <3> QED  BY <2>1, <3>1, FS_Singleton
  <2>3. IsFiniteSet(Each(key)) /\ Cardinality(Each(key)) = Cardinality({key}) * Cardinality(1..Before(key))
    BY <2>2, FS_Product
  <2> HIDE DEF Each
  <2> QED  BY <2>1, <2>2, <2>3
<1>2. ASSUME NEW s, IsFiniteSet(s) PROVE IsFiniteSet(Sightings(s)) /\ Cardinality(Sightings(s)) \in Nat
  <2> DEFINE all == {Each(key) : key \in s}
             f == [key \in s |-> Each(key)]
  <2>1. f \in Surjection(s, all)
    BY DEF Surjection
  <2>2. \A e \in all : IsFiniteSet(e)
    BY <1>1
  <2>3. Sightings(s) = UNION all
    BY DEF Sightings
  <2> HIDE DEF f, all
  <2>4. IsFiniteSet(all)
    BY <1>2, <2>1, FS_Surjection
  <2> QED  BY <2>2, <2>3, <2>4, FS_UNION, FS_CardinalityType
<1>3. IsFiniteSet(keys \ {x})
  BY FS_RemoveElement
<1>4. Sightings(keys) = Each(x) \cup Sightings(keys \ {x}) /\ Each(x) \cap Sightings(keys \ {x}) = {}
  BY DEF Sightings
<1>0. Cardinality(Each(x)) = Before(x) /\ IsFiniteSet(Each(x)) /\ IsFiniteSet(Sightings(keys \ {x}))
  BY <1>1, <1>2, <1>3
<1> HIDE DEF Each
<1>5. Cardinality(Sightings(keys)) = Cardinality(Each(x)) + Cardinality(Sightings(keys \ {x})) - Cardinality({})
  BY <1>0, <1>4, FS_Union, ZenonT(60)
<1>6. Before(x) \in Nat
  BY RestoredIsSound
<1> QED  BY <1>0, <1>2, <1>3, <1>5, <1>6, FS_EmptySet

(* A summary has a key for every lineage of the baseline or at its places, *)
(* and no other.                                                           *)
LEMMA KeysShown ==
    ASSUME launch \in Launches, NEW t, NEW places, IsFiniteSet(places), Summarises(t, places)
    PROVE  /\ IsFiniteSet(DOMAIN t.patterns) /\ DOMAIN t.patterns = Observed(places)
           /\ \A key : IsFiniteSet(Among(places, key)) /\ Cardinality(Among(places, key)) \in Nat
<1>1. \A s \in SUBSET places : IsFiniteSet(s) /\ Cardinality(s) \in Nat
  BY FS_Subset, FS_CardinalityType
<1>2. Lineages(places) \in SUBSET places /\ \A key : Among(places, key) \in SUBSET places
  BY DEF Lineages, Among
<1> DEFINE shown == {Discovery!Key(accepted[i]) : i \in Lineages(places)}
           f == [i \in Lineages(places) |-> Discovery!Key(accepted[i])]
<1>3. f \in Surjection(Lineages(places), shown)
  BY DEF Surjection
<1>4. IsFiniteSet(Lineages(places))
  BY <1>1, <1>2
<1>5. DOMAIN t.patterns = Observed(places) /\ Observed(places) = DOMAIN restored.patterns \cup shown
  BY DEF Summarises, Observed
<1> HIDE DEF f, shown
<1>6. IsFiniteSet(shown)
  BY <1>3, <1>4, FS_Surjection
<1>7. IsFiniteSet(DOMAIN t.patterns)
  BY <1>5, <1>6, RestoredIsSound, FS_Union
<1> QED  BY <1>1, <1>2, <1>5, <1>7

(* What a summary counts for some of its keys is how often the baseline    *)
(* saw them and how many places show one.                                  *)
LEMMA CountsAddUp ==
    ASSUME launch \in Launches, NEW t, NEW places, IsFiniteSet(places), Summarises(t, places),
           NEW keys \in SUBSET DOMAIN t.patterns
    PROVE  Total(t, keys)
             = Cardinality(Sightings(keys))
               + Cardinality({i \in Lineages(places) : Discovery!Key(accepted[i]) \in keys})
<1> DEFINE Shown(s) == {i \in Lineages(places) : Discovery!Key(accepted[i]) \in s}
           g == [s \in SUBSET keys |-> Cardinality(Sightings(s)) + Cardinality(Shown(s))]
<1>1. IsFiniteSet(Lineages(places)) /\ \A s : IsFiniteSet(Shown(s)) /\ Cardinality(Shown(s)) \in Nat
  <2>1. Lineages(places) \in SUBSET places /\ \A s : Shown(s) \in SUBSET places
    BY DEF Lineages
  <2> QED  BY <2>1, FS_Subset, FS_CardinalityType
<1>2. \A s \in SUBSET keys : IsFiniteSet(s)
  BY KeysShown, FS_Subset
<1>3. ASSUME NEW s \in SUBSET keys, s # {}, NEW x, x = CHOOSE y \in s : TRUE
      PROVE  Cardinality(Sightings(s)) + Cardinality(Shown(s))
               = t.patterns[x].count + (Cardinality(Sightings(s \ {x})) + Cardinality(Shown(s \ {x})))
  <2>1. x \in s /\ x \in DOMAIN t.patterns
    BY <1>3
  <2>2. t.patterns[x].count = Before(x) + Cardinality(Shown({x})) /\ Before(x) \in Nat
    <3>1. Shown({x}) = Among(places, x)  BY DEF Among
    <3>2. Before(x) \in Nat  BY RestoredIsSound
    <3> QED  BY <2>1, <3>1, <3>2 DEF Summarises
  <2>3. Shown(s) = Shown({x}) \cup Shown(s \ {x}) /\ Shown({x}) \cap Shown(s \ {x}) = {}
    BY <2>1
  <2>4. /\ Cardinality(Sightings(s)) = Before(x) + Cardinality(Sightings(s \ {x}))
        /\ Cardinality(Sightings(s \ {x})) \in Nat
    BY <1>2, <2>1, SightingsAddUp
  <2> HIDE DEF Shown
  <2>5. Cardinality(Shown(s)) = Cardinality(Shown({x})) + Cardinality(Shown(s \ {x})) - Cardinality({})
    BY <1>1, <2>3, FS_Union, ZenonT(60)
  <2>6. Cardinality({}) = 0 /\ Cardinality(Shown({x})) \in Nat /\ Cardinality(Shown(s \ {x})) \in Nat
    BY <1>1, FS_EmptySet
  <2> QED  BY <2>2, <2>4, <2>5, <2>6
<1>4. Cardinality(Sightings({})) + Cardinality(Shown({})) = 0
  <2>1. Shown({}) = {} /\ Sightings({}) = {}  BY DEF Sightings
  <2> HIDE DEF Shown
  <2> QED  BY <2>1, FS_EmptySet
<1>5. AddsUp(t, keys, g)
  <2> HIDE DEF Shown
  <2>1. \A s \in SUBSET keys : g[s] = Cardinality(Sightings(s)) + Cardinality(Shown(s))
    OBVIOUS
  <2>2. ASSUME NEW s \in SUBSET keys
        PROVE  g[s] = IF s = {} THEN 0
                      ELSE t.patterns[CHOOSE x \in s : TRUE].count + g[s \ {CHOOSE x \in s : TRUE}]
    <3>1. CASE s = {}  BY <1>4, <2>1, <3>1
    <3>2. CASE s # {}
      <4> PICK x : x = CHOOSE y \in s : TRUE  OBVIOUS
      <4>1. g[s] = t.patterns[x].count + g[s \ {x}]
        BY <1>3, <2>1, <3>2
      <4> QED  BY <3>2, <4>1
    <3> QED  BY <3>1, <3>2
  <2> QED  BY <2>2 DEF AddsUp
<1>6. Total(t, keys) = g[keys]
  <2>1. IsFiniteSet(keys)  BY <1>2
  <2> HIDE DEF g
  <2> QED  BY <1>5, <2>1, SumIsUnique
<1> QED  BY <1>6

(* When main has terminated, the workers have left nothing out.            *)
LEMMA AllLearnt ==
    ASSUME IInv, main = "terminated"
    PROVE  /\ launch \in Launches /\ IsFiniteSet(Relevant)
           /\ \A i \in Relevant : accepted[i] \in Events
           /\ Learns => Summarises(learnt, Relevant)
<1>1. TypeOK /\ QueueInv /\ Holding = {} /\ Len(taken) = Len(accepted)
  BY WorkersAssumption DEF IInv, PhaseInv, QueueInv, Holding
<1>2. ASSUME NEW at PROVE Done(at) = Relevant
  BY <1>1 DEF Done, Relevant, TypeOK
<1>3. IsFiniteSet(Relevant) /\ \A i \in Relevant : accepted[i] \in Events
  BY <1>1, <1>2, DoneIsFinite
<1>4. ASSUME Learns PROVE Summarises(learnt, Relevant)
  <2>1. PICK at \in [Workers -> 0..Len(taken)] : Summarises(learnt, Done(at))
    BY <1>4 DEF IInv, LearntInv, Done
  <2> QED  BY <1>2, <2>1
<1> QED  BY <1>1, <1>3, <1>4 DEF TypeOK

(* Whatever baseline was found, the workers met in whatever order, and     *)
(* whichever file could not be written, the others tell of that baseline   *)
(* and of every accepted event that is not excluded (main.go:173-176,      *)
(* 509-541).                                                               *)
THEOREM FilesAreComplete == Spec => []FinalFilesComplete
<1>1. IInv => FinalFilesComplete
  <2> SUFFICES ASSUME IInv, main = "terminated"
               PROVE  FinalFilesComplete
    BY DEF FinalFilesComplete
  <2>1. /\ IsFiniteSet(Relevant) /\ (Learns => Summarises(learnt, Relevant)) /\ (Reports => Learns)
        /\ launch \in Launches
    BY AllLearnt DEF Reports, Learns
  <2>2. Learns /\ "snapshot" \notin unwritten => Summarises(snapshot, Relevant)
    BY <2>1 DEF IInv, FilesInv
  <2>3. ASSUME Reports, "report" \notin unwritten
        PROVE  /\ report.totalEvents = restored.total + Cardinality(Relevant)
               /\ \A w \in DOMAIN report.profiles :
                     report.profiles[w].totalEvents =
                          Cardinality(Sightings({key \in DOMAIN restored.patterns : Of(w, key)}))
                        + Cardinality({i \in Lineages(Relevant) : Of(w, accepted[i])})
    <3>1. report = Discovery!GenerateReport(learnt)
      BY <2>3 DEF IInv, FilesInv
    <3>2. report.totalEvents = restored.total + Cardinality(Relevant)
      BY <2>1, <2>3, <3>1 DEF Discovery!GenerateReport, Summarises
    <3>3. ASSUME NEW w \in DOMAIN report.profiles
          PROVE  report.profiles[w].totalEvents =
                      Cardinality(Sightings({key \in DOMAIN restored.patterns : Of(w, key)}))
                    + Cardinality({i \in Lineages(Relevant) : Of(w, accepted[i])})
      <4> DEFINE keys == {k \in DOMAIN learnt.patterns :
                             k.namespace = w.namespace /\ k.workload = w.workload}
                 old  == {key \in DOMAIN restored.patterns : Of(w, key)}
      <4>1. report.profiles[w].totalEvents = Total(learnt, keys)
        BY <3>1, <3>3 DEF Discovery!GenerateReport, Discovery!Profile, Total
      <4>2. Total(learnt, keys)
              = Cardinality(Sightings(keys))
                + Cardinality({i \in Lineages(Relevant) : Discovery!Key(accepted[i]) \in keys})
        BY <2>1, <2>3, CountsAddUp
      <4>3. /\ DOMAIN learnt.patterns = Observed(Relevant)
            /\ \A i \in Lineages(Relevant) : /\ Discovery!Key(accepted[i]) \in Observed(Relevant)
                                              /\ Of(w, Discovery!Key(accepted[i])) <=> Of(w, accepted[i])
        BY <2>1, <2>3 DEF Summarises, Observed, Of, Discovery!Key
      <4>4. {i \in Lineages(Relevant) : Discovery!Key(accepted[i]) \in keys}
              = {i \in Lineages(Relevant) : Of(w, accepted[i])}
        BY <4>3 DEF Of
      <4>5. Sightings(keys) = Sightings(old)
        <5>1. old \subseteq keys
          BY <4>3 DEF Of, Observed
        <5>2. \A k \in keys : k \in old \/ 1..Before(k) = {}
          BY DEF Of, Before
        <5> HIDE DEF keys, old
        <5> QED  BY <5>1, <5>2 DEF Sightings
      <4> QED  BY <4>1, <4>2, <4>4, <4>5
    <3> QED  BY <3>2, <3>3
  <2>4. Reports /\ "whitelist" \notin unwritten
          => Summarises(learnt, Relevant) /\ whitelist = Discovery!GenerateWhitelist(learnt)
    BY <2>1 DEF IInv, FilesInv
  <2> QED  BY <2>2, <2>3, <2>4 DEF FinalFilesComplete
<1> QED  BY <1>1, InvariantHolds, PTL

-----------------------------------------------------------------------------
(* SetToSeq lists every member of a finite set at one place.               *)
LEMMA ListsAll ==
    ASSUME NEW S, IsFiniteSet(S)
    PROVE  LET seq == Discovery!SetToSeq(S)
           IN  /\ DOMAIN seq \subseteq Int
               /\ \A n \in DOMAIN seq : seq[n] \in S
               /\ \A x \in S : \E n \in DOMAIN seq : seq[n] = x
               /\ \A n, m \in DOMAIN seq : seq[n] = seq[m] => n = m
<1> DEFINE size == Cardinality(S)
           seq == Discovery!SetToSeq(S)
<1>1. Discovery!Cardinality(S) = size
  BY DEF Discovery!Cardinality, Cardinality
<1>2. size \in Nat /\ IsFiniteSet(1..size) /\ Cardinality(1..size) = size /\ ExistsBijection(1..size, S)
  BY FS_CardinalityType, FS_Interval
<1> HIDE DEF size
<1>3. \E f \in [1..size -> S] : Discovery!IsInjective(f)
  BY <1>2 DEF ExistsBijection, Bijection, Injection, IsInjective, Discovery!IsInjective
<1>4. seq \in [1..size -> S] /\ Discovery!IsInjective(seq)
  BY <1>1, <1>3 DEF Discovery!SetToSeq
<1> HIDE DEF seq
<1>5. seq \in Injection(1..size, S)
  BY <1>4 DEF Injection, IsInjective, Discovery!IsInjective
<1>6. seq \in Surjection(1..size, S)
  BY <1>2, <1>5, FS_Injection DEF size
<1> QED  BY <1>2, <1>4, <1>6 DEF Surjection, Discovery!IsInjective, seq

(* Trust takes both: often enough, and over more than an hour.             *)
LEMMA TrustMeans ==
    ASSUME NEW p, p.count \in Nat, p.first \in Int, p.last \in Int
    PROVE  Discovery!Trusted(p) <=> p.count >= Levels.often /\ p.last - p.first > Hour
<1>1. /\ Levels.always \in Nat /\ Levels.mostly \in Nat /\ Levels.often \in Nat /\ Levels.some \in Nat
      /\ Levels.always >= Levels.mostly /\ Levels.mostly >= Levels.often
      /\ Levels.often >= Levels.some /\ Hour \in Nat
  BY LevelsAssumption, HourAssumption
<1>2. Discovery!IsRecurring(p) <=> p.last - p.first > Hour
  BY DEF Discovery!IsRecurring
<1>3. CASE Discovery!IsRecurring(p)
  BY <1>1, <1>2, <1>3 DEF Discovery!Trusted, Discovery!Confidence
<1>4. CASE ~Discovery!IsRecurring(p)
  BY <1>1, <1>2, <1>4 DEF Discovery!Trusted, Discovery!Confidence
<1> QED  BY <1>3, <1>4

(* A workload that made a lineage well known is one whose pattern is       *)
(* trusted (tracker.go:352-369).                                           *)
LEMMA TrustedIsWellKnown ==
    ASSUME launch \in Launches, IsFiniteSet(Relevant), \A i \in Relevant : accepted[i] \in Events,
           Summarises(learnt, Relevant), NEW parent, NEW child
    PROVE  WellKnown(parent, child)
             <=> \E k \in DOMAIN learnt.patterns : /\ k.parent = parent /\ k.child = child
                                                   /\ Discovery!Trusted(learnt.patterns[k])
<1> DEFINE known(k) == /\ Before(k) + Cardinality(Showing(k)) >= Levels.often
                       /\ \E early, late \in Times(Relevant, k) : late - early > Hour
<1>1. ASSUME NEW k \in DOMAIN learnt.patterns
      PROVE  Discovery!Trusted(learnt.patterns[k]) <=> known(k)
  <2> DEFINE p == learnt.patterns[k]
  <2>1. /\ p.count = Before(k) + Cardinality(Showing(k))
        /\ {p.first, p.last} \subseteq Times(Relevant, k)
        /\ \A time \in Times(Relevant, k) : p.first <= time /\ time <= p.last
    BY DEF Summarises, Showing
  <2>2. Before(k) \in Nat /\ Cardinality(Showing(k)) \in Nat
    BY KeysShown, RestoredIsSound DEF Showing
  <2>3. \A time \in Times(Relevant, k) : time \in Int
    <3>1. \A i \in Among(Relevant, k) : accepted[i].time \in Int
      BY EventsAssumption DEF Among, Lineages
    <3> QED  BY <3>1, RestoredIsSound DEF Times
  <2> HIDE DEF p
  <2>4. p.first \in Int /\ p.last \in Int /\ p.count \in Nat
    BY <2>1, <2>2, <2>3
  <2>5. Discovery!Trusted(p) <=> p.count >= Levels.often /\ p.last - p.first > Hour
    BY <2>4, TrustMeans
  <2>6. p.last - p.first > Hour <=> \E early, late \in Times(Relevant, k) : late - early > Hour
    <3>1. ASSUME NEW early \in Times(Relevant, k), NEW late \in Times(Relevant, k), late - early > Hour
          PROVE  p.last - p.first > Hour
      <4>1. early \in Int /\ late \in Int /\ p.first <= early /\ late <= p.last
        BY <2>1, <2>3
      <4> QED  BY <2>4, <3>1, <4>1, HourAssumption
    <3> QED  BY <2>1, <3>1
  <2> QED  BY <2>1, <2>5, <2>6 DEF p
<1>2. WellKnown(parent, child)
        <=> \E k \in DOMAIN learnt.patterns : k.parent = parent /\ k.child = child /\ known(k)
  BY DEF WellKnown, Summarises
<1> HIDE DEF known
<1> QED  BY <1>1, <1>2

(* The whitelist has one entry for each parent of a pattern.               *)
LEMMA OneEntryEach ==
    ASSUME NEW t, IsFiniteSet(DOMAIN t.patterns), NEW list, list = Discovery!GenerateWhitelist(t)
    PROVE  /\ DOMAIN list \subseteq Int
           /\ \A n \in DOMAIN list : \E k \in DOMAIN t.patterns : list[n] = Discovery!Entry(t, k.parent)
           /\ \A k \in DOMAIN t.patterns : \E n \in DOMAIN list :
                 /\ list[n] = Discovery!Entry(t, k.parent)
                 /\ \A m \in DOMAIN list : list[m].parent = k.parent => m = n
<1> DEFINE f == [k \in DOMAIN t.patterns |-> Discovery!Entry(t, k.parent)]
           S == {Discovery!Entry(t, k.parent) : k \in DOMAIN t.patterns}
<1>1. f \in Surjection(DOMAIN t.patterns, S)
  BY DEF Surjection
<1>2. IsFiniteSet(S)
  <2> HIDE DEF f, S
  <2> QED  BY <1>1, FS_Surjection
<1>3. list = Discovery!SetToSeq(S)
  BY DEF Discovery!GenerateWhitelist
<1>4. \A x \in S : \E k \in DOMAIN t.patterns : x = Discovery!Entry(t, k.parent)
  OBVIOUS
<1>5. \A k \in DOMAIN t.patterns : /\ Discovery!Entry(t, k.parent) \in S
                                   /\ Discovery!Entry(t, k.parent).parent = k.parent
  BY DEF Discovery!Entry
<1> HIDE DEF S
<1>6. /\ DOMAIN list \subseteq Int
      /\ \A n \in DOMAIN list : list[n] \in S
      /\ \A x \in S : \E n \in DOMAIN list : list[n] = x
      /\ \A n, m \in DOMAIN list : list[n] = list[m] => n = m
  BY <1>2, <1>3, ListsAll
<1>7. \A x \in S, y \in S : x.parent = y.parent => x = y
  BY <1>4, <1>5
<1>8. ASSUME NEW k \in DOMAIN t.patterns
      PROVE  \E n \in DOMAIN list : /\ list[n] = Discovery!Entry(t, k.parent)
                                    /\ \A m \in DOMAIN list : list[m].parent = k.parent => m = n
  <2>1. PICK n \in DOMAIN list : list[n] = Discovery!Entry(t, k.parent)
    BY <1>5, <1>6
  <2>2. ASSUME NEW m \in DOMAIN list, list[m].parent = k.parent PROVE m = n
    <3>1. list[m] \in S /\ list[n] \in S /\ list[n].parent = k.parent
      BY <1>5, <1>6, <2>1
    <3>2. list[m] = list[n]
      BY <1>7, <2>2, <3>1
    <3> QED  BY <1>6, <3>2
  <2> QED  BY <2>1, <2>2
<1>9. \A n \in DOMAIN list : \E k \in DOMAIN t.patterns : list[n] = Discovery!Entry(t, k.parent)
  BY <1>4, <1>6
<1> QED  BY <1>6, <1>8, <1>9

(* What the validator makes of a whitelist with one entry for each parent: *)
(* a binary is its own base name here (validator.go:59-86).                *)
LEMMA AllowedIs ==
    ASSUME NEW list, DOMAIN list \subseteq Int,
           \A n \in DOMAIN list : list[n].parent \in Names /\ list[n].children \subseteq Names,
           NEW n \in DOMAIN list, \A m \in DOMAIN list : list[m].parent = list[n].parent => m = n
    PROVE  /\ list[n].parent \in DOMAIN Allowed!FromFile(list)
           /\ Allowed!FromFile(list)[list[n].parent] = list[n].children
<1> PICK parent : parent = list[n].parent  OBVIOUS
<1>1. Allowed!EntriesOf(list, parent) = {n}
  BY DEF Allowed!EntriesOf
<1>2. Allowed!Max({n}) = n
  BY DEF Allowed!Max
<1>3. parent \in Allowed!Parents(list)
  BY DEF Allowed!Parents
<1>4. Allowed!Names(list[n].children) = list[n].children
  BY DEF Allowed!Names
<1> QED  BY <1>1, <1>2, <1>3, <1>4 DEF Allowed!FromFile

(* What main leaves for the next agent allows exactly what some workload   *)
(* showed often and over a long time, in this run or those the restored    *)
(* baseline comes from, calls every other child of a known parent          *)
(* anomalous, and lists the ones that were seen for review (main.go:174,   *)
(* reporter.go:81-183, tracker.go:352-369, validator.go:59-86).            *)
THEOREM WhitelistIsLearnt == Spec => []WhitelistMeansLearnt
<1>1. IInv => WhitelistMeansLearnt
  <2> SUFFICES ASSUME IInv, main = "terminated", whitelist # NoFile,
                      NEW parent \in Names, NEW child \in Names
               PROVE  /\ Allowed!Classify(Allowed!FromFile(whitelist), parent, child) =
                            IF ~Met(parent) THEN "SUSPICIOUS"
                            ELSE IF WellKnown(parent, child) THEN "NORMAL" ELSE "ANOMALOUS"
                      /\ /\ ~WellKnown(parent, child)
                         /\ \E key \in Observed(Relevant) : key.parent = parent /\ key.child = child
                         => \E n \in DOMAIN whitelist : /\ whitelist[n].parent = parent
                                                        /\ child \in whitelist[n].quarantined
                                                        /\ whitelist[n].review
    BY DEF WhitelistMeansLearnt
  <2> DEFINE t == learnt
             allow == Allowed!FromFile(whitelist)
             trusts(k) == k.parent = parent /\ k.child = child /\ Discovery!Trusted(t.patterns[k])
  <2>1. /\ IsFiniteSet(Relevant) /\ \A i \in Relevant : accepted[i] \in Events
        /\ Summarises(t, Relevant) /\ whitelist = Discovery!GenerateWhitelist(t)
        /\ launch \in Launches
    BY AllLearnt DEF IInv, FilesInv, Reports, Learns
  <2>2. IsFiniteSet(DOMAIN t.patterns) /\ DOMAIN t.patterns = Observed(Relevant)
    BY <2>1, KeysShown
  <2>3. WellKnown(parent, child) <=> \E k \in DOMAIN t.patterns : trusts(k)
    BY <2>1, TrustedIsWellKnown
  <2>4. /\ DOMAIN whitelist \subseteq Int
        /\ \A n \in DOMAIN whitelist : \E k \in DOMAIN t.patterns : whitelist[n] = Discovery!Entry(t, k.parent)
        /\ \A k \in DOMAIN t.patterns : \E n \in DOMAIN whitelist :
              /\ whitelist[n] = Discovery!Entry(t, k.parent)
              /\ \A m \in DOMAIN whitelist : whitelist[m].parent = k.parent => m = n
    BY <2>1, <2>2, OneEntryEach
  <2>5. \A k \in DOMAIN t.patterns : k.parent \in Names /\ k.child \in Names
    <3> TAKE k \in DOMAIN t.patterns
    <3>1. CASE k \in DOMAIN restored.patterns
      <4>1. k \in Remembered
        BY <2>1, <3>1 DEF restored, Remembered
      <4> QED  BY <4>1 DEF Names
    <3>2. CASE k \notin DOMAIN restored.patterns
      <4>1. PICK i \in Relevant : Discovery!Key(accepted[i]) = k
        BY <2>2, <3>2 DEF Observed, Lineages
      <4>2. accepted[i] \in Events /\ accepted[i].parent = k.parent /\ accepted[i].child = k.child
        BY <2>1, <4>1 DEF Discovery!Key
      <4> QED  BY <4>2 DEF Names
    <3> QED  BY <3>1, <3>2
  <2>6. \A q : /\ Discovery!Entry(t, q).parent = q
               /\ Discovery!Entry(t, q).children
                     = {k.child : k \in {j \in DOMAIN t.patterns :
                                            j.parent = q /\ Discovery!Trusted(t.patterns[j])}}
    BY DEF Discovery!Entry, Discovery!Group
  <2>7. \A n \in DOMAIN whitelist :
           whitelist[n].parent \in Names /\ whitelist[n].children \subseteq Names
    BY <2>4, <2>5, <2>6
  <2>8. Met(parent) <=> \E k \in DOMAIN t.patterns : k.parent = parent
    BY <2>2 DEF Met
  <2> HIDE DEF t, allow
  <2>9. Allowed!Classify(allow, parent, child) =
            IF ~Met(parent) THEN "SUSPICIOUS"
            ELSE IF WellKnown(parent, child) THEN "NORMAL" ELSE "ANOMALOUS"
    <3>1. CASE ~Met(parent)
      <4>1. \A n \in DOMAIN whitelist : whitelist[n].parent # parent
        BY <2>4, <2>6, <2>8, <3>1
      <4>2. parent \notin DOMAIN allow
        BY <2>7, <4>1 DEF allow, Allowed!FromFile, Allowed!Parents
      <4> QED  BY <3>1, <4>2 DEF Allowed!Classify
    <3>2. CASE Met(parent)
      <4>1. PICK k \in DOMAIN t.patterns : k.parent = parent
        BY <2>8, <3>2
      <4>2. PICK n \in DOMAIN whitelist :
               /\ whitelist[n] = Discovery!Entry(t, parent)
               /\ \A m \in DOMAIN whitelist : whitelist[m].parent = parent => m = n
        BY <2>4, <4>1
      <4>3. parent \in DOMAIN allow /\ allow[parent] = Discovery!Entry(t, parent).children
        BY <2>4, <2>6, <2>7, <4>2, AllowedIs DEF allow
      <4>4. child \in allow[parent] <=> WellKnown(parent, child)
        BY <2>3, <2>6, <4>3
      <4> QED  BY <3>2, <4>3, <4>4 DEF Allowed!Classify
    <3> QED  BY <3>1, <3>2
  <2>10. ASSUME NEW k \in DOMAIN t.patterns, k.parent = parent, k.child = child,
                ~WellKnown(parent, child)
         PROVE  \E n \in DOMAIN whitelist : /\ whitelist[n].parent = parent
                                           /\ child \in whitelist[n].quarantined
                                           /\ whitelist[n].review
    <3>1. k \in DOMAIN t.patterns /\ k.parent = parent /\ k.child = child
      BY <2>10
    <3>2. ~Discovery!Trusted(t.patterns[k])
      BY <2>3, <2>10, <3>1
    <3>3. PICK n \in DOMAIN whitelist : whitelist[n] = Discovery!Entry(t, parent)
      BY <2>4, <3>1
    <3>4. k \in Discovery!Group(t, parent)
      BY <3>1 DEF Discovery!Group
    <3>5. child \in Discovery!Entry(t, parent).quarantined
      <4>1. child \notin Discovery!Entry(t, parent).children
        BY <2>3, <2>6, <2>10
      <4> QED  BY <3>1, <3>4, <4>1 DEF Discovery!Entry
    <3>6. Discovery!Entry(t, parent).review
      BY <3>2, <3>4 DEF Discovery!Entry
    <3> QED  BY <2>6, <3>3, <3>5, <3>6
  <2> QED  BY <2>2, <2>9, <2>10 DEF allow
<1> QED  BY <1>1, InvariantHolds, PTL

-----------------------------------------------------------------------------
(* Whoever patches a pod has its claim, and has it alone.                  *)
OnePatcher == \A w \in Workers : pc[w] = "patch" =>
    /\ claim[event[w].pod] = "busy"
    /\ \A v \in Workers \ {w} : pc[v] = "patch" => event[v].pod # event[w].pod

(* When the shutdown cancels what, and closes the buffer.                  *)
Closing == {"serving", "waitClient", "waitStore", "closeBuffer"}
StopInv == /\ main # "serving" => ~streaming
           /\ closed <=> main \notin Closing

LEMMA PatcherStep == ASSUME TypeOK, OnePatcher, [Next]_vars PROVE OnePatcher'
<1> USE DEF TypeOK
<1>1. CASE Others \/ UNCHANGED vars
  <2>1. UNCHANGED <<pc, event, claim>>
    BY <1>1 DEF Others, ClientPush, ClientStop, StoreTick, StoreStop, Signal, Shutdown, ClientDone,
                StoreDone, CloseBuffer, Drained, SaveFinal, WriteReport, WriteWhitelist, Terminated,
                vars
  <2> QED  BY <2>1 DEF OnePatcher
<1>2. ASSUME NEW w \in Workers, Work(w) PROVE OnePatcher'
  <2>1. CASE ~(Reserve(w) \/ Contain(w) \/ GiveUp(w))
    <3>1. /\ claim' = claim /\ pc[w] # "patch" /\ pc'[w] # "patch"
          /\ \A v \in Workers \ {w} : pc'[v] = pc[v] /\ event'[v] = event[v]
      BY <1>2, <2>1 DEF Work, Receive, EndOfRange, Route, Track, Decide, Dispatch
    <3> QED  BY <3>1 DEF OnePatcher
  <2>2. ASSUME Reserve(w) \/ Contain(w) \/ GiveUp(w)
        PROVE  /\ event' = event /\ event[w].pod \in Pods
               /\ \A v \in Workers \ {w} : pc'[v] = pc[v]
               /\ \A pod \in Pods \ {event[w].pod} : claim'[pod] = claim[pod]
               /\ \A v \in Workers : pc[v] = "patch" => event[v].pod \in Pods
    BY <2>2 DEF Reserve, Contain, GiveUp, Containment!Claim, Containment!Confirm,
                Containment!Abandon, Containment!Move, Pods
  <2>3. CASE Reserve(w)
    <3>1. CASE pc'[w] = "patch"
      <4>1. claim[event[w].pod] = "free" /\ claim'[event[w].pod] = "busy"
        BY <2>2, <2>3, <3>1 DEF Reserve, Containment!Claim, Containment!Move
      <4>2. \A v \in Workers \ {w} : pc'[v] = "patch" =>
               claim[event[v].pod] = "busy" /\ event[v].pod # event[w].pod /\ event[v].pod \in Pods
        BY <2>2, <2>3, <4>1 DEF OnePatcher
      <4> QED  BY <2>2, <2>3, <4>1, <4>2 DEF OnePatcher
    <3>2. CASE pc'[w] # "patch"
      <4>1. claim' = claim
        BY <2>3, <3>2 DEF Reserve
      <4> QED  BY <2>2, <2>3, <3>2, <4>1 DEF OnePatcher
    <3> QED  BY <3>1, <3>2
  <2>4. CASE Contain(w) \/ GiveUp(w)
    <3>1. pc[w] = "patch" /\ pc'[w] = "range"
      BY <2>4 DEF Contain, GiveUp
    <3>2. \A v \in Workers \ {w} : pc'[v] = "patch" =>
             claim[event[v].pod] = "busy" /\ event[v].pod # event[w].pod /\ event[v].pod \in Pods
      BY <2>2, <2>4, <3>1 DEF OnePatcher
    <3> QED  BY <2>2, <2>4, <3>1, <3>2 DEF OnePatcher
  <2> QED  BY <2>1, <2>3, <2>4
<1> QED  BY <1>1, <1>2, StepKinds

LEMMA StopStep == ASSUME TypeOK, StopInv, [Next]_vars PROVE StopInv'
<1> USE DEF TypeOK, StopInv, Closing
<1>1. CASE ClientPush \/ ClientStop \/ StoreTick \/ StoreStop \/ Signal \/ Terminated \/ UNCHANGED vars
  BY <1>1 DEF ClientPush, Buffer!Accept, Buffer!Lose, ClientStop, StoreTick, StoreStop, Signal,
              Terminated, vars
<1>2. CASE Shutdown
  BY <1>2 DEF Shutdown, ClientDone, StoreDone, CloseBuffer, Buffer!Close, Drained, SaveFinal,
              WriteReport, WriteWhitelist
<1>3. ASSUME NEW w \in Workers, Work(w) PROVE StopInv'
  BY <1>3 DEF Work, Receive, Buffer!Take, EndOfRange, Route, Track, Decide, Dispatch, Reserve,
              Contain, GiveUp
<1> QED  BY <1>1, <1>2, <1>3, StepKinds DEF Others

LEMMA BothHold == Spec => [](OnePatcher /\ StopInv)
<1>1. Init => OnePatcher /\ StopInv
  BY DEF Init, OnePatcher, StopInv, Closing, Buffer!Init
<1>2. IInv /\ OnePatcher /\ StopInv /\ [Next]_vars => (OnePatcher /\ StopInv)'
  BY PatcherStep, StopStep DEF IInv
<1> QED  BY <1>1, <1>2, InvariantHolds, PTL DEF Spec

(* However many workers there are and however many events name one pod, at *)
(* most one of them is at the pod, and nobody patches without the claim    *)
(* (main.go:452-470, executor.go:81-99).                                   *)
THEOREM OneWorkerPerPod == Spec => []OnePatcher
BY BothHold, PTL

(* A worker that has an event can go on with it, whatever the others do; a *)
(* worker in its loop can once something waits or the buffer is closed.    *)
(* The prover does not see ENABLED, so this restates the guards.           *)
CanGoOn(w) == /\ pc[w] # "exited"
              /\ pc[w] = "range" => Buffer!Pending > 0 \/ closed
              /\ pc[w] = "patch" => claim[event[w].pod] = "busy"

(* What each wait of the shutdown needs to end: the client and the store   *)
(* have been told to stop, the buffer is not closed twice, and every       *)
(* worker that has not left yet can move.                                  *)
NobodyIsStuck ==
    /\ \A w \in Workers : pc[w] \in {"range", "exited"} \/ CanGoOn(w)
    /\ main \in {"waitClient", "waitStore"} => ~streaming
    /\ main = "closeBuffer" => ~closed
    /\ main = "waitWorkers" => \A w \in Workers : pc[w] = "exited" \/ CanGoOn(w)

(* Nothing that main waits for waits for main, nor do the workers wait for *)
(* each other, in whatever state the signal finds the agent                *)
(* (main.go:495-515).                                                      *)
THEOREM ShutdownCanGoOn == Spec => []NobodyIsStuck
<1>1. TypeOK /\ OnePatcher /\ StopInv => NobodyIsStuck
  BY DEF TypeOK, OnePatcher, StopInv, Closing, NobodyIsStuck, CanGoOn
<1>2. IInv => TypeOK
  BY DEF IInv
<1> QED  BY <1>1, <1>2, BothHold, InvariantHolds, PTL
=============================================================================
