---------------------------- MODULE AgentPipeline ----------------------------
(***************************************************************************)
(* The running agent, src/cmd/ztre-agent/main.go: the collector client     *)
(* feeds the event buffer, the worker goroutines route what they take from *)
(* it by the agent's mode, the store saves snapshots of what was learnt,   *)
(* and main orchestrates the shutdown.                                     *)
(*                                                                         *)
(* The buffer and the containment executor take part as the abstractions   *)
(* their own modules implement: EventQueue and ContainmentClaim.  The      *)
(* policy is fixed here, so an event carries the verdict the classifier,   *)
(* the risk engine and the thresholds give it; PolicyReload is about       *)
(* changing it.                                                            *)
(***************************************************************************)
EXTENDS Integers, Sequences, FiniteSets

CONSTANTS Workers,    \* worker goroutines
          Slots,      \* capacity of the buffer
          Launches,   \* records [file, flag, baseline]: how the agent may be started,
                      \* and what an earlier run left on disk
          NotLoading, \* a configuration file that is missing or not YAML
          Events,     \* records [namespace, pod, workload, type, parent, child, time,
                      \*          class, action]
          Traffic,    \* bound: launch -> [events, count, losses], what Tetragon sends, how
                      \* many of it the buffer accepts, and how many a full one loses
          Hour, Levels, \* of the tracker
          NoFile,     \* nothing was written
          NoEvent

ASSUME WorkersAssumption == Workers # {}
ASSUME SlotsAssumption == Slots \in Nat \ {0}
ASSUME LaunchesAssumption ==
    \A l \in Launches : /\ l.file \in {NotLoading} \cup [mode : STRING, exclude : SUBSET STRING,
                                                         autoGenerate : BOOLEAN]
                        /\ l.flag \in STRING
ASSUME BaselinesAssumption == \A l \in Launches :
    /\ l.baseline.total \in Nat
    /\ IsFiniteSet(DOMAIN l.baseline.patterns)
    /\ \A key \in DOMAIN l.baseline.patterns :
          LET p == l.baseline.patterns[key]
          IN  p.count \in Nat /\ p.first \in Int /\ p.last \in Int /\ p.first <= p.last
ASSUME HourAssumption == Hour \in Nat
ASSUME LevelsAssumption ==
    /\ Levels \in [always : Nat, mostly : Nat, often : Nat, some : Nat]
    /\ Levels.always >= Levels.mostly /\ Levels.mostly >= Levels.often
    /\ Levels.often >= Levels.some
ASSUME EventsAssumption == NoEvent \notin Events /\ \A e \in Events : e.time \in Int
ASSUME TrafficAssumption ==
    Traffic \in [Launches -> [events : SUBSET Events, count : Nat, losses : Nat]]

VARIABLES launch,                       \* the file, the --mode flag and the baseline, for good
          accepted, taken, lost, closed, \* the event buffer
          claim,                        \* the containment executor
          client, store,                \* the goroutines main waits for
          streaming, contextLive,       \* streamCtx and ctx are not cancelled
          main,                         \* where main is
          pc, event,                    \* where each worker is, and its event
          learnt,                       \* the tracker
          snapshot,                     \* the newest snapshot on disk
          report, whitelist,            \* the files the shutdown writes
          unwritten,                    \* history: files the shutdown failed to write
          alerted,                      \* events whose alert was dispatched
          failed                        \* pods whose containment was reported failed

buffer  == <<accepted, taken, lost, closed>>
control == <<client, store, streaming, contextLive, main>>
worker  == <<pc, event>>
files   == <<snapshot, report, whitelist, unwritten>>
effects == <<learnt, alerted, failed>>
vars    == <<launch, accepted, taken, lost, closed, claim, client, store, streaming,
             contextLive, main, pc, event, learnt, snapshot, report, whitelist,
             unwritten, alerted, failed>>

Pods  == {e.pod : e \in Events}
Remembered == UNION {DOMAIN l.baseline.patterns : l \in Launches}
Names      == UNION {{x.parent, x.child} : x \in Events \cup Remembered}

Buffer      == INSTANCE EventQueue
Containment == INSTANCE ContainmentClaim WITH resetting <- FALSE
Config      == INSTANCE Configuration
Discovery   == INSTANCE Reporter
Allowed     == INSTANCE Whitelist
                  WITH Base <- [n \in Names |-> n], Missing <- NoFile, Corrupt <- NoFile

mode == Config!AgentMode(launch.file, launch.flag)

Excluded(e) == Config!IsNamespaceExcluded(launch.file, e.namespace)

Learns == mode \in {"discovery", "shadow"}

(* LoadLatestSnapshot starts the tracker from the newest snapshot on disk, *)
(* or leaves it new; BaselineStore is about which snapshot that is.        *)
restored == launch.baseline

Init == /\ launch \in Launches
        /\ Buffer!Init
        /\ Containment!Init
        /\ client = "running"
        /\ store = IF Learns THEN "running" ELSE "done"
        /\ streaming = TRUE /\ contextLive = TRUE
        /\ main = "serving"
        /\ pc = [w \in Workers |-> "range"]
        /\ event = [w \in Workers |-> NoEvent]
        /\ learnt = restored /\ snapshot = restored
        /\ report = NoFile /\ whitelist = NoFile /\ unwritten = {}
        /\ alerted = {} /\ failed = {}

-----------------------------------------------------------------------------
(* The collector client pushes what Tetragon sends until streamCtx is      *)
(* cancelled, and notices that only between two messages.                  *)

ClientPush == /\ client = "running"
              /\ Len(accepted) < Traffic[launch].count
              /\ \/ /\ Buffer!Accept
                    /\ accepted'[Len(accepted')] \in Traffic[launch].events
                 \/ lost < Traffic[launch].losses /\ Buffer!Lose
              /\ UNCHANGED <<launch, claim, control, worker, files, effects>>

ClientStop == /\ client = "running" /\ ~streaming
              /\ client' = "done"
              /\ UNCHANGED <<launch, buffer, claim, store, streaming, contextLive, main,
                             worker, files, effects>>

(* The store's loop: a ticker, and the end of streamCtx.  A name with an   *)
(* underscore is a plausible slip in the definition that follows it; the   *)
(* properties are tried on it.                                             *)
StoreTick == /\ store = "running"
             /\ snapshot' = learnt
             /\ UNCHANGED <<launch, buffer, claim, control, worker, report, whitelist, unwritten,
                            effects>>

StoreStop_OnContext ==
    /\ store = "running" /\ ~contextLive
    /\ store' = "done"
    /\ UNCHANGED <<launch, buffer, claim, client, streaming, contextLive, main, worker,
                   files, effects>>

StoreStop == /\ store = "running" /\ ~streaming
             /\ store' = "done"
             /\ UNCHANGED <<launch, buffer, claim, client, streaming, contextLive, main,
                            worker, files, effects>>

-----------------------------------------------------------------------------
(* A worker *)

Goto(w, from, to) == pc[w] = from /\ pc' = [pc EXCEPT ![w] = to]

Receive_ClosedToo(w) ==
    /\ Goto(w, "range", "route")
    /\ \/ Buffer!Take /\ event' = [event EXCEPT ![w] = taken'[Len(taken')]]
       \/ /\ closed /\ Buffer!Pending = 0
          /\ event' = [event EXCEPT ![w] = NoEvent] /\ UNCHANGED buffer
    /\ UNCHANGED <<launch, claim, control, files, effects>>

Receive(w) == /\ Buffer!Take
              /\ Goto(w, "range", "route")
              /\ event' = [event EXCEPT ![w] = taken'[Len(taken')]]
              /\ UNCHANGED <<launch, claim, control, files, effects>>

EndOfRange_OnClose(w) ==
    /\ closed
    /\ Goto(w, "range", "exited")
    /\ UNCHANGED <<launch, buffer, claim, control, event, files, effects>>

EndOfRange(w) == /\ closed /\ Buffer!Pending = 0
                 /\ Goto(w, "range", "exited")
                 /\ UNCHANGED <<launch, buffer, claim, control, event, files, effects>>

Scored(e) == /\ e.type \in {"execve", "kprobe", "file_access"}
             /\ ~(e.class = "NORMAL" /\ e.type = "execve")

(* Where an event goes: back to the loop, to the tracker, or to a decision. *)
Route(w) == /\ Goto(w, "route", IF Excluded(event[w]) THEN "range"
                                ELSE IF Learns THEN "track"
                                ELSE IF ~Scored(event[w]) THEN "range"
                                ELSE "decide")
            /\ UNCHANGED <<launch, buffer, claim, control, event, files, effects>>

(* Discovery learns; shadow learns, then decides and only logs.            *)
Track(w) == /\ Goto(w, "track", "range")
            /\ learnt' = Discovery!Track(learnt, event[w])
            /\ UNCHANGED <<launch, buffer, claim, control, event, files, alerted, failed>>

Decide(w) == /\ Goto(w, "decide", IF event[w].action = "ALLOW_AND_LOG" THEN "range"
                                  ELSE "dispatch")
             /\ UNCHANGED <<launch, buffer, claim, control, event, files, effects>>

(* Dispatch returns when every sink has answered, failed or timed out.     *)
Dispatch_FireAndForget(w) ==
    /\ Goto(w, "dispatch", IF event[w].action = "AUTO_CONTAINMENT" THEN "reserve"
                           ELSE "range")
    /\ UNCHANGED <<launch, buffer, claim, control, event, files, effects>>

Dispatch(w) ==
    /\ Goto(w, "dispatch", IF event[w].action = "AUTO_CONTAINMENT" THEN "reserve"
                           ELSE "range")
    /\ alerted' = alerted \cup {event[w]}
    /\ UNCHANGED <<launch, buffer, claim, control, event, files, learnt, failed>>

(* Quarantine returns at once for a pod already claimed.                   *)
Reserve_Spins(w) ==
    /\ \/ Goto(w, "reserve", "patch") /\ Containment!Claim(event[w].pod)
       \/ /\ Goto(w, "reserve", "reserve")
          /\ claim[event[w].pod] # "free" /\ UNCHANGED claim
    /\ UNCHANGED <<launch, buffer, control, event, files, effects>>

Reserve(w) ==
    /\ \/ Goto(w, "reserve", "patch") /\ Containment!Claim(event[w].pod)
       \/ /\ Goto(w, "reserve", "range")
          /\ claim[event[w].pod] # "free" /\ UNCHANGED claim
    /\ UNCHANGED <<launch, buffer, control, event, files, effects>>

(* The API server needs ctx: a patch under a cancelled one always fails.   *)
Contain(w) == /\ contextLive
              /\ Goto(w, "patch", "range")
              /\ Containment!Confirm(event[w].pod)
              /\ UNCHANGED <<launch, buffer, control, event, files, effects>>

GiveUp(w) == /\ Goto(w, "patch", "range")
             /\ Containment!Abandon(event[w].pod)
             /\ failed' = failed \cup {event[w].pod}
             /\ UNCHANGED <<launch, buffer, control, event, files, learnt, alerted>>

Work(w) == \/ Receive(w) \/ EndOfRange(w) \/ Route(w) \/ Track(w) \/ Decide(w)
           \/ Dispatch(w) \/ Reserve(w) \/ Contain(w) \/ GiveUp(w)

-----------------------------------------------------------------------------
(* main, from the signal on *)

Main(from, to) == main = from /\ main' = to

Signal == /\ Main("serving", "waitClient")
          /\ streaming' = FALSE
          /\ UNCHANGED <<launch, buffer, claim, client, store, contextLive, worker, files,
                         effects>>

ClientDone == /\ client = "done"
              /\ Main("waitClient", "waitStore")
              /\ UNCHANGED <<launch, buffer, claim, client, store, streaming, contextLive,
                             worker, files, effects>>

StoreDone == /\ store = "done"
             /\ Main("waitStore", "closeBuffer")
             /\ UNCHANGED <<launch, buffer, claim, client, store, streaming, contextLive,
                            worker, files, effects>>

CloseBuffer == /\ Main("closeBuffer", "waitWorkers")
               /\ Buffer!Close
               /\ UNCHANGED <<launch, claim, client, store, streaming, contextLive, worker,
                              files, effects>>

Drained_NotAwaited ==
    /\ Main("waitWorkers", "save")
    /\ contextLive' = FALSE
    /\ UNCHANGED <<launch, buffer, claim, client, store, streaming, worker, files, effects>>

Drained == /\ \A w \in Workers : pc[w] = "exited"
           /\ Main("waitWorkers", "save")
           /\ contextLive' = FALSE
           /\ UNCHANGED <<launch, buffer, claim, client, store, streaming, worker, files,
                          effects>>

(* Writing a file at shutdown may fail; main logs that and goes on.        *)
Write(name, file, content) ==
    \/ file' = content /\ UNCHANGED unwritten
    \/ file' = file /\ unwritten' = unwritten \cup {name}

Reports == mode = "discovery" /\ Config!Loaded(launch.file).autoGenerate

SaveFinal == /\ Main("save", "report")
             /\ IF Learns THEN Write("snapshot", snapshot, learnt)
                          ELSE UNCHANGED <<snapshot, unwritten>>
             /\ UNCHANGED <<launch, buffer, claim, client, store, streaming, contextLive,
                            worker, report, whitelist, effects>>

WriteReport ==
    /\ Main("report", "whitelist")
    /\ IF Reports THEN Write("report", report, Discovery!GenerateReport(learnt))
                  ELSE UNCHANGED <<report, unwritten>>
    /\ UNCHANGED <<launch, buffer, claim, client, store, streaming, contextLive, worker,
                   snapshot, whitelist, effects>>

WriteWhitelist ==
    /\ Main("whitelist", "terminated")
    /\ IF Reports THEN Write("whitelist", whitelist, Discovery!GenerateWhitelist(learnt))
                  ELSE UNCHANGED <<whitelist, unwritten>>
    /\ UNCHANGED <<launch, buffer, claim, client, store, streaming, contextLive, worker,
                   snapshot, report, effects>>

Shutdown == \/ ClientDone \/ StoreDone \/ CloseBuffer \/ Drained
            \/ SaveFinal \/ WriteReport \/ WriteWhitelist

Terminated == main = "terminated" /\ UNCHANGED vars

Next == \/ ClientPush \/ ClientStop \/ StoreTick \/ StoreStop
        \/ \E w \in Workers : Work(w)
        \/ Signal \/ Shutdown \/ Terminated

Spec == Init /\ [][Next]_vars

(* Every goroutine that can run runs.  The client notices the end of its   *)
(* context; sinks and API server answer or time out (the 5 seconds of      *)
(* main.go:217, the retries of the executor), so a worker goes on.  Nobody *)
(* has to send the signal, and Tetragon need not send events.              *)
Fairness == /\ WF_vars(ClientStop) /\ WF_vars(StoreStop) /\ WF_vars(Shutdown)
            /\ \A w \in Workers : WF_vars(Work(w))

FairSpec == Spec /\ Fairness

-----------------------------------------------------------------------------
(* Every variable keeps to its type.                                       *)
TypeOK ==
    /\ launch \in Launches
    /\ accepted \in Seq(Events) /\ taken \in Seq(Events) /\ lost \in Nat
    /\ closed \in BOOLEAN /\ streaming \in BOOLEAN /\ contextLive \in BOOLEAN
    /\ claim \in [Pods -> {"free", "busy", "contained"}]
    /\ client \in {"running", "done"} /\ store \in {"running", "done"}
    /\ main \in {"serving", "waitClient", "waitStore", "closeBuffer", "waitWorkers",
                 "save", "report", "whitelist", "terminated"}
    /\ pc \in [Workers -> {"range", "route", "track", "decide", "dispatch", "reserve",
                           "patch", "exited"}]
    /\ event \in [Workers -> Events \cup {NoEvent}]
    /\ \A w \in Workers : pc[w] \in {"range", "exited"} \/ event[w] \in Events
    /\ unwritten \subseteq {"snapshot", "report", "whitelist"}
    /\ alerted \subseteq Events /\ failed \subseteq Pods

(* The accepted events the agent has to look at.                           *)
Relevant == {i \in DOMAIN accepted : ~Excluded(accepted[i])}

(* The agent touches a pod only when the command line or a file that loads *)
(* asked for enforcement, only for an accepted event whose action is       *)
(* containment and whose namespace is not of the control plane, and only   *)
(* after the alert about it (main.go:63-79, 130-148, 358-360, 452-470).    *)
ContainedAfterAlert == \A pod \in Pods : claim[pod] # "free" =>
    /\ \/ launch.flag = "enforcement"
       \/ launch.flag = "" /\ launch.file # NotLoading /\ launch.file.mode = "enforcement"
    /\ \E i \in DOMAIN accepted :
          LET e == accepted[i] IN
          /\ e.pod = pod /\ e.action = "AUTO_CONTAINMENT" /\ e \in alerted
          /\ e.namespace \notin Config!ControlPlane

(* The agent never touches a pod of a namespace its configuration file     *)
(* exempts: "ExcludeNamespaces lists namespaces whose process events are   *)
(* ignored by the enforcement pipeline" (config.go:34-37, main.go:356-357).*)
(* A file with a mode nobody knows lists them in vain: main goes on        *)
(* without the whole file, and the flag may still ask for enforcement.     *)
ExemptIsLeftAlone == \A pod \in Pods : claim[pod] # "free" /\ launch.file # NotLoading =>
    \E i \in DOMAIN accepted : /\ accepted[i].pod = pod
                               /\ accepted[i].action = "AUTO_CONTAINMENT"
                               /\ accepted[i].namespace \notin launch.file.exclude

(* While a worker dispatches an alert or patches a pod, the context it     *)
(* does so with is live: the shutdown cancels it only after the workers    *)
(* have left, so no containment fails because the agent is stopping        *)
(* (main.go:512-515).                                                      *)
WorkUnderLiveContext == \A w \in Workers :
    pc[w] \in {"dispatch", "reserve", "patch"} => contextLive

(* When the agent has terminated in enforcement, every accepted event that *)
(* asked for containment has its pod contained, or the failure was         *)
(* reported: closing the buffer loses none of them (main.go:512-515).      *)
NoRedEventForgotten == main = "terminated" /\ mode = "enforcement" =>
    \A i \in Relevant : /\ Scored(accepted[i])
                        /\ accepted[i].action = "AUTO_CONTAINMENT"
        => claim[accepted[i].pod] = "contained" \/ accepted[i].pod \in failed

(* Which of these places of the queue show a lineage of a workload.        *)
Lineages(places) == {i \in places : Discovery!HasLineage(accepted[i])}
Among(places, key) == {i \in Lineages(places) : Discovery!Key(accepted[i]) = key}
Showing(key) == Among(Relevant, key)

(* What the restored baseline knows of a lineage.                          *)
Before(key) == IF key \in DOMAIN restored.patterns THEN restored.patterns[key].count ELSE 0

Window(key) == IF key \notin DOMAIN restored.patterns THEN {}
               ELSE {restored.patterns[key].first, restored.patterns[key].last}

(* What is known of one when the events at these places are added.         *)
Observed(places) ==
    DOMAIN restored.patterns \cup {Discovery!Key(accepted[i]) : i \in Lineages(places)}

Times(places, key) == Window(key) \cup {accepted[i].time : i \in Among(places, key)}

(* t says what the restored baseline and the events at these places say,   *)
(* whatever the order in which the workers met them.                       *)
Summarises(t, places) ==
    /\ t.total = restored.total + Cardinality(places)
    /\ DOMAIN t.patterns = Observed(places)
    /\ \A key \in DOMAIN t.patterns :
          LET p == t.patterns[key]
          IN  /\ p.count = Before(key) + Cardinality(Among(places, key))
              /\ {p.first, p.last} \subseteq Times(places, key)
              /\ \A time \in Times(places, key) : p.first <= time /\ time <= p.last

(* Each time the baseline saw one of these lineages.                       *)
Sightings(keys) == UNION {{key} \X (1..Before(key)) : key \in keys}

Of(workload, x) == x.namespace = workload.namespace /\ x.workload = workload.workload

(* The snapshot that the shutdown leaves on disk and the report it makes   *)
(* are made of the baseline the agent found and of every event the buffer  *)
(* ever accepted, the ones still queued when the signal came included, in  *)
(* whatever order the workers met them, and failing to write one of the    *)
(* files loses no other (main.go:173-176, 509-541).                        *)
FinalFilesComplete == main = "terminated" =>
    /\ Learns /\ "snapshot" \notin unwritten => Summarises(snapshot, Relevant)
    /\ Reports /\ "report" \notin unwritten =>
          /\ report.totalEvents = restored.total + Cardinality(Relevant)
          /\ \A w \in DOMAIN report.profiles :
                report.profiles[w].totalEvents =
                     Cardinality(Sightings({key \in DOMAIN restored.patterns : Of(w, key)}))
                   + Cardinality({i \in Lineages(Relevant) : Of(w, accepted[i])})
    /\ Reports /\ "whitelist" \notin unwritten =>
          Summarises(learnt, Relevant) /\ whitelist = Discovery!GenerateWhitelist(learnt)

(* Seen often enough, over more than an hour, in one workload, before the  *)
(* restart or after it.                                                    *)
WellKnown(parent, child) == \E key \in Observed(Relevant) :
    /\ key.parent = parent /\ key.child = child
    /\ Before(key) + Cardinality(Showing(key)) >= Levels.often
    /\ \E early, late \in Times(Relevant, key) : late - early > Hour

Met(parent) == \E key \in Observed(Relevant) : key.parent = parent

(* An agent that is started with the whitelist discovery leaves behind     *)
(* takes for normal exactly the lineages that some workload showed often   *)
(* and over a long time, in this run or those its baseline comes from, and *)
(* for anomalous every other child of a binary that was seen to start one; *)
(* of these the ones that were seen are listed for review (main.go:174,    *)
(* reporter.go:81-183, tracker.go:155-170, 352-369, validator.go:59-86).   *)
WhitelistMeansLearnt == main = "terminated" /\ whitelist # NoFile =>
    LET allow == Allowed!FromFile(whitelist) IN
    \A parent \in Names, child \in Names :
        /\ Allowed!Classify(allow, parent, child) =
              IF ~Met(parent) THEN "SUSPICIOUS"
              ELSE IF WellKnown(parent, child) THEN "NORMAL" ELSE "ANOMALOUS"
        /\ /\ ~WellKnown(parent, child)
           /\ \E key \in Observed(Relevant) : key.parent = parent /\ key.child = child
           => \E n \in DOMAIN whitelist : /\ whitelist[n].parent = parent
                                          /\ child \in whitelist[n].quarantined
                                          /\ whitelist[n].review

(* The inductive invariant behind the safety properties.  The workers have *)
(* left before the context is cancelled; a worker leaves when everything   *)
(* accepted was taken.                                                     *)
PhaseInv ==
    /\ main \in {"save", "report", "whitelist", "terminated"}
          => \A w \in Workers : pc[w] = "exited"
    /\ ~contextLive => main \in {"save", "report", "whitelist", "terminated"}

QueueInv ==
    /\ Len(taken) <= Len(accepted)
    /\ \A i \in DOMAIN taken : taken[i] = accepted[i]
    /\ \A w \in Workers : pc[w] = "exited" => closed /\ Len(taken) = Len(accepted)

(* What a worker knows of its event by the place where it is.              *)
WorkInv == \A w \in Workers :
    /\ pc[w] \notin {"range", "exited"} => \E i \in DOMAIN accepted : accepted[i] = event[w]
    /\ pc[w] = "track" => Learns
    /\ pc[w] \in {"decide", "dispatch", "reserve", "patch"}
          => ~Learns /\ ~Excluded(event[w])
    /\ pc[w] \in {"reserve", "patch"}
          => event[w].action = "AUTO_CONTAINMENT" /\ event[w] \in alerted

(* The exemptions hold whenever the file they are in loads.                *)
ExemptInv == Config!Loads(launch.file) => ExemptIsLeftAlone

(* An event that asks for containment is on the way to it, or there.       *)
Asks(e) == mode = "enforcement" /\ ~Excluded(e) /\ Scored(e) /\ e.action = "AUTO_CONTAINMENT"

Patching(pod) == \E w \in Workers : pc[w] = "patch" /\ event[w].pod = pod

OnTheWay(pod) == \E w \in Workers : /\ pc[w] \in {"route", "decide", "dispatch", "reserve"}
                                    /\ event[w].pod = pod /\ Asks(event[w])

RedInv ==
    /\ \A pod \in Pods : claim[pod] = "busy" => Patching(pod)
    /\ \A i \in DOMAIN taken : Asks(taken[i]) =>
          LET pod == taken[i].pod
          IN  claim[pod] = "contained" \/ pod \in failed \/ Patching(pod) \/ OnTheWay(pod)

(* The tracker holds what it was restored with and what was taken from the *)
(* queue and is not excluded, but for the events the workers still hold.   *)
Holding == {w \in Workers : pc[w] \in {"route", "track"}}

LearntInv == Learns => \E at \in [Workers -> 0..Len(taken)] :
    /\ \A w \in Holding :
          /\ at[w] > 0 /\ event[w] = accepted[at[w]]
          /\ \A v \in Holding \ {w} : at[v] # at[w]
          /\ pc[w] = "track" => ~Excluded(event[w])
    /\ Summarises(learnt, {i \in 1..Len(taken) : ~Excluded(accepted[i])
                                                 /\ \A w \in Holding : at[w] # i})

(* What main has written when it is done with a file.                      *)
FilesInv ==
    /\ main \in {"report", "whitelist", "terminated"} /\ Learns
          => "snapshot" \in unwritten \/ snapshot = learnt
    /\ main \in {"whitelist", "terminated"} /\ Reports
          => "report" \in unwritten \/ report = Discovery!GenerateReport(learnt)
    /\ whitelist # NoFile => main = "terminated" /\ Reports
    /\ main = "terminated" /\ Reports
          => \/ whitelist = Discovery!GenerateWhitelist(learnt)
             \/ whitelist = NoFile /\ "whitelist" \in unwritten

IInv == /\ TypeOK /\ PhaseInv /\ QueueInv /\ WorkInv /\ ContainedAfterAlert /\ ExemptInv
        /\ RedInv /\ LearntInv /\ FilesInv

(* The termination signal ends the agent.                                  *)
SignalTerminates == main = "waitClient" ~> main = "terminated"

(* Every accepted event reaches a worker, and the worker is done with it:  *)
(* whenever Tetragon pauses, the agent catches up (main.go:355-484).       *)
AcceptedIsHandled ==
    accepted # <<>> ~> taken = accepted /\ \A w \in Workers : pc[w] \in {"range", "exited"}
=============================================================================
