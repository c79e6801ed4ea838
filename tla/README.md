# ZTRE verification

TLA+ models of ZTRE, the Kubernetes runtime security agent of this repository, the
TLC configurations that check them on small instances, and theorems about them that
TLAPS proves for every value of the constants. Paths below are relative to the
repository's root (`src/` in `PROJECT.json`).

- [The system](#the-system): components, state, operations, what is hard about each
- [The modules](#the-modules): how each one corresponds to the code
- [The runs](#the-runs): what each shows, its bounds and why they are enough
- [Fairness](#fairness)
- [What is proved](#what-is-proved)
- [Where code and documentation disagree](#where-code-and-documentation-disagree)
- [What is not modelled](#what-is-not-modelled)
- [Plan](#plan)

To run a check: `tlc -config MCExecutor.cfg MCExecutor`; to check the proofs:
`tlapm EventBufferProofs.tla`.

## The system

The agent (`cmd/ztre-agent`) is one Go process per node. Tetragon streams kernel
events to it over gRPC; the collector client parses them and pushes them into a
bounded buffer; a pool of worker goroutines takes them out, classifies the lineage
(parent binary, child binary) against a whitelist, scores the risk, compares the score
with two thresholds and, depending on the agent's mode and the tier, learns, logs,
alerts, or labels the pod so that a network policy isolates it. A second program, the
serverless responder (`cloud-run-webhook/main.py`), receives the alerts over HTTP and
can quarantine workloads by itself.

```
 Tetragon --gRPC--> Client --Push--> EventBuffer --range--> workers --> Tracker --> BaselineStore --> files
                                                              |  \                                   |
   files --SIGHUP--> Whitelist, Decision engine <--read-------+   +--> Dispatcher --HTTP--> Responder |
                                                              |                               |      |
                                                              +--> Executor --patch--> Kubernetes <--+
```

| component | state it keeps | operations | how it meets the others |
|---|---|---|---|
| Event buffer, `pkg/collector/buffer.go` | a channel, `isClosed`, `RWMutex`, `sync.Once`, a drop counter | `Push`, `Events`, `Close`, `Len`, `Dropped` | the client pushes, workers range, main closes |
| Tetragon client, `pkg/collector/client.go` | the backoff of its reconnect loop | `Start`, `streamEvents` | pushes into the buffer until its context ends |
| Parser, `pkg/collector/parser.go` | none | `Parse` | called by the client |
| Whitelist, `pkg/validator` | map parent -> children, `RWMutex` | `Load`, `LoadMulti`, `Classify` | the SIGHUP goroutine loads, workers classify |
| Risk engine, `pkg/risk` | none | `Calculate`, `Zone` | called by workers |
| Decision engine, `pkg/decision/engine.go` | two thresholds, `RWMutex` | `NewEngine`, `UpdateThresholds`, `GreenMax`, `YellowMax`, `Evaluate` | the SIGHUP goroutine updates, workers read |
| Dispatcher, `pkg/decision/dispatcher.go` | list of sinks, `RWMutex` | `RegisterSink`, `Dispatch` | called by workers; one goroutine per sink, awaited |
| Containment executor, `pkg/containment` | `sync.Map` of contained pods | `Quarantine`, `ResetCache` | called by workers; talks to the API server |
| Behaviour tracker, `pkg/discovery/tracker.go` | patterns, counters, time of the last new pattern | `Track`, `GetPatternsMap`, ... | fed by workers, read by store and reporter |
| Baseline store, `baseline.go`, `atomic.go` | last status; files on disk | `Run`, `SaveSnapshot`, `LoadLatestSnapshot`, pruning | a goroutine of its own, and main at shutdown |
| Reporter, `reporter.go` | none | report and whitelist generation | main at shutdown in discovery mode |
| Agent process, `cmd/ztre-agent/main.go` | contexts, channels, wait groups | start, SIGHUP, worker loop, graceful shutdown | composes everything |
| Configuration, `pkg/config` | none | load, defaults, `IsNamespaceExcluded` | read at start and at SIGHUP |
| Observability, `pkg/observability` | Prometheus counters | register, serve | called by everyone |
| Responder, `cloud-run-webhook/main.py` | dictionary of recently seen keys, per instance | `/v1/remediate`, `/v1/agent-alert` | several instances behind one URL |
| Charts, manifests, scripts, demos, tests | none at run time | | |

What is hard, and what correctness means, component by component:

- **Event buffer.** `Push` and `Close` race: a send on a closed channel would panic
  and end the agent. `Close` is called twice (by `main` and by a deferred call). A full
  buffer must drop rather than block, and what it accepted must reach a worker, in
  order, also after `Close`. The shutdown hangs if `Close` cannot get its lock.
- **Client and dispatcher.** The stream breaks between any two messages and is opened again
  after a wait that doubles, is cut at a maximum and starts afresh after an attempt that
  lasted. The alert goes to every sink at once, each of which may fail, hang until its
  timeout, or panic; none may keep the others from the alert, nor the worker from its loop.
- **Executor.** Several workers decide about one pod at once. Only one may patch;
  the others return `nil` and rely on it. The patch may be applied and its answer lost,
  be retried, be refused; on failure the reservation must be given back, or the pod is
  never contained. Pods come and go in the meantime.
- **Policy** (whitelist and decision engine). Two locks, three files, one goroutine that
  replaces the contents in several critical sections, and workers that read them in
  several critical sections. A decision must come from one configuration, files that
  cannot be read must change nothing, and what the files say must arrive in memory.
- **Agent pipeline.** Whatever is accepted must be handled, and only as the mode and
  the excluded namespaces allow. The order of the shutdown (stop the intake, stop the
  store, close the buffer, drain, cancel the context, save, report) carries all of its
  guarantees: no containment lost, no event missing from the final files, termination.
- **Tracker and store.** A snapshot is read in six calls while workers write. Two files
  are written one after the other, the process may die at any point, a write may fail,
  a file may be damaged. A restart must find the newest snapshot it can, and must not
  call a restored baseline stable before having watched for the whole threshold.
- **Reporter and configuration.** The whitelist that discovery leaves behind is the one
  enforcement starts with: what was seen often and over a long time must come out as normal and
  nothing else, whatever the order of the events and of Go's maps. A file with a typing
  error must not make the agent contain what nobody asked it to.
- **Responder.** Its deduplication lives in the memory of one instance; handlers
  interleave where they await; the pod's label and the namespace's policy are two API
  calls of which either may fail; and the agent alerts before it contains.

`PROJECT.json` lists these hazards one by one with the line at which each bites and the
properties that would notice.

## The modules

| module | what it is | models |
|---|---|---|
| `EventQueue` | abstract specification of the buffer: a bounded FIFO queue | `buffer.go` as its callers see it |
| `EventBuffer` | the buffer, lock by lock; refines `EventQueue` | `buffer.go`, the workers' `range` in `main.go` |
| `ContainmentClaim` | abstract specification of containment: claim, confirm, abandon, reset | `executor.go` as its callers see it |
| `Executor` | `Quarantine` and `ResetCache`, attempt by attempt; refines `ContainmentClaim` | `executor.go` |
| `Parser` | operator `Parse` | `parser.go` |
| `TetragonClient` | the reconnect loop and the stream | `client.go` |
| `Dispatcher` | `RegisterSink` and `Dispatch`, goroutine by goroutine | `dispatcher.go` |
| `AlertDelivery` | composes the three above with `EventQueue`: from the stream to the sinks | `main.go:210-216`, `445-454`, `488-516` |
| `Decision` | operators: `NewEngine`, `Accepts`, `Evaluate`, `Zone` | `decision/engine.go`, `RiskScore.Zone` |
| `Whitelist` | operators: `FromFile`, `Merge`, `Classify` | `validator.go` |
| `RiskEngine` | operators: `Calculate` and what it adds up, over the two above | `risk/engine.go` |
| `PolicyReload` | SIGHUP goroutine against workers, over the three above | `main.go:203-405` |
| `Configuration` | operators: what a configuration file and the flag come to | `config.go`, `main.go:63-79`, `130-148` |
| `Tracker` | operators: `Track`, `Confidence`, `Profile` | `tracker.go` |
| `Reporter` | operators: `GenerateWhitelist`, `GenerateReport`, over `Tracker` | `reporter.go` |
| `AgentPipeline` | workers and shutdown, composed of `EventQueue`, `ContainmentClaim`, `Configuration`, `Reporter` and `Whitelist` | `main.go:338-550` |
| `BaselineStore` | snapshots, pruning, crash and restart | `baseline.go`, `atomic.go`, the tracker's status |
| `Responder` | both endpoints, several instances, the agent as a client | `main.py`, `WebhookAlertSink.Send` |
| `Extrema` | lemmas about least and greatest members of sets of numbers | |
| `*Proofs` | theorems about the module of that name | |
| `MC*` | instances for TLC | |

`PROJECT.json` maps every definition to the lines it translates. Definitions whose name
contains an underscore (`Retry_OneTooMany`) are not part of any specification: each is a
plausible slip in the definition that follows it, kept to show that the property named
for it in `PROJECT.json` notices.

**EventBuffer.** Variables carry the names of the fields: `channel` is the content of
`b.events`, `isClosed`, `dropped`, `once` is `closeOnce`. `readers` and `writer` are the
`RWMutex`; a writer that waits (`writer` set, `readers` not yet empty) keeps new readers
out, as in Go. Every acquisition, release, test, send and counter is a step of its own,
because another goroutine can run there. The `select` with `default` of `Push` is
`SendEvent` or `DropEvent`, exclusive by the room left in the channel. `CloseAgain` waits
for `once = "done"`, because `sync.Once.Do` makes every caller wait for the first.
`accepted` and `taken` are history variables.

**Executor.** `quarantined` is the key set of `e.quarantined`. `Reserve` is `LoadOrStore`
with its early return; `PatchOK`, `PatchAnswerLost`, `PatchTransient` and `PatchRefused`
are the outcomes of one attempt of `retry.OnError`; `Forget` and `Report` are the error path,
apart because the reservation is gone before the caller knows. `ResetCache`
deletes key by key, as `sync.Map.Range` does. `ChangePod` and what is built on it is the
cluster. The refinement mapping calls a pod *contained* once its label is on, also before
`Succeed` has counted it, and *busy* while a call holds it; while a reset runs a claim may
become free at any time, which is why the agent never calls `ResetCache`.

**Parser, TetragonClient, Dispatcher, AlertDelivery.** `at` is where the client's goroutine is:
`Attempt`, `AttemptOver`, `WaitOver` and `WaitCancelled` are the loop of `Start`, with `backoff` as its
local; `Open`, `OpenFails`, `Recv` and `StreamEnds` are `streamEvents`. Of time only one bit is
kept, `long`: five seconds since the attempt began. A dispatch is one step to begin (the list of sinks is
copied under its lock), one for each sink, which answers or panics, and `Return`, which is
`wg.Wait`. `Push` takes no lock here: the buffer is an instance of `EventQueue`. A worker in a
dispatch takes nothing from the buffer, so a slow webhook makes the buffer lose events; the
model allows it, and the properties speak of what was accepted.

**Decision, Whitelist, RiskEngine, PolicyReload.** Thresholds are integers of the configuration, so
they may be zero, negative or in the wrong order; scores are fractions, `Point` units to the
point. Files are sequences of entries naming binaries by path, and `Base` maps several
paths to one binary, as `filepath.Base` does. A score is computed by `Calculate` from the
event, its class and the policy: the first pattern that matches gives the severity, a
namespace listed in several tiers has the score of the last. An event carries the patterns that
its binary, arguments and type match; which of them counts is modelled. Weights add up to one
within a thousandth, as `validateWeights` demands. `PolicyReload` has one step per critical
section and one per reading of a file, for the SIGHUP goroutine and for a worker
(`ClassifyEvent`, `Decide`, `ReadGreenMax`, `LogZone`). The SIGHUP channel of capacity
one is the Boolean `hup`.

**Configuration, Tracker, Reporter, AgentPipeline.** The buffer is an instance of `EventQueue` and
the executor an instance of `ContainmentClaim`, which their own modules are shown to implement,
so the pipeline has no lock and no retry in it. `launch` is the configuration file, the flag and the
baseline an earlier run left, with which the tracker starts (`restored`, `LoadLatestSnapshot`); which
snapshot that is, is `BaselineStore`'s question. `mode` and `Excluded` are computed from it as `main` does. An event is a record that carries what
the tracker reads of it, its class and the action the policy yields for it; `Route`, `Track`, `Decide`, `Dispatch`,
`Reserve`, `Contain` and `GiveUp` are a worker's iteration. The variable `main` walks through the
shutdown, whose three writes may each fail. Times of events are small integers: the tracker asks only
which is larger and whether two are more than `Hour` apart. Confidence is in percent, and its levels
(`Levels`, 100, 50, 10 and 3 in the code) are constants of which the proofs use only the order.

**BaselineStore.** `SaveSnapshot` goes step by step: five reads of the tracker (the sixth, of the
day learning began, is left out), two writes, the listing of the files to remove, their removal
one by one, the return. Writes, the listing (`ListFails`) and each removal may fail; the code logs it
and goes on. `Exit` (orderly, after the final save) and `Crash`
(at any step) clear the memory and leave the files. Each snapshot has a serial number that
only the properties see.

**Responder.** A handler is interrupted only where it awaits (`Accept`, `Reply`), and the
Kubernetes calls block the instance's loop (`Runs`). `recent` is the deduplication
dictionary of each instance, kept as ages. The agent dispatches, waits for the answer or for its
timeout, and only then contains.

## The runs

| run | expects | asks |
|---|---|---|
| `buffer` | pass | Does any interleaving of producers, closers and workers panic, lose or reorder events? Do `Close` and the drain end? Does the code implement `EventQueue`? |
| `executor` | pass | With failures, cluster changes and resets at will: one call per pod, nothing cached that was not patched, no failure that no caller was told of? Does the executor implement `ContainmentClaim`, the end of every claim included? |
| `delivery` | pass | From a stream that breaks to sinks that panic: is every event taken over once and in order, does every alert arrive, is the connection restored with the right backoff, can the agent always be stopped? |
| `policy` | pass | Do decisions and zones come from thresholds that were in force, does memory come to hold what the files say after they were edited? |
| `policy_window` | violation | Do manual overrides hold throughout a reload? They do not. |
| `pipeline` | pass | For every configuration and kind of event: is nothing contained without mode, event and alert that ask for it, nothing forgotten at shutdown, do the files say what was restored and seen, does the generated whitelist mean it, and does the agent terminate? |
| `pipeline_exempt` | violation | Are the namespaces that the configuration file exempts left alone? Not if the file does not load. |
| `baseline` | pass | Does a restart recover a snapshot as new as the faults allow, does pruning spare the newest and leave no more than failed, is STABLE earned? |
| `baseline_torn` | violation | Is a snapshot one state of the tracker? It is not. |
| `baseline_recent` | violation | Is the most recent snapshot restored? Not always. |
| `responder` | pass | Can a caller rely on "quarantined", and is a workload quarantined once per TTL and instance? |
| `responder_alert` | violation | Has the agent contained the pod of an alert the responder acknowledges? Not yet. |

Bounds, all of which are constants of the modules; what is listed under
[What is proved](#what-is-proved) does not depend on them:

- `buffer`: two goroutines of each kind, two distinct events besides `nil`, a channel of two
  slots, three calls of `Push`. Two closers make the second call of `Close`; two workers
  overtake each other at the drain; three pushes fill the channel and drop one event.
- `executor`: two workers and two pods, two attempts per call, three calls, two
  changes by the cluster, one reset. Two attempts are the fewest with a retry; three calls let a
  worker return to a pod that failed or was reset; the cluster must both delete a pod and
  create it again.
- `delivery`: two workers, a buffer of one, so that it is full while they are busy; three
  messages of four kinds (an event with an alert, one without, a process of the host and a message without
  a process, both skipped); two sinks, of which one is registered late or never. The backoff goes
  2, 4, 5: it doubles, and overshoots its maximum; three failures in a row reach it.
- `policy`: one worker, because workers share nothing but what they read; two edits and one
  event. The files cover: a parent named twice, two spellings of one binary, missing and
  corrupt files, thresholds in order, out of order and unset. The risk policy is that of
  `config/risk_scoring_policy.yaml`; one event scores 70.0 when it is anomalous, red under
  39/69 and green under 70/90, so that a decision made of two configurations differs from
  either; another scores 62.5, inside the last point of a green tier that ends at 62.
- `pipeline`: two workers, a buffer of two, and six launches, each with the traffic that matters
  to it (`MCTraffic`): a file without a mode, which discovers and writes the whitelist, under three
  events of one lineage at two times and in two workloads besides another child of the same parent,
  started with nothing on disk; the same after a restart, with a baseline (`Earlier`) that knows one lineage
  once, one often and for long, and one often in a short time, so that an event may add what
  was missing; a flag that turns enforcement into discovery, without files; a file with a misspelt mode under a
  flag for shadow; a flag that turns discovery into enforcement, under two of eight kinds of event, one for
  each way through a worker's body, two of them about the same pod; and no file, with a flag for
  enforcement, where a namespace meant to be exempt is not. Two events are enough for two workers to meet at one
  pod and for one to be queued when the signal comes; three are the fewest that make a
  lineage trusted (`often` is two here) next to one that is not.
- `pipeline_exempt`: the launch that matters, with one event of an exempt namespace and one of another.
- `baseline`: one lineage, a threshold of two ticks, three files kept, clock up to
  three, one crash, one orderly stop, two faults. A fourth snapshot makes the store prune; with three
  files the oldest is older than one damaged file excuses; a removal that fails leaves a fourth file, which
  the final save removes or not; the process ends twice, once at any step of a save and once in good
  order. This is the largest instance, 3.4 million states.
- `responder`: two instances, two callers, one agent worker, a pod in an ordinary and
  one in a protected namespace, a TTL of two ticks, three requests, one replacement. The state space is
  finite without a bound on time, as ages stop at the TTL.

Deadlock is checked in every run; where a program may stop (`Rest`, `Stopped`, `Terminated`,
`Idle`) the model says so with a step of its own. Symmetry is used only in runs
without liveness properties.

What the passing runs show is each property's comment; the ones that carry most:

- `NoPanic`, `AcceptedIsTakenThenQueued`, `DrainAfterClose`: the lock protocol between `Push` and
  `Close` is right, and the shutdown may rely on it.
- `NoSilentFailure`: a worker that returned `nil` because it found a reservation is covered by
  the error of whoever held it. Only the cluster's own changes are excepted: the cache is
  not told of a pod that was deleted and created again.
- `WaitFollowsFailures`: the backoff is the one that doubling and cutting prescribe, although it
  is kept in one variable that three places write.
- `SentOnceToEverySink`, `StopsWhenCancelled`: a panic costs neither another sink its alert nor the
  worker its return.
- `NoRedEventForgotten`, `WorkUnderLiveContext`, `FinalFilesComplete`: the order of the
  shutdown is right, and each step of it is needed (the variants that swap or omit one
  are caught).
- `WhitelistMeansLearnt`: the way from restored baseline and events over confidence, grouping by parent and
  the file back into `Classify` says *normal* of exactly the lineages that one workload showed often and for
  long, before the restart, after it or over both together.
- `EditsReachMemory`: after an edit there comes a moment when no reload is owed or under way and memory holds
  what the files say. Of the whitelist this is said while its file is readable: while it is not, the
  overrides are not read either (`main.go:305-308`), so an edit of them takes effect only with a
  later reload that finds the whitelist.
- `EachFaultCostsOneSnapshot`: wherever the process dies, at most the snapshot being written
  is lost, and one more for each failed write, each damaged file and each file that a snapshot of
  the same second replaced.
- `QuarantinedIsIsolated`: a caller told "quarantined" can rely on both label and policy.

## Fairness

- Go's scheduler runs every goroutine that can run: weak fairness of each step of a
  `Push` or `Close` that has begun, of each worker, of the SIGHUP goroutine and of `main`'s
  shutdown. Weak fairness of the write lock is justified because a waiting writer keeps new
  readers out. No fairness is assumed of calling: nobody need push, close, send a signal or
  edit a file.
- A worker inside `Quarantine` or `Dispatch` goes on: client-go and the sinks answer, or
  fail by their timeouts (five seconds for the webhook, a bounded number of attempts for the patch).
- `PolicyReload` assumes in addition that whoever edits a file sends a SIGHUP for it in
  the end (`WF(stale /\ SendHup)`); without it no edit need take effect.
- `AlertDelivery`: an attempt to open the stream succeeds or fails, the timers of the backoff fire, and
  a cancelled context ends an open stream; Tetragon need neither send nor hang up.
- `BaselineStore` and `Responder` state safety only.

## What is proved

Seven modules hold theorems, each about the specification of its name and for every value of
the constants: any number of goroutines, pods, events, sinks, instances, any capacity, any
contents of the files. `Extrema` holds lemmas about least and greatest members of sets of numbers.

| theorem | of | says |
|---|---|---|
| `TypeCorrect` | all seven | `TypeOK` always holds |
| `PanicFree` | `EventBuffer` | no send on a closed channel, no second close |
| `NothingAcceptedIsLost` | `EventBuffer` | what was accepted is what was taken followed by what is queued |
| `CloseIsFinal` | `EventBuffer` | a `Close` that has returned leaves the channel closed, whoever ran its body |
| `DrainedBeforeExit` | `EventBuffer` | a worker leaves only an empty and closed channel |
| `NobodyWaitsInACircle` | `EventBuffer` | who waits for the lock waits for somebody who can go on |
| `ImplementsQueue` | `EventBuffer` | lock by lock, the buffer is an `EventQueue` |
| `OneCall` | `Executor` | before the first reset no two calls are about the same pod |
| `CacheIsTrue` | `Executor` | a cached pod that no call works on was labelled, also with resets |
| `FailuresAreReported` | `Executor` | a pod asked for is labelled, or some caller got an error |
| `ImplementsRegistry` | `Executor` | attempt by attempt, and under resets, the executor is a `ContainmentClaim` |
| `OnceInOrder` | `AlertDelivery` | over any number of connections events reach the buffer once and in order |
| `SentOnce` | `AlertDelivery` | a sink gets an alert once, whatever the other sinks do |
| `WaitsAsFailed` | `AlertDelivery` | each wait is doubled and cut as often as short attempts failed in a row |
| `OneConfigDecides` | `PolicyReload` | a decision is the one of a single pair of thresholds that was in force |
| `ZoneIsTrue` | `PolicyReload` | the zone in the log is the decision's, unless a reload came in between |
| `ReloadIsEffective` | `PolicyReload` | a finished reload leaves in memory what the files say, if the whitelist file is readable |
| `RiskIsPercent` | `PolicyReload` | a policy on the scale from 0 to 100 yields risks from 0 to 100.1, as its weights may exceed one by a thousandth |
| `DisorderHasOneCause` | `PolicyReload` | thresholds out of order come only from the default of `NewEngine` |
| `OverridesHoldAtRest` | `PolicyReload` | before any edit, readable manual overrides are missing only between `Load` and `LoadMulti` |
| `LiveContext` | `AgentPipeline` | nobody works under a context that was cancelled |
| `ContainmentIsJustified` | `AgentPipeline` | no pod is touched without a mode that was asked for, an event outside the control plane that calls for it, and its alert |
| `ExemptWhenLoaded` | `AgentPipeline` | as long as the configuration file loads, the namespaces it exempts are left alone |
| `NothingForgotten` | `AgentPipeline` | an agent that has terminated has dealt with every event that called for containment |
| `OneWorkerPerPod` | `AgentPipeline` | one worker at most is at a pod, and none patches without the claim |
| `FilesAreComplete` | `AgentPipeline` | the files of the shutdown are made of the restored baseline and every accepted event, in whatever order the workers met them |
| `WhitelistIsLearnt` | `AgentPipeline` | read back by `Classify`, the generated whitelist means what was seen often and for long, in this run or those its baseline comes from |
| `ShutdownCanGoOn` | `AgentPipeline` | no wait of the shutdown or of a worker is for somebody who waits for it |
| `PruningIsSafe` | `BaselineStore` | the youngest file is the snapshot written last; no more files stay than configured but one for each failed removal or listing and each crash |
| `LossIsBounded` | `BaselineStore` | each crash, failed write, damaged or overwritten file costs one snapshot at most |
| `OnlyCrashesLoseSnapshots` | `BaselineStore` | without crash and fault a start restores the most recent snapshot |
| `FilesListWhatTheyCount` | `BaselineStore` | a torn snapshot may list more patterns than it counts, never fewer |
| `StabilityIsEarned` | `BaselineStore` | STABLE is announced only after a threshold of quiet that this process has seen |
| `QuarantineIsReal` | `Responder` | "quarantined" means labelled, in a namespace with its policy |
| `AtMostOncePerTTL` | `Responder` | an instance quarantines a workload once per TTL |

`AgentPipeline` and `AlertDelivery` use `EventQueue` and `ContainmentClaim` in place of the buffer
and the executor; `ImplementsQueue` and `ImplementsRegistry` are what entitles them to it, as far as
safety goes.

Each argument has the same shape: `IInv` of the module, which TLC checked first on the run's
instance, holds initially and is preserved by every step. What had to be added to the properties, and why:

- **EventBuffer.** `NoPanic` is not inductive: to see that a producer at its `select`
  meets an open channel one must know that nobody is closing it. `IInv` adds that
  each goroutine stays in its own code (`RolesInv`), that a producer is a reader exactly
  in its read section and that a closer past `WriteLock` excludes all readers (`MutexInv`), that
  one closer at most is in the body of `closeOnce.Do` (`OnceInv`), and how `isClosed` and the
  channel follow the position of that closer (`ClosingInv`): a producer between its test and
  its send still holds the read lock, hence `isClosed` is still false. `DataInv` carries the
  history. `OwnerInv` says that lock and `Once` belong to somebody in the body of `Close`; a
  waiting producer waits for that closer, and the closer for producers in their read section,
  whose `select` has a `default`. For the refinement, an event is lost when its producer finds the channel full, before
  it is counted: `lost` of the queue is `dropped` and the producers on their way to the counter.
  Assumed: the default capacity is positive, `nil` is not an event, producers are finitely many,
  the three roles are disjoint.
- **Executor.** A worker has a target exactly inside a call (`CallInv`); until the first reset the
  target of each call is in the cache and no resetter runs (`ReservedInv`); a call reaches its
  success only with the pod labelled, unless the cluster changed it since (`SuccessInv`). A call
  that finds the pod cached and no holder knows from `CachedPodWasPatched` that the pod was
  labelled: this is why `NoSilentFailure` holds of callers that did nothing. For the refinement,
  a reservation is `Claim`, the answer that the patch was applied is `Confirm`, giving back the
  reservation is `Abandon`, the deletion of a key is `Release`, everything else stutters.
  Assumed: `Steps` is positive, workers and resetters are disjoint.
- **AlertDelivery.** `FlowInv`: the event in flight is the last one parsed, and those before it have their
  places; a loss shifts places but never swaps two. `DispatchInv`: a WaitGroup counts exactly the
  goroutines that still send, and no two dispatches are about the same event. `SentInv` says
  whom each alert has been sent at every moment of its dispatch. `BackoffInv`: while an
  attempt is made, the variable already holds the wait after the one before it. What that wait ought to be
  is said by the sequence of waits that doubling and cutting lead to (`IsWait`), so that no power of two
  need be computed. Assumed: sinks are finitely many and
  standard output is one, intervals are numbers and their defaults positive.
- **PolicyReload.** `WorkInv`: while a worker decides, the thresholds in force are among those it may have
  seen, and with only one seen, what it has read is theirs. `ReadInv` follows the goroutine of SIGHUP:
  what it has read and not yet installed is what the file says, unless the file was edited since.
  Assumed: weights and scores of the policy are integers (in `Point` units), `Point` is positive, the
  default thresholds are in order. `DisorderHasOneCause` and `OverridesHoldAtRest` are the other side of
  two of the disagreements below: a hypothesis that rules out the default, or the position of the SIGHUP
  goroutine outside the window, is enough for what the documentation says to hold. The second needs
  `MergedAtRest`: as long as nobody edits, memory is the two files merged.
- **AgentPipeline.** `PhaseInv`: the context is cancelled only after every worker has left. `QueueInv`: a
  worker leaves only a closed and empty queue. `WorkInv`: where a worker is tells what it has
  checked. `RedInv`, the core: every taken event that asks for containment has a pod that is contained, has failed, is
  being patched or is on its way in some worker, so that when all have left one of the first two remains.
  `LearntInv`: the tracker summarises the restored baseline and the places of the queue that were taken, but for
  those still in a worker's hands; that two workers never hold one place, so that nothing is counted twice, is why it gives each
  worker a place and not only an event. `FilesInv` says which file is final at which step of the shutdown.
  What a report adds up over the patterns of a workload is a recursive function over
  sets, out of reach of a proof by induction; `SumIsUnique` and `CountsAddUp` argue from a
  smallest counterexample instead, by the well-foundedness of proper inclusion among finite sets, and
  `SightingsAddUp` brings in what the baseline had counted. `ExemptInv` goes beside `ContainedAfterAlert`: what
  the file exempts counts only if it loads. The step from
  tracker to whitelist (`TrustMeans`, `OneEntryEach`, `AllowedIs`) follows grouping by parent, the file and
  `FromFile` up to what `Classify` answers.
  Assumed: there is a worker, the buffer has a slot, the levels of confidence are in order, times of
  events are numbers, and a restored baseline holds finitely many patterns with numbers for counts and
  no last sighting before the first.
- **BaselineStore.** `PruneInv`: what is still to be removed is older than the files to keep, and the files beyond
  them are as many as failures and crashes explain. `TimesInv`: no time lies in the future, and a process that is up
  has been quiet for as long as it has seen no new pattern. `OrderInv`: a snapshot being written is not older than any file.
  `LossInv` bounds the age of each file: of the latest by what went wrong so far, of a
  timestamped one by the number of files after it, which pruning keeps and damage makes unreadable one
  by one. `CleanInv` (the latest file is the last snapshot while nothing went wrong) and `TornInv` (a
  number read first of something that grows) carry the two theorems about disagreements below.
  Assumed: lineages are finitely many, threshold and number of kept files positive, a missing, a
  damaged and a good file differ.
- **Responder.** `ClientInv` ties requests to instances; `ProgressInv` says what a handler past each of
  its Kubernetes calls has achieved; `AgeInv`, that a workload taken up less than a TTL ago is still in
  the dictionary, with its age. Assumed: the TTL is positive and callers are not agents.

Only model-checked: the liveness properties (`CloseReturns`, `DrainAfterClose`, `AlertsReachSinks`,
`Reconnects`, `StopsWhenCancelled`, `EditsReachMemory`, `SignalTerminates`, `AcceptedIsHandled`) and the
fairness part of the refinements `RefinesQueue` and `RefinesClaim`, which are out of the
prover's reach. `NobodyWaitsInACircle` and `ShutdownCanGoOn` are what of them is a matter of safety: they say of
reachable states which steps can be taken, with the guards written out (`CanGoOn`) in place of
`ENABLED`. Every safety property that a passing run checks is a theorem.

Files are named by the second. A process that is stopped and started within one second overwrites the
file of its last save, and the history is one file shorter than the number of saves:
`EachFaultCostsOneSnapshot` counts such overwritings, and the theorem needs them. It also asks
that the faults be no more than the files kept, because damage to all of them leaves nothing.

## Where code and documentation disagree

Five disagreements are runs that TLC ends with a counterexample:

- `pipeline_exempt`: `main.go:356-357` and `config.go:34-37` promise that pods of the namespaces listed in
  `exclude_namespaces` are never contained. A configuration file that does not load, for a misspelt mode
  say, is replaced as a whole by defaults without exclusions (`main.go:63-79`), while `--mode enforcement`
  still applies; one warning in the log is all that tells. `ExemptWhenLoaded`: a file that loads is obeyed.
- `policy_window`: `main.go:225` merges the manual overrides "on top". A reload first installs
  the whitelist file alone (`Load`) and merges the overrides only after reading a second
  file (`LoadMulti`); an event in between is classified without them. `OverridesHoldAtRest`: at all other
  times they hold.
- `baseline_torn`: `types.go:70` calls a snapshot the full state "at a point in time". It is read
  in six separately locked calls, so the number of patterns and the patterns, or the total and
  the sum of the counts, may disagree. `FilesListWhatTheyCount`: a pattern that is counted is listed.
- `baseline_recent`: `baseline.go:145` restores "the most recent snapshot". The latest file is taken
  whenever it decodes; after a crash between the two writes it is older than the newest
  timestamped file. The loss is bounded (`LossIsBounded`), and none
  without a crash or fault (`OnlyCrashesLoseSnapshots`).
- `responder_alert`: `main.py:277` assumes that the agent "already performed containment". The agent
  dispatches the alert first and contains afterwards, and containment may fail.

Others were met while reading and have no run of their own:

- The comment of `NewEngine` (`engine.go:21-22`) promises an error when `YellowMax <= GreenMax`. The code
  falls back to a `YellowMax` of 69 without comparing it with `GreenMax` again: a configuration of 70/60
  starts the agent with 70/69, and the tier between log and containment does not exist. A reload refuses the
  same file. It takes one call to see, so the theorem is of more use: `DisorderHasOneCause` says that only a green
  limit of 69 or more brings it about, through every reload.
- `tetragon.reconnect_interval_ms` is loaded and given a default of two seconds
  (`config.go:26`, `112`), but `main.go:491` hands the client one second.
- `client.go:74` speaks of a stream that ran successfully for five seconds; the clock starts before the
  connection is made, so an attempt that hangs for five seconds and then fails starts the backoff afresh too.
- The merging of overrides "on top" (`main.go:225`) is skipped on a reload whose whitelist file cannot be
  read (`main.go:305-308`): an edit of the overrides has no effect until it can.
- `risk/engine.go:162` has a rule for events of type `file_access`; the parser never produces one.

## What is not modelled

- Of the agent: `--generate-report`, which only prints; the flags that place files; what the log lines say.
- Of the tracker and reporter: frequencies, z-scores, percentiles and outliers, the recommendations and the
  order of entries; the files themselves are kept as what can be read from them.
- Of the sinks: what they write or post, beyond its success.
- Of the parser: process ids, container ids and times, which nothing decides on.
- Observability: registration of counters and an HTTP server; no decision depends on it.
- Charts, manifests, installation and demonstration scripts; the network policy that acts
  on the label belongs to Cilium.
- Data races and torn reads: the code takes a lock or a `sync.Map` at every shared access,
  so none is modelled as such.

Four hazards have no property that a run checks. That a namespace in two tiers of the risk policy gets the
score of the last (`risk/engine.go:106`) is modelled as it is; nothing says which tier should win. That the
responder marks a workload as recent before it is quarantined (`main.py:238`), so that a retry after a failure
is answered as a duplicate, contradicts no promise: a duplicate is not said to be isolated. That the
executor's cache is never told of a pod that was deleted or relabelled (`executor.go:85`) is modelled, and the
properties except such pods: whoever removes labels restarts the agent for it
(`tests/lib/common.sh:239-240`). That `NewEngine` may start out of order (`decision/engine.go:37`) is the theorem
`DisorderHasOneCause`.

## Plan

The order was: the buffer and the executor, which decide whether the agent dies or contains twice; the
policy and its reload; the pipeline with its shutdown; the store and the responder; then client,
parser and dispatcher, reporter and configuration; proofs beside the modules as TLC agreed
with them. All of that is done. What would add most to it:

1. `AgentPipeline` with `TetragonClient` and `Dispatcher` in it, instead of a client that pushes and a
   dispatch that is one step; the state space needs a smaller traffic for it.
2. The end of the executor's claims and of the buffer's drain as parts of a proof, once
   liveness is in the prover's reach.
3. The refinement mappings of buffer and executor composed with the pipeline, as a theorem about an agent
   with locks and retries in it.
4. `BaselineStore` and `AgentPipeline` composed, so that the baseline a run starts with is the one an
   earlier run of the pipeline left, crashes included, and not any sound one.
5. Z-scores and outliers of the report, over fractions.
