----------------------------- MODULE PolicyReload -----------------------------
(***************************************************************************)
(* The policy of a running agent and the goroutines that share it: the     *)
(* SIGHUP goroutine of src/cmd/ztre-agent/main.go reloads thresholds and   *)
(* whitelist from disk while the workers classify events, decide on them   *)
(* and, in shadow mode, name the zone of the score in their log.           *)
(*                                                                         *)
(* Each acquisition of the decision engine's or the whitelist's lock is a  *)
(* step, and so is each reading of a file: somebody may edit the files, or *)
(* another SIGHUP may arrive, in between.                                  *)
(***************************************************************************)
EXTENDS RiskEngine

CONSTANTS Workers,      \* worker goroutines
          SecurityEvents, \* [parent, child, matches, type, namespace] of the types scored
          Configs,      \* threshold sections of agent_config.yaml, Corrupt included
          AutoFiles,    \* contents of the whitelist file
          ManualFiles,  \* contents of the manual overrides file
          NoEvent,
          MaxEdits,     \* bound: edits of the files on disk
          MaxEvents     \* bound: events the workers process

ASSUME BoundsAssumption == MaxEdits \in Nat /\ MaxEvents \in Nat
ASSUME ConfigsAssumption == Configs \subseteq ThresholdConfig \cup {Corrupt}

VARIABLES config, autoFile, manualFile, \* the three files on disk
          thresholds,                   \* decisionEngine.thresholds
          allow,                        \* whitelist.allow
          hup,                          \* a SIGHUP waits in sighupChan
          rpc,                          \* where the SIGHUP goroutine is
          read,                         \* what it has read last
          pc,                           \* where each worker is
          event, class, score, action, green, zone, \* locals of each worker
          seen,     \* history: thresholds in force since the worker's event began
          stale,    \* history: files edited since the last reload began
          edits, toCome \* what is left of the bounds

disk     == <<config, autoFile, manualFile, edits>>
policy   == <<thresholds, allow>>
reloader == <<hup, rpc, read, stale>>
locals   == <<event, class, score, action, green, zone>>
workers  == <<pc, event, class, score, action, green, zone, toCome>>
vars     == <<config, autoFile, manualFile, thresholds, allow, hup, rpc, read, pc,
              event, class, score, action, green, zone, seen, stale, edits, toCome>>

(* Startup, main.go:203-228: a file that is not there leaves the whitelist *)
(* empty, one that does not parse ends the program; a manual file that     *)
(* cannot be merged is only worth a warning.                               *)
Loaded(auto, manual) ==
    LET base == IF Readable(auto) THEN FromFile(auto) ELSE Empty
    IN  IF Readable(manual) THEN Merge(base, manual) ELSE base

Init == /\ config \in Configs \ {Corrupt}
        /\ autoFile \in AutoFiles \ {Corrupt}
        /\ manualFile \in ManualFiles
        /\ thresholds = NewEngine(config)
        /\ allow = Loaded(autoFile, manualFile)
        /\ hup = FALSE /\ rpc = "wait" /\ read = Missing
        /\ pc = [w \in Workers |-> "idle"]
        /\ event = [w \in Workers |-> NoEvent]
        /\ class = [w \in Workers |-> "none"] /\ score = [w \in Workers |-> 0]
        /\ action = [w \in Workers |-> "none"] /\ green = [w \in Workers |-> 0]
        /\ zone = [w \in Workers |-> "none"]
        /\ seen = [w \in Workers |-> {}]
        /\ stale = FALSE /\ edits = MaxEdits /\ toCome = MaxEvents

-----------------------------------------------------------------------------
(* The operator *)

Edit == /\ edits > 0 /\ edits' = edits - 1
        /\ stale' = TRUE
        /\ \/ config' \in Configs \ {config} /\ UNCHANGED <<autoFile, manualFile>>
           \/ autoFile' \in AutoFiles \ {autoFile} /\ UNCHANGED <<config, manualFile>>
           \/ manualFile' \in ManualFiles \ {manualFile} /\ UNCHANGED <<config, autoFile>>
        /\ UNCHANGED <<policy, hup, rpc, read, workers, seen>>

(* The channel holds one signal; another one meanwhile is dropped.         *)
SendHup == /\ ~hup /\ hup' = TRUE
           /\ UNCHANGED <<disk, policy, rpc, read, stale, workers, seen>>

-----------------------------------------------------------------------------
(* The SIGHUP goroutine.  A name with an underscore is a plausible slip in *)
(* the definition that follows it; the properties are tried on it.         *)

Step(from, to) == rpc = from /\ rpc' = to

ReadConfig == /\ hup /\ hup' = FALSE
              /\ Step("wait", "update")
              /\ read' = config /\ stale' = FALSE
              /\ UNCHANGED <<disk, policy, workers, seen>>

UpdateThresholds_Unparsed ==
    /\ Step("update", "readAuto")
    /\ thresholds' = IF read = Corrupt \/ Accepts(read) THEN read ELSE thresholds
    /\ UNCHANGED <<disk, allow, hup, read, stale, workers, seen>>

UpdateThresholds ==
    /\ Step("update", "readAuto")
    /\ thresholds' = IF read # Corrupt /\ Accepts(read) THEN read ELSE thresholds
    /\ seen' = [w \in Workers |-> IF pc[w] = "idle" THEN seen[w]
                             ELSE seen[w] \cup {thresholds'}]
    /\ UNCHANGED <<disk, allow, hup, read, stale, workers>>

ReadAuto ==
    /\ Step("readAuto", IF Readable(autoFile) THEN "load" ELSE "wait")
    /\ read' = autoFile
    /\ UNCHANGED <<disk, policy, hup, stale, workers, seen>>

Load_OnTop ==
    /\ Step("load", "readManual")
    /\ allow' = Merge(allow, read)
    /\ UNCHANGED <<disk, thresholds, hup, read, stale, workers, seen>>

Load == /\ Step("load", "readManual")
        /\ allow' = FromFile(read)
        /\ UNCHANGED <<disk, thresholds, hup, read, stale, workers, seen>>

ReadManual_Skipped ==
    /\ Step("readManual", "wait")
    /\ read' = manualFile
    /\ UNCHANGED <<disk, policy, hup, stale, workers, seen>>

ReadManual ==
    /\ Step("readManual", IF Readable(manualFile) THEN "merge" ELSE "wait")
    /\ read' = manualFile
    /\ UNCHANGED <<disk, policy, hup, stale, workers, seen>>

LoadMulti == /\ Step("merge", "wait")
             /\ allow' = Merge(allow, read)
             /\ UNCHANGED <<disk, thresholds, hup, read, stale, workers, seen>>

Reload == ReadConfig \/ UpdateThresholds \/ ReadAuto \/ Load \/ ReadManual \/ LoadMulti

-----------------------------------------------------------------------------
(* A worker in shadow mode, main.go:376-405; enforcement takes the same    *)
(* steps up to the decision.                                               *)

Goto(w, from, to) == pc[w] = from /\ pc' = [pc EXCEPT ![w] = to]

Begin(w) ==
    /\ toCome > 0 /\ toCome' = toCome - 1
    /\ Goto(w, "idle", "classify")
    /\ event' \in {[event EXCEPT ![w] = e] : e \in SecurityEvents}
    /\ class' = [class EXCEPT ![w] = "none"]
    /\ score' = [score EXCEPT ![w] = 0]
    /\ action' = [action EXCEPT ![w] = "none"]
    /\ green' = [green EXCEPT ![w] = 0]
    /\ zone' = [zone EXCEPT ![w] = "none"]
    /\ seen' = [seen EXCEPT ![w] = {thresholds}]
    /\ UNCHANGED <<disk, policy, reloader>>

(* A normal execve is not scored; a normal kprobe is.                      *)
ClassifyEvent(w) ==
    /\ pc[w] = "classify"
    /\ class' = [class EXCEPT ![w] =
                    Classify(allow, event[w].parent, event[w].child)]
    /\ pc' = [pc EXCEPT ![w] = IF class'[w] = "NORMAL" /\ event[w].type = "execve"
                               THEN "idle" ELSE "decide"]
    /\ UNCHANGED <<disk, policy, reloader, event, score, action, green, zone, seen, toCome>>

Decide_ReadsTwice(w) == \E t, u \in seen[w] :
    /\ Goto(w, "decide", "readGreen")
    /\ score' = [score EXCEPT ![w] = Calculate(event[w], class[w])]
    /\ action' = [action EXCEPT ![w] = Evaluate(score'[w], [green |-> t.green, yellow |-> u.yellow])]
    /\ UNCHANGED <<disk, policy, reloader, event, class, green, zone, seen, toCome>>

Decide(w) ==
    /\ Goto(w, "decide", "readGreen")
    /\ score' = [score EXCEPT ![w] = Calculate(event[w], class[w])]
    /\ action' = [action EXCEPT ![w] = Evaluate(score'[w], thresholds)]
    /\ UNCHANGED <<disk, policy, reloader, event, class, green, zone, seen, toCome>>

ReadGreenMax(w) ==
    /\ Goto(w, "readGreen", "readYellow")
    /\ green' = [green EXCEPT ![w] = thresholds.green]
    /\ UNCHANGED <<disk, policy, reloader, event, class, score, action, zone, seen, toCome>>

LogZone(w) ==
    /\ Goto(w, "readYellow", "idle")
    /\ zone' = [zone EXCEPT ![w] = Zone(score[w], green[w], thresholds.yellow)]
    /\ UNCHANGED <<disk, policy, reloader, event, class, score, action, green, seen, toCome>>

Work(w) == Begin(w) \/ ClassifyEvent(w) \/ Decide(w) \/ ReadGreenMax(w) \/ LogZone(w)

-----------------------------------------------------------------------------
Next == Edit \/ SendHup \/ Reload \/ (\E w \in Workers : Work(w))

Spec == Init /\ [][Next]_vars

(* The SIGHUP goroutine goes on, and the operator who edits a file sends a *)
(* SIGHUP for it in the end.                                               *)
FairSpec == Spec /\ WF_vars(Reload) /\ WF_vars(stale /\ SendHup)

-----------------------------------------------------------------------------
(* Every variable keeps to its type.                                       *)
TypeOK ==
    /\ config \in Configs /\ autoFile \in AutoFiles /\ manualFile \in ManualFiles
    /\ thresholds \in ThresholdConfig
    /\ hup \in BOOLEAN /\ stale \in BOOLEAN
    /\ rpc \in {"wait", "update", "readAuto", "load", "readManual", "merge"}
    /\ rpc = "update" => read \in Configs
    /\ rpc = "load" => read \in AutoFiles
    /\ rpc = "merge" => read \in ManualFiles
    /\ pc \in [Workers -> {"idle", "classify", "decide", "readGreen", "readYellow"}]
    /\ event \in [Workers -> SecurityEvents \cup {NoEvent}]
    /\ class \in [Workers -> {"none", "NORMAL", "SUSPICIOUS", "ANOMALOUS"}]
    /\ score \in [Workers -> Int]
    /\ action \in [Workers -> DOMAIN ZoneOf \cup {"none"}]
    /\ green \in [Workers -> Int]
    /\ zone \in [Workers -> {"none", "GREEN", "YELLOW", "RED"}]
    /\ seen \in [Workers -> SUBSET ThresholdConfig]
    /\ edits \in 0..MaxEdits /\ toCome \in 0..MaxEvents

(* A decision is the one some thresholds, in force while the event was     *)
(* being processed, prescribe: never the green limit of one configuration  *)
(* with the yellow limit of another (engine.go:73-88).                     *)
DecisionFromOneConfig == \A w \in Workers : action[w] # "none" =>
    \E t \in seen[w] : action[w] = Evaluate(score[w], t)

(* The zone a score is logged with is the one of the decision logged with  *)
(* it, although zone and decision are computed from separate reads of the  *)
(* thresholds, unless a reload came in between (risk/engine.go:24-35,      *)
(* main.go:385-389).                                                       *)
ZoneMatchesDecision == \A w \in Workers :
    zone[w] # "none" /\ Cardinality(seen[w]) = 1 => zone[w] = ZoneOf[action[w]]

(* What the agent has in memory is what the files say.  While the          *)
(* whitelist file cannot be read nothing is said of the whitelist: the     *)
(* overrides are not merged either then, whatever was edited in them       *)
(* (main.go:305-308); the same goes for thresholds that are refused.       *)
InMemory == /\ Readable(autoFile) => allow = Loaded(autoFile, manualFile)
            /\ config # Corrupt /\ Accepts(config) => thresholds = config

(* A reload that nobody disturbed leaves in memory exactly what the files  *)
(* say: entries removed from them are gone, those of both files are in     *)
(* (main.go:279-311, validator.go:60-118).                                 *)
ReloadTakesEffect == rpc = "wait" /\ ~stale => InMemory

(* The inductive invariant behind the safety properties.  What a worker    *)
(* has found out so far, and the thresholds in force while it did.         *)
WorkInv == \A w \in Workers :
    /\ IsFiniteSet(seen[w])
    /\ pc[w] # "idle" => thresholds \in seen[w] /\ zone[w] = "none"
    /\ pc[w] \in {"classify", "decide"} => action[w] = "none"
    /\ pc[w] \in {"readGreen", "readYellow"} => action[w] # "none"
    /\ pc[w] = "readYellow" /\ Cardinality(seen[w]) = 1 => green[w] = thresholds.green

(* What an undisturbed reload has brought from disk by the time it is      *)
(* where it is.                                                            *)
ReadInv ==
    /\ rpc = "load" => Readable(read) /\ (~stale => read = autoFile)
    /\ rpc = "merge" => Readable(read) /\ (~stale => read = manualFile)
    /\ rpc = "update" /\ ~stale => read = config
    /\ rpc # "update" /\ ~stale /\ config # Corrupt /\ Accepts(config) => thresholds = config
    /\ rpc \in {"readManual", "merge"} /\ ~stale
          => Readable(autoFile) /\ allow = FromFile(autoFile)

IInv == /\ TypeOK /\ WorkInv /\ ReadInv
        /\ DecisionFromOneConfig /\ ZoneMatchesDecision /\ ReloadTakesEffect

(* After an edit of the files there comes a moment when no edit waits for  *)
(* a reload, none is under way, and what the workers classify and decide   *)
(* with is what the files say by then (main.go:271-311).                   *)
EditsReachMemory == stale ~> ~stale /\ rpc = "wait" /\ InMemory

(* What engine.go:18-22 says of NewEngine, that thresholds out of order    *)
(* are not accepted: those in force are in order from the start.           *)
ThresholdsOrdered == Ordered(thresholds)

(* What main.go:225 says of the manual file, that it is merged on top of   *)
(* the whitelist: an event whose lineage it allows is classified NORMAL.   *)
ManualOverridesHold == \A w \in Workers :
    /\ class[w] # "none" /\ edits = MaxEdits /\ Readable(manualFile)
    /\ Classify(FromFile(manualFile), event[w].parent, event[w].child) = "NORMAL"
    => class[w] = "NORMAL"
=============================================================================
