---------------------------- MODULE BaselineStore ----------------------------
(***************************************************************************)
(* What the agent learns and how it survives a restart: the tracker of     *)
(* src/pkg/discovery/tracker.go, which the workers feed, and the store of  *)
(* src/pkg/discovery/baseline.go, which saves it to disk every interval    *)
(* and once more at shutdown, prunes old files and restores the newest.    *)
(*                                                                         *)
(* A snapshot is assembled from several calls of the tracker, each under   *)
(* the tracker's own lock, then written to two files one after the other.  *)
(* The process may die between any two steps, a write may fail, and a file *)
(* may be found damaged.  Time is counted in ticks of the clock that names *)
(* the files, and never runs backwards.                                    *)
(*                                                                         *)
(* Left out: the details of a pattern but its count, the temporary files a *)
(* dead process leaves (the store never reads one), LearningStart.         *)
(***************************************************************************)
EXTENDS Integers, FiniteSetsExt, Functions

CONSTANTS Lineages,      \* keys of patterns
          Threshold,     \* stabilityThreshold
          MaxSnapshots,  \* timestamped files that pruning keeps
          Missing, Corrupt, \* no such file, and one that does not decode
          MaxNow, MaxEvents, MaxCrashes, MaxStops, MaxFaults \* bounds

ASSUME LineagesAssumption == IsFiniteSet(Lineages)
ASSUME ThresholdAssumption == Threshold \in Nat \ {0}
ASSUME MaxSnapshotsAssumption == MaxSnapshots \in Nat \ {0}
ASSUME BoundsAssumption == {MaxNow, MaxEvents, MaxCrashes, MaxStops, MaxFaults} \subseteq Nat

VARIABLES up,         \* the process is running
          total,      \* bt.totalEvents
          counts,     \* bt.patterns: how often each lineage was seen
          lastNew,    \* bt.lastNewPattern
          session,    \* bt.sessionStarted
          newStatus,  \* newStatus of Run
          lastStatus, \* bs.lastStatus
          pc,         \* where SaveSnapshot is, or "idle"
          snap,       \* the snapshot being assembled
          stopping,   \* the snapshot under way is the last before the exit
          stamped,    \* baseline_<time>.json, by time
          latest,     \* baseline_latest.json
          doomed,     \* the files pruneSnapshotsLocked has still to remove
          now,        \* the clock
          saves,      \* history: timestamped snapshots ever written
          overwrites, \* history: how many of them replaced one of the same tick
          quiet,      \* history: ticks this process has seen no new lineage
          left        \* what is left of the bounds

tracker == <<total, counts, lastNew, session>>
written == <<saves, overwrites>>
disk    == <<stamped, latest, doomed, written>>
saving  == <<pc, snap, stopping>>
status  == <<newStatus, lastStatus>>
vars    == <<up, total, counts, lastNew, session, newStatus, lastStatus, pc, snap, stopping,
             stamped, latest, doomed, now, saves, overwrites, quiet, left>>

Discovered(c) == {l \in Lineages : c[l] > 0}
NoCounts == [l \in Lineages |-> 0]

(* The serial number stands for the identity of a snapshot in history; the *)
(* file has none.                                                          *)
Blank == [serial |-> 0, stamp |-> 0, total |-> 0, unique |-> 0, counts |-> NoCounts,
          stability |-> "LEARNING", lastNew |-> 0]

Init == /\ up = TRUE
        /\ total = 0 /\ counts = NoCounts /\ lastNew = 0 /\ session = 0
        /\ newStatus = "LEARNING" /\ lastStatus = "LEARNING"
        /\ pc = "idle" /\ snap = Blank /\ stopping = FALSE
        /\ stamped = [t \in {} |-> Blank] /\ latest = Missing /\ doomed = {}
        /\ now = 0 /\ saves = 0 /\ overwrites = 0 /\ quiet = 0
        /\ left = [events |-> MaxEvents, crashes |-> MaxCrashes,
                   stops |-> MaxStops, faults |-> MaxFaults]

Spend(what) == left[what] > 0 /\ left' = [left EXCEPT ![what] = @ - 1]

Tick == /\ now < MaxNow /\ now' = now + 1
        /\ quiet' = IF up THEN quiet + 1 ELSE quiet
        /\ UNCHANGED <<up, tracker, status, saving, disk, left>>

-----------------------------------------------------------------------------
(* The tracker *)

Track == /\ up /\ Spend("events")
         /\ total' = total + 1
         /\ \/ \E l \in Lineages :
                  /\ counts' = [counts EXCEPT ![l] = @ + 1]
                  /\ lastNew' = IF counts[l] = 0 THEN now ELSE lastNew
                  /\ quiet' = IF counts[l] = 0 THEN 0 ELSE quiet
            \/ UNCHANGED <<counts, lastNew, quiet>> \* not an execve
         /\ UNCHANGED <<up, session, status, saving, disk, now>>

(* GetStabilityStatus *)
Status_IgnoresUptime == LET since == now - lastNew IN
          IF Discovered(counts) = {} THEN "LEARNING"
          ELSE IF since >= Threshold THEN "STABLE"
          ELSE IF since >= Threshold \div 2 THEN "STABILIZING"
          ELSE "LEARNING"

Status == LET since == Min({now - lastNew, now - session}) IN
          IF Discovered(counts) = {} THEN "LEARNING"
          ELSE IF since >= Threshold THEN "STABLE"
          ELSE IF since >= Threshold \div 2 THEN "STABILIZING"
          ELSE "LEARNING"

-----------------------------------------------------------------------------
(* SaveSnapshot, called by the loop of Run and by main at shutdown.  A     *)
(* name with an underscore is a plausible slip in the definition that      *)
(* follows it; the properties are tried on it.                             *)

Step(from, to) == up /\ pc = from /\ pc' = to

(* One turn of Run's loop: the status is read before the store is locked,  *)
(* and recorded after.  The interval is longer than a tick.                *)
RunTick == /\ now \notin DOMAIN stamped
           /\ Step("idle", "transition")
           /\ newStatus' = Status
           /\ UNCHANGED <<up, tracker, lastStatus, snap, stopping, disk, now, quiet, left>>

Transition == /\ Step("transition", "total")
              /\ lastStatus' = newStatus
              /\ UNCHANGED <<up, tracker, newStatus, snap, stopping, disk, now, quiet, left>>

FinalSave == /\ Step("idle", "total")
             /\ Spend("stops")
             /\ stopping' = TRUE
             /\ UNCHANGED <<up, tracker, status, snap, disk, now, quiet>>

ReadTotal == /\ Step("total", "unique")
             /\ snap' = [Blank EXCEPT !.stamp = now, !.total = total]
             /\ UNCHANGED <<up, tracker, status, stopping, disk, now, quiet, left>>

ReadUnique == /\ Step("unique", "patterns")
              /\ snap' = [snap EXCEPT !.unique = Cardinality(Discovered(counts))]
              /\ UNCHANGED <<up, tracker, status, stopping, disk, now, quiet, left>>

ReadPatterns == /\ Step("patterns", "stability")
                /\ snap' = [snap EXCEPT !.counts = counts]
                /\ UNCHANGED <<up, tracker, status, stopping, disk, now, quiet, left>>

ReadStability == /\ Step("stability", "lastNew")
                 /\ snap' = [snap EXCEPT !.stability = Status]
                 /\ UNCHANGED <<up, tracker, status, stopping, disk, now, quiet, left>>

ReadLastNew == /\ Step("lastNew", "stamped")
               /\ snap' = [snap EXCEPT !.lastNew = lastNew, !.serial = saves + 1]
               /\ UNCHANGED <<up, tracker, status, stopping, disk, now, quiet, left>>

(* The rename makes a file appear whole.                                   *)
WriteStamped ==
    /\ Step("stamped", "latest")
    /\ stamped' = [t \in DOMAIN stamped \cup {snap.stamp} |->
                      IF t = snap.stamp THEN snap ELSE stamped[t]]
    /\ saves' = saves + 1
    /\ overwrites' = IF snap.stamp \in DOMAIN stamped THEN overwrites + 1 ELSE overwrites
    /\ UNCHANGED <<up, tracker, status, snap, stopping, latest, doomed, now, quiet,
                   left>>

WriteStampedFails ==
    /\ Step("stamped", "exit")
    /\ Spend("faults")
    /\ UNCHANGED <<up, tracker, status, snap, stopping, disk, now, quiet>>

(* An error of this second write is ignored.                               *)
WriteLatest == /\ Step("latest", "prune")
               /\ latest' = snap
               /\ UNCHANGED <<up, tracker, status, snap, stopping, stamped, doomed, written,
                              now, quiet, left>>

WriteLatestFails == /\ Step("latest", "prune")
                    /\ Spend("faults")
                    /\ UNCHANGED <<up, tracker, status, snap, stopping, disk, now, quiet>>

(* All files but the newest MaxSnapshots are to go, as long as there is a  *)
(* listing of them; a file that cannot be removed is passed over.          *)
Later(t) == {u \in DOMAIN stamped : u > t}

ListDoomed ==
    /\ Step("prune", "remove")
    /\ doomed' = {t \in DOMAIN stamped : Cardinality(Later(t)) >= MaxSnapshots}
    /\ UNCHANGED <<up, tracker, status, snap, stopping, stamped, latest, written, now, quiet, left>>

ListFails == /\ Step("prune", "exit")
             /\ Spend("faults")
             /\ UNCHANGED <<up, tracker, status, snap, stopping, disk, now, quiet>>

PruneOne_Newest ==
    /\ doomed # {} /\ doomed' = doomed \ {Min(doomed)}
    /\ Step("remove", "remove")
    /\ stamped' = Restrict(stamped, DOMAIN stamped \ {Max(DOMAIN stamped)})
    /\ UNCHANGED <<up, tracker, status, snap, stopping, latest, written, now, quiet, left>>

PruneOne ==
    /\ doomed # {} /\ doomed' = doomed \ {Min(doomed)}
    /\ Step("remove", "remove")
    /\ \/ /\ stamped' = Restrict(stamped, DOMAIN stamped \ {Min(doomed)})
          /\ UNCHANGED left
       \/ /\ Spend("faults")
          /\ UNCHANGED stamped
    /\ UNCHANGED <<up, tracker, status, snap, stopping, latest, written, now, quiet>>

PruneDone == /\ doomed = {}
             /\ Step("remove", "exit")
             /\ UNCHANGED <<up, tracker, status, snap, stopping, disk, now, quiet, left>>

(* The end of the process, and of all it had in memory.                    *)
Exit == /\ up' = FALSE
        /\ total' = 0 /\ counts' = NoCounts /\ lastNew' = 0 /\ session' = 0
        /\ newStatus' = "LEARNING" /\ lastStatus' = "LEARNING" /\ quiet' = 0

(* The loop goes round, or the process ends in good order.                 *)
SaveReturns == /\ Step("exit", "idle")
               /\ snap' = Blank /\ stopping' = FALSE
               /\ \/ ~stopping /\ UNCHANGED <<up, tracker, status, quiet>>
                  \/ stopping /\ Exit
               /\ UNCHANGED <<disk, now, left>>

Save == \/ RunTick \/ Transition \/ FinalSave \/ ReadTotal \/ ReadUnique \/ ReadPatterns
        \/ ReadStability \/ ReadLastNew \/ WriteStamped \/ WriteStampedFails
        \/ WriteLatest \/ WriteLatestFails \/ ListDoomed \/ ListFails \/ PruneOne \/ PruneDone
        \/ SaveReturns

-----------------------------------------------------------------------------
(* Crashes, damage and restart *)

Crash == /\ up /\ Spend("crashes")
         /\ Exit
         /\ pc' = "idle" /\ snap' = Blank /\ stopping' = FALSE /\ doomed' = {}
         /\ UNCHANGED <<stamped, latest, written, now>>

Damage == /\ ~up /\ Spend("faults")
          /\ \/ latest # Missing /\ latest' = Corrupt /\ UNCHANGED stamped
             \/ /\ \E t \in DOMAIN stamped : stamped' = [stamped EXCEPT ![t] = Corrupt]
                /\ UNCHANGED latest
          /\ UNCHANGED <<up, tracker, status, saving, doomed, now, written, quiet>>

(* LoadLatestSnapshot: the latest file if it decodes, else the newest      *)
(* timestamped one that does, else nothing.                                *)
Valid == {t \in DOMAIN stamped : stamped[t] # Corrupt}

Source_OldestFirst == IF latest \notin {Missing, Corrupt} THEN latest
          ELSE IF Valid # {} THEN stamped[Min(Valid)]
          ELSE Blank

Source == IF latest \notin {Missing, Corrupt} THEN latest
          ELSE IF Valid # {} THEN stamped[Max(Valid)]
          ELSE Blank

(* A corrupt latest file is healed with what was found instead.            *)
Restart_ZeroTime ==
    /\ ~up /\ up' = TRUE
    /\ counts' = Source.counts /\ total' = Source.total
    /\ lastNew' = IF Source = Blank THEN -1 ELSE Source.lastNew
    /\ session' = now /\ quiet' = 0
    /\ latest' = IF latest = Corrupt /\ Source # Blank THEN Source ELSE latest
    /\ UNCHANGED <<status, saving, stamped, doomed, now, written, left>>

Restart ==
    /\ ~up /\ up' = TRUE
    /\ counts' = Source.counts /\ total' = Source.total
    /\ lastNew' = IF Source = Blank THEN now ELSE Source.lastNew
    /\ session' = now /\ quiet' = 0
    /\ latest' = IF latest = Corrupt /\ Source # Blank THEN Source ELSE latest
    /\ lastStatus' = "LEARNING" \* no time since the start of the session
    /\ UNCHANGED <<newStatus, saving, stamped, doomed, now, written, left>>

-----------------------------------------------------------------------------
(* The clock's bound is reached between two snapshots.                     *)
Idle == /\ up /\ pc = "idle" /\ now = MaxNow
        /\ UNCHANGED vars

Next == Tick \/ Track \/ Save \/ Crash \/ Damage \/ Restart \/ Idle

Spec == Init /\ [][Next]_vars

-----------------------------------------------------------------------------
Snapshots == [serial : Nat, stamp : 0..MaxNow, total : Nat, unique : Nat,
              counts : [Lineages -> Nat], lastNew : 0..MaxNow,
              stability : {"LEARNING", "STABILIZING", "STABLE"}]

ASSUME FilesAssumption ==
    Missing # Corrupt /\ Missing \notin Snapshots /\ Corrupt \notin Snapshots

(* Every variable keeps to its type.                                       *)
TypeOK ==
    /\ up \in BOOLEAN /\ stopping \in BOOLEAN
    /\ total \in Nat /\ counts \in [Lineages -> Nat]
    /\ lastNew \in 0..now /\ session \in 0..now
    /\ {newStatus, lastStatus} \subseteq {"LEARNING", "STABILIZING", "STABLE"}
    /\ pc \in {"idle", "transition", "total", "unique", "patterns", "stability", "lastNew", "stamped",
               "latest", "prune", "remove", "exit"}
    /\ snap \in Snapshots
    /\ latest \in Snapshots \cup {Missing, Corrupt}
    /\ DOMAIN stamped \subseteq 0..MaxNow /\ doomed \subseteq DOMAIN stamped
    /\ \A t \in DOMAIN stamped : stamped[t] \in Snapshots \cup {Corrupt}
    /\ now \in 0..MaxNow /\ saves \in Nat /\ overwrites \in Nat /\ quiet \in 0..MaxNow
    /\ left \in [events : Nat, crashes : Nat, stops : Nat, faults : Nat]

Faults  == MaxFaults - left.faults
Crashes == MaxCrashes - left.crashes

(* Whatever step the process dies at, the next one recovers a snapshot     *)
(* that is as new as can be: a crash costs the newest one at most, and so  *)
(* does each failed write, each damaged file and each file that a second   *)
(* snapshot of the same tick replaced (baseline.go:111-131 and 146-224).   *)
(* More faults than there are files kept may cost them all.                *)
EachFaultCostsOneSnapshot ==
    ~up /\ Faults <= MaxSnapshots
        => Source.serial >= saves - Crashes - Faults - overwrites

(* Pruning keeps the newest files: the youngest timestamp is that of the   *)
(* snapshot written last.  No more files stay than were asked for, but for *)
(* those that could not be removed or listed and those of which a crash    *)
(* prevented the removal (baseline.go:128-134 and 280-307).                *)
NewestSurvivesPruning ==
    /\ saves > 0 => \/ stamped[Max(DOMAIN stamped)] = Corrupt
                    \/ stamped[Max(DOMAIN stamped)].serial = saves
    /\ pc \notin {"latest", "prune", "remove"}
       => Cardinality(DOMAIN stamped) <= MaxSnapshots + Faults + Crashes

(* The agent finds the baseline STABLE only when this process has watched  *)
(* for the whole threshold without a new lineage: a restart starts the     *)
(* wait again, however old the restored baseline is (baseline.go:65-85).   *)
StableIsEarned ==
    [][newStatus' # newStatus /\ newStatus' = "STABLE" => quiet >= Threshold]_vars

(* The inductive invariant behind the two.  No time lies in the future, and *)
(* this process has been watching since its start or the last new lineage. *)
TimesInv ==
    /\ snap.stamp <= now /\ snap.lastNew <= now
    /\ latest \notin {Missing, Corrupt} => latest.lastNew <= now
    /\ \A t \in DOMAIN stamped : t <= now /\ (stamped[t] # Corrupt => stamped[t].lastNew <= now)
    /\ quiet <= now
    /\ up => quiet >= now - lastNew \/ quiet >= now - session

(* A snapshot under way will be the newest file.                           *)
OrderInv ==
    /\ pc \in {"unique", "patterns", "stability", "lastNew", "stamped"}
          => \A t \in DOMAIN stamped : t <= snap.stamp
    /\ pc = "stamped" => snap.serial = saves + 1
    /\ saves > 0 => DOMAIN stamped # {}
    /\ left.crashes <= MaxCrashes

(* A file that is to be removed has enough younger ones, and pruning that  *)
(* removes all such files leaves no more than it should.                   *)
PruneInv ==
    /\ pc # "remove" => doomed = {}
    /\ \A t \in doomed : Cardinality(Later(t)) >= MaxSnapshots
    /\ pc \in {"latest", "prune", "remove"}
          => Cardinality(DOMAIN stamped) <= MaxSnapshots + Faults + Crashes + 1
    /\ pc = "remove"
          => Cardinality(DOMAIN stamped) <= MaxSnapshots + Cardinality(doomed) + Faults

(* What each of the two kinds of files may have lost: the latest file only *)
(* by crashes and faults or by what it was healed with, and a              *)
(* timestamped one, if it is one of those to keep, is followed by the      *)
(* snapshots written since, except those replaced.  Damage is a fault      *)
(* each, and pruning leaves enough.                                        *)
Age(snapshot) == saves - snapshot.serial

LossInv ==
    /\ ~up => pc = "idle"
    /\ pc = "latest" => snap.serial = saves
    /\ left.faults <= MaxFaults
    /\ latest # Corrupt /\ Faults <= MaxSnapshots =>
          Age(IF latest = Missing THEN Blank ELSE latest)
             <= Crashes + Faults + overwrites + (IF pc = "latest" THEN 1 ELSE 0)
    /\ \A t \in Valid : \/ Cardinality(Later(t)) >= MaxSnapshots
                         \/ Age(stamped[t]) <= Cardinality(Later(t)) + overwrites
    /\ Cardinality(DOMAIN stamped \ Valid) + (IF latest = Corrupt THEN 1 ELSE 0) <= Faults
    /\ \/ Cardinality(DOMAIN stamped) >= MaxSnapshots
       \/ saves <= Cardinality(DOMAIN stamped) + overwrites

IInv == /\ TypeOK /\ TimesInv /\ OrderInv /\ NewestSurvivesPruning /\ PruneInv
        /\ LossInv

Sum(c) == FoldFunction(+, 0, c)

(* What types.go:70 says of a snapshot, that it captures the full          *)
(* discovery state at a point in time: its fields agree with each other.   *)
SnapshotIsOneState == \A t \in Valid :
    /\ stamped[t].unique = Cardinality(Discovered(stamped[t].counts))
    /\ Sum(stamped[t].counts) <= stamped[t].total

(* What baseline.go:145 says of LoadLatestSnapshot, that it restores the   *)
(* most recent snapshot.                                                   *)
RestoresMostRecent == ~up /\ Faults = 0 => Source.serial = saves
=============================================================================
