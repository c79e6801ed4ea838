-------------------------------- MODULE Tracker --------------------------------
(***************************************************************************)
(* What the behaviour tracker keeps of the events it is shown,             *)
(* src/pkg/discovery/tracker.go: how many there were, and for every        *)
(* lineage in every workload how often and between which times it was      *)
(* seen.  An event carries its own time, and events of one lineage need    *)
(* not come in the order of their times.                                   *)
(*                                                                         *)
(* Binaries are named by filepath.Base, for which "." stands for no path.  *)
(* Confidence is in percent.  Frequencies, z-scores and the names of nodes *)
(* are left out: no decision depends on them.                              *)
(***************************************************************************)
EXTENDS Integers, FiniteSetsExt

CONSTANTS Hour,  \* in units of an event's time
          Levels \* [always, mostly, often, some]: the counts of computeConfidence

NewTracker == [total |-> 0, patterns |-> [key \in {} |-> 0]]

HasLineage(e) == e.type = "execve" /\ {e.parent, e.child} \cap {".", "/"} = {}

Key(e) == [namespace |-> e.namespace, workload |-> e.workload,
           parent |-> e.parent, child |-> e.child]

(* A name with an underscore is a plausible slip in the definition that    *)
(* follows it; the properties are tried on it.                             *)
Seen_InOrderOnly(p, time) == [p EXCEPT !.count = @ + 1, !.last = time]

Seen(p, time) == [count |-> p.count + 1,
                  first |-> Min({p.first, time}),
                  last  |-> Max({p.last, time})]

First(time) == [count |-> 1, first |-> time, last |-> time]

Track(t, e) ==
    [total    |-> t.total + 1,
     patterns |-> IF ~HasLineage(e) THEN t.patterns
                  ELSE [key \in DOMAIN t.patterns \cup {Key(e)} |->
                           IF key # Key(e) THEN t.patterns[key]
                           ELSE IF key \in DOMAIN t.patterns
                           THEN Seen(t.patterns[key], e.time)
                           ELSE First(e.time)]]

IsRecurring(p) == p.last - p.first > Hour

Confidence(p) == CASE IsRecurring(p) /\ p.count >= Levels.always  -> 99
                   [] IsRecurring(p) /\ p.count \in Levels.mostly..(Levels.always - 1) -> 95
                   [] IsRecurring(p) /\ p.count \in Levels.often..(Levels.mostly - 1)  -> 85
                   [] ~IsRecurring(p) /\ p.count >= Levels.often  -> 70
                   [] p.count \in Levels.some..(Levels.often - 1) -> 50
                   [] OTHER -> 30

(* GetProfiles: what was seen in one workload. *)
Workloads(t) == {[namespace |-> k.namespace, workload |-> k.workload] : k \in DOMAIN t.patterns}

Profile(t, w) ==
    LET keys == {k \in DOMAIN t.patterns : k.namespace = w.namespace /\ k.workload = w.workload}
    IN  [patterns        |-> keys,
         totalEvents     |-> MapThenSumSet(LAMBDA k : t.patterns[k].count, keys),
         uniqueProcesses |-> Cardinality(UNION {{k.parent, k.child} : k \in keys})]
=============================================================================
