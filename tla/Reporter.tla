------------------------------- MODULE Reporter -------------------------------
(***************************************************************************)
(* The report and the whitelist made of what the tracker has learnt,       *)
(* src/pkg/discovery/reporter.go.  A lineage is trusted if some workload   *)
(* showed it with enough confidence; every parent that was seen gets an    *)
(* entry, even one none of whose children is trusted.                      *)
(*                                                                         *)
(* The times of the learning window, the verdicts on outliers and the      *)
(* order of the entries are left out: a reader of the whitelist finds each *)
(* parent once.                                                            *)
(***************************************************************************)
EXTENDS Tracker, SequencesExt

(* Below 85 percent a lineage is quarantined, below 70 flagged for review, *)
(* so trust never meets the flag.  A name with an underscore is a          *)
(* plausible slip in the definition that follows it.                       *)
Trusted_NotRecurring(p) == p.count >= Levels.often
Trusted(p) == Confidence(p) >= 85

Group(t, parent) == {k \in DOMAIN t.patterns : k.parent = parent}

(* A child trusted in one workload is trusted, though another knows it     *)
(* less.                                                                   *)
Entry(t, parent) ==
    LET group   == Group(t, parent)
        trusted == {k \in group : Trusted(t.patterns[k])}
        least   == IF trusted = {} THEN 0
                   ELSE Min({Confidence(t.patterns[k]) : k \in trusted})
        allowed == {k.child : k \in trusted}
    IN  [parent      |-> parent,
         children    |-> allowed,
         quarantined |-> {k.child : k \in group} \ allowed,
         confidence  |-> least,
         observed    |-> MapThenSumSet(LAMBDA k : t.patterns[k].count, group),
         review      |-> trusted # group \/ least < 70]

GenerateWhitelist(t) == SetToSeq({Entry(t, k.parent) : k \in DOMAIN t.patterns})

GenerateReport(t) == [totalEvents    |-> t.total,
                      uniqueLineages |-> Cardinality(DOMAIN t.patterns),
                      profiles       |-> [w \in Workloads(t) |-> Profile(t, w)]]
=============================================================================
