----------------------------- MODULE RiskEngine -----------------------------
(***************************************************************************)
(* The risk score of an event, src/pkg/risk/engine.go: the weighted sum of *)
(* how severe the event is by itself, how usual its lineage is, and how    *)
(* much its namespace matters.                                             *)
(*                                                                         *)
(* A weight is a number of the Point units that make one, so a score comes *)
(* out in the units Decision compares.  An event carries the patterns its  *)
(* binary, arguments and type match; which of them counts is modelled.     *)
(***************************************************************************)
EXTENDS Decision, Whitelist

CONSTANT Policy \* [weights, severity, context, tiers, defaultAsset], the YAML file

(* The engine does not start with weights that do not add up to one, give  *)
(* or take a thousandth.                                                   *)
ValidWeights(w) == LET excess == w.severity + w.context + w.asset - Point
                   IN  -Point <= 1000 * excess /\ 1000 * excess <= Point

ASSUME PolicyAssumption ==
    /\ Policy.weights \in [severity : Int, context : Int, asset : Int]
    /\ ValidWeights(Policy.weights)
    /\ \A key \in DOMAIN Policy.severity : Policy.severity[key] \in Int
    /\ \A class \in DOMAIN Policy.context : Policy.context[class] \in Int
    /\ \A i \in DOMAIN Policy.tiers : Policy.tiers[i].score \in Int
    /\ Len(Policy.tiers) \in Nat /\ DOMAIN Policy.tiers = 1..Len(Policy.tiers)
    /\ Policy.defaultAsset \in Int

(* The patterns in the order in which they are tried.                      *)
Checks == <<"reverse_shell", "chmod_suid", "curl_download", "bash_spawn", "nmap_scan",
            "file_write_etc">>

(* The first pattern that matches and that the policy scores, or the       *)
(* policy's default; a score the policy does not give is 0.                *)
Given(scores, key) == IF key \in DOMAIN scores THEN scores[key] ELSE 0

Severity(e) ==
    LET hits == {i \in DOMAIN Checks : Checks[i] \in e.matches \cap DOMAIN Policy.severity}
    IN  IF hits = {} THEN Given(Policy.severity, "default") ELSE Policy.severity[Checks[Min(hits)]]

(* A namespace listed in several tiers has the score of the last of them.  *)
Listing(namespace) == {i \in DOMAIN Policy.tiers : namespace \in Policy.tiers[i].namespaces}
TierScore(namespace) == Policy.tiers[Max(Listing(namespace))].score

Asset(namespace) == IF Listing(namespace) = {} THEN Policy.defaultAsset ELSE TierScore(namespace)

Calculate(e, class) == Policy.weights.severity * Severity(e)
                       + Policy.weights.context * Given(Policy.context, class)
                       + Policy.weights.asset * Asset(e.namespace)
=============================================================================
