----------------------------- MODULE MCResponder -----------------------------
(* A small instance of Responder: a pod anybody may quarantine and one in  *)
(* a protected namespace.                                                  *)
EXTENDS Responder, TLC

CONSTANTS web, dns

TwoPods == {web, dns}
Homes   == [p \in TwoPods |-> IF p = dns THEN "kube-system" ELSE "shop"]

Symmetry == Permutations(Callers) \cup Permutations(Instances)
=============================================================================
