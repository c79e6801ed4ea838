--------------------------- MODULE MCBaselineStore ---------------------------
(* A small instance of BaselineStore: one lineage, a threshold of two      *)
(* ticks, two snapshots kept and two of each kind of misfortune.           *)
EXTENDS BaselineStore
=============================================================================
