---------------------------- MODULE MCReportStore ----------------------------
(* Two audits in one second, one of a change, and two writers. *)
EXTENDS ReportStore, TLC

CONSTANTS main1, main2, change, t1, t2

MCSlug == (main1 :> t1) @@ (main2 :> t1) @@ (change :> t2)

Symmetry == Permutations(Writers) \cup Permutations({main1, main2})
==============================================================================
