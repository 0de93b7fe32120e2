----------------------------- MODULE MCOrcaBridge -----------------------------
(* Instances of OrcaBridge: every way two tasks of one stage can depend on each other. *)
EXTENDS OrcaBridge

CONSTANTS t1, t2, s1

OneStage  == [t \in Tasks |-> s1]
AllGraphs == [Tasks -> SUBSET Tasks]
==============================================================================
