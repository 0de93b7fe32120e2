-------------------------- MODULE MCSpecExecution --------------------------
(* The task lists TLC tries: every graph on three tasks, and four lists    *)
(* worth carrying out together with all that differ from one of them in    *)
(* one field of one block.                                                 *)
EXTENDS SpecExecution

MCPaths == {<<"a">>, <<"a", "x">>, <<"b">>, <<"b", "*">>, <<"c">>}

Serial(d, s) == [deps |-> d, stage |-> s, optional |-> FALSE, parallel |-> FALSE,
                 files |-> {<<"c">>}, contract |-> TRUE]
Parallel(d, s, p) == [Serial(d, s) EXCEPT !.parallel = TRUE, !.files = {p}]
Optional(b) == [b EXCEPT !.optional = TRUE]

Graphs == {[t \in Task |-> Serial(g[t], 1)] : g \in [Task -> SUBSET Task]}

Independent == <<Parallel({}, 1, <<"a">>), Parallel({}, 1, <<"b">>), Optional(Serial({}, 1))>>
Fork == <<Serial({}, 1), Parallel({1}, 2, <<"a", "x">>), Parallel({1}, 2, <<"b">>)>>
Chain == <<Serial({}, 1), Serial({1}, 2), Optional(Serial({1, 2}, 3))>>
Join == <<Parallel({}, 1, <<"a">>), Parallel({}, 1, <<"c">>), Serial({1, 2}, 2)>>

OneOff(p) ==
    UNION {
        {[p EXCEPT ![t].stage = s] : s \in 0..N}
        \union {[p EXCEPT ![t].deps = d] : d \in SUBSET (0..N)}
        \union {[p EXCEPT ![t].files = {f}] : f \in MCPaths}
        \union {[p EXCEPT ![t].optional = ~@], [p EXCEPT ![t].parallel = ~@],
                [p EXCEPT ![t].contract = FALSE]} : t \in Task}

MCPlans == Graphs \union UNION {OneOff(p) : p \in {Independent, Fork, Chain, Join}}

MCWatchedPlans == {Fork, Chain}
=============================================================================
