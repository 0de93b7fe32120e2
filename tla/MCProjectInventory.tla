------------------------- MODULE MCProjectInventory -------------------------
(* Projects of one or two package managers, documents of every shape of up   *)
(* to two or three rows.                                                     *)
EXTENDS ProjectInventory

MCVolumes == {[s \in {"stdout", "stderr"} |-> IF s = "stdout" THEN 2 ELSE 0],
              [s \in {"stdout", "stderr"} |-> IF s = "stdout" THEN 1 ELSE 2]}
MCProjects == {{"npm", "python", "venv"}, {"go"}, {"cargo", "sbom"}, {"python", "sbom"}, {}}

(* Trees of up to three nodes, enough for one that repeats another and      *)
(* hides a third: two aliases of a package, of which the second has a child. *)
MCNodes(n) ==
    [parent : 0..n - 1, pkg : {"a"}, scope : {1, 2}, exact : {TRUE}]
    \cup [parent : 0..n - 1, pkg : {"b"}, scope : {2}, exact : {TRUE}]
    \cup [parent : {0, 1}, pkg : {"b"}, scope : {2}, exact : {FALSE}]
MCNpmDocs ==
    UNION {{t \in [1..n -> MCNodes(n)] : InDocumentOrder(t)} : n \in 0..3}
UpToTwo(S) == {{}} \cup {{x, y} : x, y \in S}
MCPipDocs == SUBSET [pkg : {"c"}, exact : BOOLEAN, requires : BOOLEAN]
MCCargoDocs ==
    [pkg : {[i \in 0..2 |-> <<"a", "b", "c">>[i + 1]], [i \in 0..2 |-> <<"a", "c", "c">>[i + 1]]},
     exact : {[i \in 0..2 |-> i # k] : k \in {1, 3}},
     root : {0}, nodes : {{0, 1, 2}, {1, 2}, {0, 1}, {0, 1, 9}},
     edges : {{}, {<<0, 1>>, <<1, 2>>}, {<<0, 1>>, <<1, 9>>}},
     direct : {{}, {[id |-> 9, scope |-> 1]}} \cup UpToTwo([id : {1}, scope : {1, 2}])]
MCGoDocs ==
    {d \in [modules : UpToTwo([ref : {1, 2}, pkg : {"c", "b"}, exact : {TRUE}]
                              \cup [ref : {1}, pkg : {"c"}, exact : {FALSE}]),
            graph : SUBSET {<<0, 1>>, <<1, 2>>, <<0, 9>>}, hasGraph : BOOLEAN] :
       ~d.hasGraph => d.graph = {}}
Component(r, p, e, s) == [ref |-> r, pkg |-> p, exact |-> e, scope |-> s]
Entry(r, on) == [ref |-> r, on |-> on]
MCSbomDocs ==
    [components : UpToTwo({Component(1, "a", TRUE, 2), Component(1, "c", TRUE, 0),
                           Component(2, "a", TRUE, 0), Component(0, "c", TRUE, 2),
                           Component(2, "c", FALSE, 0)}),
     root : {{}, {7}},
     entries : UpToTwo({Entry(7, {1}), Entry(1, {}), Entry(1, {9}), Entry(2, {1})})
               \cup {{Entry(7, {1}), Entry(1, {}), Entry(2, {1})}}]
=============================================================================
