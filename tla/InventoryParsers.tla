-------------------------- MODULE InventoryParsers --------------------------
(***************************************************************************)
(* The parsers of dependency_audit/inventory.py as operators: each takes   *)
(* the document a package manager printed, abstracted to the packages,     *)
(* references and edges in it, and returns the packages with their scope,  *)
(* the edges, and whether nothing had to be skipped.                       *)
(***************************************************************************)
EXTENDS Naturals, Sequences, FiniteSets, SequencesExt

(* DependencyScope with _SCOPE_PRECEDENCE: 0 unknown, 1 development,        *)
(* 2 runtime.                                                               *)
Unknown == 0
Development == 1
Runtime == 2
Scopes == {Unknown, Development, Runtime}

Row(pkg, scope) == [pkg |-> pkg, scope |-> scope]
PackagesOf(rows) == {r.pkg : r \in rows}

(* _merge_package: a repeated package keeps its strongest scope. *)
Merged(rows) ==
    {CHOOSE r \in rows : r.pkg = p /\ \A q \in rows : q.pkg = p => q.scope <= r.scope
        : p \in PackagesOf(rows)}

(* _build_result: complete if nothing was skipped and the graph is closed.  *)
Build(rows, edges, flawed) ==
    [rows |-> Merged(rows), edges |-> edges,
     complete |-> ~flawed /\ \A e \in edges : {e[1], e[2]} \subseteq PackagesOf(rows)]

Invalid == Build({}, {}, TRUE)

-----------------------------------------------------------------------------
(* npm ls: a tree of nodes, every node with its parent (0 the root), its    *)
(* package, its scope and whether its version is exact.  The nodes are      *)
(* numbered in the order of the document: what is beneath a node follows it. *)

Beneath(tree, n) ==
    {k \in DOMAIN tree : k > n /\ \A i \in DOMAIN tree : n < i /\ i <= k => tree[i].parent >= n}

InDocumentOrder(tree) ==
    \A n \in DOMAIN tree : tree[n].parent = 0 \/ n \in Beneath(tree, tree[n].parent)

Above(tree, n) == IF tree[n].parent = 0 THEN <<>> ELSE <<tree[tree[n].parent].pkg>>

SameKey(tree, m, n) == tree[m].pkg = tree[n].pkg /\ Above(tree, m) = Above(tree, n)

(* Whether visit goes on to the children of a node it has come to: not if   *)
(* the version is not exact, nor if it has met the same package under the   *)
(* same parent package before.                                              *)
Descends(tree, met, n) ==
    /\ n \in met /\ tree[n].exact
    /\ \A m \in met : m < n /\ tree[m].exact => ~SameKey(tree, m, n)

(* The nodes visit comes to: those of the root, and the children of those   *)
(* that it descends into.  Since that depends on earlier nodes alone, there *)
(* is one such set.                                                         *)
Walks(tree) ==
    {met \in SUBSET DOMAIN tree :
        met = {n \in DOMAIN tree :
                 tree[n].parent = 0 \/ Descends(tree, met, tree[n].parent)}}

ParseNpm(tree, met) ==
    LET exact == {n \in met : tree[n].exact}
    IN  Build({Row(tree[n].pkg, tree[n].scope) : n \in exact},
              {<<tree[tree[n].parent].pkg, tree[n].pkg>> :
                  n \in {k \in exact : tree[k].parent # 0}},
              exact # met)

(* What is beneath a node that repeats an earlier one may be passed over,   *)
(* and nothing is said of it.                                               *)
Hidden(tree) ==
    UNION {Beneath(tree, n) : n \in {k \in DOMAIN tree :
                                       \E m \in DOMAIN tree : m < k /\ SameKey(tree, m, k)}}

NpmHolds(tree) == {Row(tree[n].pkg, tree[n].scope) : n \in DOMAIN tree \ Hidden(tree)}
NpmHides(tree) == {Row(tree[n].pkg, tree[n].scope) : n \in Hidden(tree)}

-----------------------------------------------------------------------------
(* pip inspect: the installed packages; a declared requirement is not a     *)
(* resolved edge, so it leaves the result incomplete.                       *)

ParsePip(installed) ==
    Build({Row(i.pkg, Unknown) : i \in {j \in installed : j.exact}}, {},
          \E i \in installed : ~i.exact \/ i.requires)

PipHolds(installed) == {Row(i.pkg, Unknown) : i \in installed}

-----------------------------------------------------------------------------
(* cargo metadata: package ids with the package each stands for and whether *)
(* its version is exact, the root's id, the ids that have a node, the edges *)
(* between ids, and the scope of the edges from the root.                   *)

(* _cargo_direct_scopes: of several kinds of one dependency the strongest.  *)
DirectScope(doc, i) ==
    LET kinds == {d.scope : d \in {e \in doc.direct : e.id = i}}
    IN  IF kinds = {} THEN Unknown ELSE CHOOSE k \in kinds : \A j \in kinds : j <= k

ParseCargo(doc) ==
    LET others == DOMAIN doc.pkg \ {doc.root}
        kept == {i \in others : doc.exact[i]}
        nodes == doc.nodes \cap DOMAIN doc.pkg
        edges == {e \in doc.edges : e[1] \in nodes}
    IN  Build({Row(doc.pkg[i], DirectScope(doc, i)) : i \in kept},
              {<<doc.pkg[e[1]], doc.pkg[e[2]]>> :
                 e \in {f \in edges : {f[1], f[2]} \subseteq kept}},
              \/ doc.root \notin nodes
              \/ kept # others
              \/ \E i, j \in kept : i # j /\ doc.pkg[i] = doc.pkg[j]
              \/ ~(doc.nodes \subseteq DOMAIN doc.pkg)
              \/ \E e \in edges : e[2] \notin DOMAIN doc.pkg
              \/ \E d \in doc.direct : d.id \notin DOMAIN doc.pkg)

CargoHolds(doc) == {Row(doc.pkg[i], DirectScope(doc, i)) : i \in DOMAIN doc.pkg \ {doc.root}}

-----------------------------------------------------------------------------
(* go list and go mod graph: a module by its reference, with the package it *)
(* resolves to, and pairs of references; 0 is the main module, which        *)
(* resolves to none.                                                        *)

ParseGo(doc) ==
    LET kept == {m \in doc.modules : m.exact}
        known == {m.ref : m \in kept} \cup {0}
        good == {e \in doc.graph : {e[1], e[2]} \subseteq known}
        purl(r) == (CHOOSE m \in kept : m.ref = r).pkg
    IN  Build({Row(m.pkg, Unknown) : m \in kept},
              {<<purl(e[1]), purl(e[2])>> : e \in {f \in good : 0 \notin {f[1], f[2]}}},
              \/ kept # doc.modules \/ good # doc.graph \/ ~doc.hasGraph
              \/ Cardinality({m.ref : m \in kept}) # Cardinality(kept)
              \/ doc.hasGraph /\ \E r \in known \ {0} : \A e \in good : r \notin {e[1], e[2]})

GoHolds(doc) == {Row(m.pkg, Unknown) : m \in doc.modules}

-----------------------------------------------------------------------------
(* CycloneDX: components with a reference (0 where there is none), the      *)
(* reference of the described project, if any, and the dependency entries.  *)

ParseSbom(doc) ==
    LET kept == {c \in doc.components : c.exact /\ c.ref # 0}
        refs == {c.ref : c \in kept}
        sources == refs \cup doc.root
        entries == {d \in doc.entries : d.ref \in sources}
        purls(r) == {c.pkg : c \in {k \in kept : k.ref = r}}
    IN  Build({Row(c.pkg, c.scope) : c \in kept},
              UNION {purls(p[1].ref) \X purls(p[2]) : p \in
                        {q \in entries \X refs : q[1].ref \notin doc.root /\ q[2] \in q[1].on}},
              \/ kept # doc.components
              \/ Cardinality(refs) # Cardinality(kept)
              \/ doc.root \cap refs # {}
              \/ entries # doc.entries
              \/ Cardinality({d.ref : d \in entries}) # Cardinality(entries)
              \/ \E d \in entries : ~(d.on \subseteq refs)
              \/ {d.ref : d \in entries} # sources)

SbomHolds(doc) == {Row(c.pkg, c.scope) : c \in doc.components}
=============================================================================
