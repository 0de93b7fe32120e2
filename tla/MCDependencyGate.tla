-------------------------- MODULE MCDependencyGate --------------------------
(* A package and a member below it, and the projects these can form.       *)
EXTENDS DependencyGate

MCDirs == {<<>>, <<"web">>, <<"web", "ui">>}
MCFamilies == {{"package.json", "yarn.lock"}}
MCRegistry == [m \in {"package.json"} |-> {"yarn.lock"}]

At(d, n) == [dir |-> d, name |-> n]
Package == {At(<<>>, "package.json"), At(<<>>, "yarn.lock")}
Member == {At(<<"web">>, "package.json"), At(<<"web", "ui">>, "package.json")}

MCProjects ==
    {[files |-> f, members |-> m] :
        f \in {Package} \cup {Package \cup Member \cup L :
                  L \in SUBSET {At(<<"web">>, "yarn.lock"), At(<<"web", "ui">>, "yarn.lock")}},
        m \in SUBSET {<<(<<>>), <<"web">>>>, <<(<<>>), <<"web", "ui">>>>,
                      <<(<<"web">>), <<"web", "ui">>>>}}

MCKept == {Pre}

Symmetry == Permutations(Locks)

MCWorked == {[files |-> Package, members |-> {}]}
=============================================================================
