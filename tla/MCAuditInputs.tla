---------------------------- MODULE MCAuditInputs ----------------------------
(* Packages of npm and Go, one of them with more pages than OSV is asked for, *)
(* and sources that hold records of three families, with a CVE (4) that one   *)
(* advisory of GitHub names and one (5) that two do.                          *)
EXTENDS AuditInputs

MCPages == [p \in {"a", "b", "c"} |->
               CASE p = "a" -> <<{1}, {2}>> [] p = "b" -> <<{1}>> [] p = "c" -> <<{}, {3}, {}>>]
MCEcosystem == [p \in {"a", "b", "c"} |-> IF p = "c" THEN "govulncheck" ELSE "npm-audit"]
MCNames == [i \in 1..6 |-> CASE i = 1 -> {2, 4} [] i = 2 -> {4, 5} [] i = 4 -> {2} [] i = 6 -> {5}
                             [] OTHER -> {}]

MCSearches == {[kind |-> "package", id |-> 0, package |-> p] : p \in {"a", "c"}}
              \cup {[kind |-> "advisory", id |-> i, package |-> ""] : i \in {1, 2, 4, 5}}
              \cup {[kind |-> "kev", id |-> i, package |-> ""] : i \in {4, 5}}
=============================================================================
