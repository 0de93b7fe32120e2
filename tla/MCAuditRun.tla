----------------------------- MODULE MCAuditRun -----------------------------
(* A small instance of AuditRun: an installed package of runtime scope and  *)
(* one of development scope; identifier 1 is OSV's own, 2 a CVE.            *)
EXTENDS AuditRun

CONSTANTS app, dev

MCRecord(id, ids, p, fixes, severity, withdrawn) ==
    [id |-> id, ids |-> ids, affects |-> {p}, fixes |-> fixes,
     severity |-> severity, withdrawn |-> withdrawn, ranged |-> FALSE]

(* One record that OSV also knows as the CVE, one for the development       *)
(* package that is joined to it, and the CVE's own record, withdrawn.       *)
MCOsv == {MCRecord(1, {1, 2}, app, {}, "low", FALSE),
          MCRecord(3, {2, 3}, dev, {dev}, "high", FALSE),
          MCRecord(2, {2}, app, {app}, "high", TRUE)}
(* A native auditor fixes what OSV does not. *)
MCNative == {MCRecord(2, {2}, app, {app}, "high", FALSE)}

MCInventories == {{}, {app}, {app, dev}}

MCAccepted(mitigation, approval) ==
    [i \in Ids |-> [mitigation |-> mitigation, approval |-> approval]]

MCConfig(mode, baseline, policy, accepted, callbacks) ==
    [valid |-> TRUE, mode |-> mode, baseline |-> baseline, reachability |-> mode = "main",
     policy |-> policy, accepted |-> accepted, remediation |-> callbacks,
     callbacks |-> callbacks]

Strict == [DefaultPolicy EXCEPT !.noFix = TRUE, !.severities = {"low"}]

MCConfigs ==
    {MCConfig("change", {{app}}, DefaultPolicy, MCAccepted(FALSE, FALSE), FALSE),
     MCConfig("main", {}, Strict, MCAccepted(FALSE, FALSE), FALSE),
     MCConfig("release", {}, DefaultPolicy, MCAccepted(FALSE, TRUE), TRUE),
     [MCConfig("main", {}, DefaultPolicy, MCAccepted(FALSE, FALSE), FALSE)
        EXCEPT !.valid = FALSE]}
=============================================================================
