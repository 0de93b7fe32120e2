------------------------------ MODULE AuditRun ------------------------------
(***************************************************************************)
(* One dependency audit: run_audit of dependency_audit/runner.py with the  *)
(* rules of policy.py and the correlation of sources.py.  The audit asks   *)
(* its services one after the other (inventory, OSV, native auditors, KEV, *)
(* the reachability file, and the secondary sources for every finding);    *)
(* each may fail, answer in part, answer from old evidence, or take so     *)
(* long that the clock has moved on.  From what they said it makes the     *)
(* findings, decides each and then the gate, and writes the report         *)
(* (ReportStore).                                                          *)
(*                                                                         *)
(* An advisory identifier is a natural number, smaller where the code      *)
(* prefers it as the canonical one.  A record is what one source says of   *)
(* one advisory: its id and aliases, the packages it affects, those of     *)
(* them it names a fix for, its severity and whether it is withdrawn.      *)
(***************************************************************************)
EXTENDS Naturals, FiniteSets

CONSTANTS
    Packages,       \* the packages of the project
    Inventories,    \* the sets of them that a collector may resolve
    Development,    \* those of development scope
    Ids,            \* stable advisory identifiers
    Cves,           \* those of them that the KEV catalog may hold
    OsvRecords,     \* the records OSV may answer with
    NativeRecords,  \* the records a native auditor may answer with
    Secondaries,    \* the enrichment services that are configured
    Configs,        \* the audits that may be started
    MaxGaps         \* bound: the answers of one audit that are not whole and of the present

Severities == {"low", "high"}
States == {"ok", "partial", "unavailable", "not_applicable"}
Gap == {"partial", "unavailable"}

(* What a source says and when: "old" evidence is older than the window of  *)
(* source_max_age_seconds or has no valid time, "late" evidence was         *)
(* gathered more than 300 seconds after the audit started.                  *)
Stamps == {"old", "recent", "late"}
Sources == {"inventory", "completeness", "osv", "native", "consistency", "kev",
            "reachability", "remediation", "configuration", "clock", "reporting"}
           \cup Secondaries
Statuses == [source : Sources, said : States, stamp : Stamps, state : States]

Record == [id : Ids, ids : SUBSET Ids, affects : SUBSET Packages, fixes : SUBSET Packages,
           severity : Severities, withdrawn : BOOLEAN, ranged : BOOLEAN]
Policy == [warnings : BOOLEAN, noFix : BOOLEAN, development : BOOLEAN,
           unreachable : BOOLEAN, severities : SUBSET Severities]
(* A baseline, where there is one, is the set of packages of its fingerprint. *)
DefaultPolicy == [warnings |-> FALSE, noFix |-> FALSE, development |-> FALSE,
                  unreachable |-> FALSE, severities |-> {}]
Acceptance == [mitigation : BOOLEAN, approval : BOOLEAN]
Config == [valid : BOOLEAN, mode : {"change", "main", "release"},
           baseline : SUBSET SUBSET Packages, reachability : BOOLEAN,
           policy : Policy, accepted : [Ids -> Acceptance], remediation : BOOLEAN,
           callbacks : BOOLEAN]

ASSUME AuditRunAssumption ==
    /\ Development \subseteq Packages /\ Inventories \subseteq SUBSET Packages
    /\ Ids \subseteq Nat /\ Cves \subseteq Ids
    /\ MaxGaps \in Nat
    /\ OsvRecords \cup NativeRecords \subseteq Record
    /\ OsvRecords \cap NativeRecords = {}
    /\ \A r \in OsvRecords \cup NativeRecords : r.id \in r.ids /\ r.fixes \subseteq r.affects
    /\ Configs \subseteq Config
    /\ Secondaries \cap {"inventory", "completeness", "osv", "native", "consistency", "kev",
                       "reachability", "remediation"} = {}

VARIABLES
    config,      \* AuditConfig
    pc,          \* the service that is asked next
    late,        \* whether more than 300 seconds have passed since the start
    inventory,   \* the packages and whether their graph is complete
    inventoryStatuses,
    sources,     \* result.sources
    advisories,  \* primary_advisories: what OSV and the native auditors answered
    kevIds,
    unreachable, \* the packages with concrete evidence of unreachability
    pending,     \* the enrichments still to be asked for
    findings,    \* result.findings by package and canonical id
    decisions,   \* result.decisions, by the same keys
    gate,        \* result.gate_status; exit_code follows from it
    report       \* whether the report is on disk

vars == <<config, pc, late, inventory, inventoryStatuses, sources, advisories, kevIds,
          unreachable, pending, findings, decisions, gate, report>>

-----------------------------------------------------------------------------
(* Source states *)

(* _fresh_status: evidence out of the window counts as partial at most.     *)
Fresh(state, stamp) ==
    IF state = "not_applicable" \/ stamp = "recent" THEN state
    ELSE IF state = "unavailable" THEN "unavailable" ELSE "partial"

Status(source, state, stamp) ==
    [source |-> source, said |-> state, stamp |-> stamp, state |-> Fresh(state, stamp)]

Sound(s) == s.said = "ok" /\ s.stamp = "recent"

(* What a service may answer now, within the bound on gaps; an answer of    *)
(* which nothing could be used carries no old time stamp.                   *)
Answers(source, isLate) ==
    LET gaps == {s \in inventoryStatuses \cup sources :
                    ~Sound(s) /\ s.said # "not_applicable"}
    IN  {s \in {Status(source, said, stamp) :
                    said \in States, stamp \in {"old", IF isLate THEN "late" ELSE "recent"}} :
            /\ s.stamp = "old" => s.said = "ok"
            /\ Cardinality(gaps) < MaxGaps \/ Sound(s) \/ s.said = "not_applicable"}

(* _native_consistency_statuses: contradictory states of one auditor, or    *)
(* records from an auditor that did not claim to have run.                  *)
Contradicts(records, states) ==
    \/ Cardinality(states) > 1
    \/ records # {} /\ (states = {} \/ ~(states \subseteq {"ok", "partial"}))

-----------------------------------------------------------------------------
(* Correlation and findings *)

Linked(r, s) == r.ids \cap s.ids # {}

(* The connected component of r under shared identifiers. *)
Component(S, r) ==
    {s \in S : \A T \in SUBSET S :
        (r \in T /\ \A x \in T, y \in S : Linked(x, y) => y \in T) => s \in T}

(* correlate_advisories: the groups of correlated records. *)
Correlated ==
    [S \in SUBSET (OsvRecords \cup NativeRecords) |-> {Component(S, r) : r \in S}]
Correlate(S) == Correlated[S]

Least(S) == CHOOSE i \in S : \A j \in S : i <= j
IdsOf(group) == UNION {r.ids : r \in group}
Primary(group) == group \cap OsvRecords
Evidence(group) == IF Primary(group) = {} THEN group ELSE Primary(group)

(* The canonical id is one of OSV's where OSV has a record. *)
Canonical(group) ==
    IF Primary(group) = {} THEN Least(IdsOf(group)) ELSE Least({r.id : r \in Primary(group)})

(* A slip: a group is judged by its OSV records alone. *)
AppliesOsv(group, p, count) == \E r \in Primary(group) : p \in r.affects

(* _advisory_applies: a record that names no package applies to the only one. *)
Applies(group, p, count) ==
    LET affected == UNION {r.affects : r \in Evidence(group)}
    IN  IF affected = {} THEN count = 1 ELSE p \in affected

(* _preserve_native_package_evidence: native fixes count where OSV has none. *)
Fixed(group, p) == \E r \in group : p \in r.fixes
Ranged(group, p) == \E r \in group : r.ranged /\ p \in r.affects

MaxSeverity(S) == IF "high" \in S THEN "high" ELSE "low"

(* A finding as the primary evidence gives it. *)
Finding(group, p) ==
    [package     |-> p,
     id          |-> Canonical(group),
     ids         |-> IdsOf(group),
     withdrawn   |-> \E r \in group : r.withdrawn,
     fixed       |-> Fixed(group, p),
     ranged      |-> Ranged(group, p),
     severity    |-> MaxSeverity({r.severity : r \in group}),
     kev         |-> IdsOf(group) \cap kevIds # {},
     unreachable |-> p \in unreachable]

Keys == Packages \X Ids

(* The groups that apply to a package of the inventory, by finding. *)
GroupsFor(p) ==
    {g \in Correlate(advisories) : Applies(g, p, Cardinality(inventory.packages))}
GroupOf(k) == CHOOSE g \in GroupsFor(k[1]) : Canonical(g) = k[2]
FoundKeys == UNION {{<<p, Canonical(g)>> : g \in GroupsFor(p)} : p \in inventory.packages}
PrimaryFindings == [k \in FoundKeys |-> Finding(GroupOf(k), k[1])]

(* A slip: the secondary source's severity replaces the primary one. *)
MergeReplaces(severity, other) == other

(* _merge_secondary_enrichment: severity may only rise. *)
Merge(severity, other) == MaxSeverity({severity, other})

-----------------------------------------------------------------------------
(* policy.py *)

(* Policy.promotes *)
Promotes(policy, reason, severity) ==
    \/ policy.warnings
    \/ reason = "no_authoritative_fix" /\ policy.noFix
    \/ reason = "development_only" /\ policy.development
    \/ reason = "proven_unreachable" /\ policy.unreachable
    \/ severity \in policy.severities

(* _warning_or_stricter *)
Warn(policy, reason, severity) ==
    [decision |-> IF Promotes(policy, reason, severity) THEN "block" ELSE "warn",
     reason   |-> reason]

(* A slip: no fix is looked at before known exploitation. *)
ClassifyFixFirst(f, policy) ==
    IF ~f.withdrawn /\ ~f.fixed THEN Warn(policy, "no_authoritative_fix", f.severity)
    ELSE IF f.withdrawn THEN [decision |-> "excluded", reason |-> "advisory_withdrawn"]
    ELSE IF f.kev \/ (f.severity = "high" /\ f.package \notin Development /\ ~f.unreachable)
    THEN [decision |-> "block", reason |-> "kev_present"]
    ELSE Warn(policy, "non_blocking_severity", f.severity)

(* classify_finding: the first rule that applies decides. *)
Classify(f, policy) ==
    IF f.withdrawn THEN [decision |-> "excluded", reason |-> "advisory_withdrawn"]
    ELSE IF f.kev THEN [decision |-> "block", reason |-> "kev_present"]
    ELSE IF ~f.fixed THEN Warn(policy, "no_authoritative_fix", f.severity)
    ELSE IF f.package \in Development THEN Warn(policy, "development_only", f.severity)
    ELSE IF f.unreachable THEN Warn(policy, "proven_unreachable", f.severity)
    ELSE IF f.severity = "high"
    THEN [decision |-> "block", reason |-> "runtime_high_or_critical"]
    ELSE Warn(policy, "non_blocking_severity", f.severity)

Active(fs, p) == {k \in DOMAIN fs : fs[k].package = p /\ ~fs[k].withdrawn}

(* select_lowest_common_fixed_version: whether one released version is safe *)
(* for all active findings of the package.  Versions are ordered, so the    *)
(* highest of the lowest fixes is, unless some finding has none; ranges     *)
(* need the ecosystem's own comparison.                                     *)
Recommended(fs, p) ==
    /\ Active(fs, p) # {}
    /\ \A k \in Active(fs, p) : fs[k].fixed /\ (fs[k].ranged => config.callbacks)

(* The mitigation of a decision: what a person gave, else what _decisions   *)
(* writes in its place.                                                     *)
Mitigation(fs, k, decision, failed) ==
    IF config.accepted[k[2]].mitigation THEN "given"
    ELSE IF decision = "excluded" THEN "none"
    ELSE IF k[1] \in failed \/ ~Recommended(fs, k[1]) THEN "unresolved"
    ELSE IF config.remediation THEN "target" ELSE "candidate"

(* _decisions: a decision for every finding, the withdrawn ones included. *)
Decide(fs, failed) ==
    [k \in DOMAIN fs |->
        LET c == Classify(fs[k], config.policy)
        IN  [decision   |-> c.decision,
             reason     |-> c.reason,
             mitigation |-> Mitigation(fs, k, c.decision, failed),
             approval   |-> config.accepted[k[2]].approval]]

(* A slip: contradictory native evidence is not required. *)
RequiredOsvKev(ss) == {s \in ss : s.source \in {"osv", "kev", "remediation", "native"}}

(* required_sources *)
Required(ss) ==
    {s \in ss : s.source \in {"osv", "kev", "remediation", "native", "consistency"}}

HasGap(ss) == \E s \in ss : s.state \in Gap

(* _unavailability_reasons and the order of gate_result *)
Unaccepted(d) ==
    d.decision = "warn" /\ d.reason = "no_authoritative_fix" /\
    (d.mitigation = "none" \/ ~d.approval)

Unavailable(ds, considered) ==
    \/ config.mode # "change" /\ (~inventory.complete \/ HasGap(considered))
    \/ config.mode = "release" /\ \E k \in DOMAIN ds : Unaccepted(ds[k])

(* gate_result over the sources _finish_and_write gives it *)
Gate(ds) ==
    LET considered == inventoryStatuses \cup
                      (IF config.mode = "change" THEN sources ELSE Required(sources))
        decided(d) == \E k \in DOMAIN ds : ds[k].decision = d
    IN  IF Unavailable(ds, considered) THEN "unavailable"
        ELSE IF decided("block") THEN "blocked"
        ELSE IF decided("warn") \/ (config.mode = "change" /\ HasGap(considered))
             THEN "warnings"
        ELSE "pass"

-----------------------------------------------------------------------------
Init ==
    /\ config \in Configs
    /\ pc = "start"
    /\ late = FALSE
    /\ inventory = [packages |-> {}, complete |-> FALSE]
    /\ inventoryStatuses = {} /\ sources = {}
    /\ advisories = {} /\ kevIds = {} /\ unreachable = {}
    /\ pending = {} /\ findings = <<>> /\ decisions = <<>>
    /\ gate = "none" /\ report = "none"

evidence == <<advisories, kevIds, unreachable, pending, findings, decisions>>

(* A service takes its time, and the audit moves on to the next one. *)
Then(next) == pc' = next /\ late' \in {late, TRUE}

(* _invalid_config: nothing is asked and nothing written. *)
Invalid ==
    /\ pc = "start" /\ ~config.valid
    /\ sources' = {Status("configuration", "unavailable", "recent")}
    /\ gate' = "invalid" /\ pc' = "done"
    /\ UNCHANGED <<config, late, inventory, inventoryStatuses, evidence, report>>

(* The clock fails: the audit is over before it began, and reported as far  *)
(* as that works.                                                           *)
ClockFails ==
    /\ pc = "start" /\ config.valid
    /\ \E written \in BOOLEAN :
          /\ report' = IF written THEN "unavailable" ELSE "none"
          /\ sources' = {Status("clock", "unavailable", "recent")} \cup
                        {s \in {Status("reporting", "unavailable", "recent")} : ~written}
    /\ gate' = "unavailable" /\ pc' = "done"
    /\ UNCHANGED <<config, late, inventory, inventoryStatuses, evidence>>

(* The inventory; a collector that raises leaves it empty and incomplete.   *)
Collect ==
    /\ pc = "start" /\ config.valid
    /\ Then("collected")
    /\ \E ps \in Inventories, complete \in BOOLEAN, s \in Answers("inventory", late') :
          /\ s.said # "not_applicable" /\ (complete => s.said # "unavailable")
          /\ inventory' = [packages |-> ps, complete |-> complete]
          /\ inventoryStatuses' =
                {s} \cup
                {t \in {Status("completeness", "partial", "recent")} : ~complete}
    /\ UNCHANGED <<config, sources, evidence, gate, report>>

Matches ==
    config.mode = "change" /\ inventory.complete /\ inventory.packages \in config.baseline

(* The graph is the one of the baseline: no source is asked. *)
SkipUnchanged ==
    /\ pc = "collected" /\ Matches
    /\ pc' = "finish"
    /\ UNCHANGED <<config, late, inventory, inventoryStatuses, sources, evidence, gate, report>>

(* OSV; one that raises answers nothing. *)
QueryOsv ==
    /\ pc = "collected" /\ ~Matches
    /\ Then("native")
    /\ \E answer \in SUBSET OsvRecords, s \in Answers("osv", late') :
          /\ s.said # "not_applicable" /\ (s.said = "unavailable" => answer = {})
          /\ advisories' = answer
          /\ sources' = {s}
    /\ UNCHANGED <<config, inventory, inventoryStatuses, kevIds, unreachable, pending,
                   findings, decisions, gate, report>>

(* The native auditors, with the check that their records and states agree. *)
RunNativeAudits ==
    /\ pc = "native"
    /\ Then("kev")
    /\ \E answer \in SUBSET NativeRecords, said \in SUBSET Answers("native", late') :
          /\ Cardinality(said) <= 2
          /\ advisories' = advisories \cup answer
          /\ sources' = sources \cup said \cup
                {s \in {Status("consistency", "partial", "recent")} :
                    Contradicts(answer, {t.state : t \in said})}
    /\ UNCHANGED <<config, inventory, inventoryStatuses, kevIds, unreachable, pending,
                   findings, decisions, gate, report>>

FetchKev ==
    /\ pc = "kev"
    /\ Then("reachability")
    /\ \E ids \in SUBSET Cves, s \in Answers("kev", late') :
          /\ s.said # "not_applicable" /\ (s.said = "unavailable" => ids = {})
          /\ kevIds' = ids
          /\ sources' = sources \cup {s}
    /\ UNCHANGED <<config, inventory, inventoryStatuses, advisories, unreachable, pending,
                   findings, decisions, gate, report>>

(* The reachability file, if there is one. *)
LoadReachability ==
    /\ pc = "reachability"
    /\ \E ps \in SUBSET inventory.packages, s \in Answers("reachability", FALSE) :
          /\ s.said # "not_applicable" /\ s.stamp = "recent"
          /\ s.said = "unavailable" \/ ~config.reachability => ps = {}
          /\ config.reachability \/ s.said = "ok"
          /\ unreachable' = ps
          /\ sources' = sources \cup {t \in {s} : config.reachability}
    /\ pc' = "build"
    /\ UNCHANGED <<config, late, inventory, inventoryStatuses, advisories, kevIds, pending,
                   findings, decisions, gate, report>>

(* _build_findings: the findings, each to be enriched; NVD is asked for all *)
(* of them beforehand, which may fail.                                      *)
BuildFindings ==
    /\ pc = "build"
    /\ findings' = PrimaryFindings
    /\ pending' = (DOMAIN findings') \X Secondaries
    /\ Then("enrich")
    /\ \/ UNCHANGED sources
       \/ /\ "nvd" \in Secondaries
          /\ \E s \in Answers("nvd", late') :
                s.said = "unavailable" /\ sources' = sources \cup {s}
    /\ UNCHANGED <<config, inventory, inventoryStatuses, advisories, kevIds, unreachable,
                   decisions, gate, report>>

(* One request of _build_findings' inner loop.  The source fails, knows     *)
(* nothing, answers about another advisory (which counts as partial), or    *)
(* adds a severity.                                                         *)
Enrich ==
    /\ pc = "enrich" /\ pending # {}
    /\ Then("enrich")
    /\ LET t == CHOOSE t \in pending : TRUE
           k == t[1]
       IN  /\ pending' = pending \ {t}
           /\ \E s \in Answers(t[2], late') :
                 /\ sources' = sources \cup {s}
                 /\ \/ UNCHANGED findings
                    \/ /\ s.said \in {"ok", "partial"}
                       /\ \E severity \in Severities :
                             findings' = [findings EXCEPT ![k].severity = Merge(@, severity)]
    /\ UNCHANGED <<config, inventory, inventoryStatuses, advisories, kevIds, unreachable,
                   decisions, gate, report>>

(* _decisions: a comparison of versions that raises leaves its package      *)
(* without a recommendation and is a gap in required evidence.              *)
MakeDecisions ==
    /\ pc = "enrich" /\ pending = {}
    /\ \E failed \in SUBSET {findings[k].package : k \in DOMAIN findings}, major \in BOOLEAN :
          /\ ~config.callbacks => failed = {} /\ ~major
          /\ major => config.remediation /\ \E k \in DOMAIN findings :
                 Recommended(findings, k[1]) /\ k[1] \notin failed
                 /\ ~config.accepted[k[2]].mitigation
          /\ decisions' = Decide(findings, failed)
          /\ sources' = sources \cup
                {s \in {Status("remediation", "partial", "recent")} : failed # {} \/ major}
    /\ pc' = "finish"
    /\ UNCHANGED <<config, late, inventory, inventoryStatuses, advisories, kevIds, unreachable,
                   pending, findings, gate, report>>

(* _finish_and_write: the gate, then the report, whose failure is the gate's. *)
Finish ==
    /\ pc = "finish"
    /\ \/ gate' = Gate(decisions) /\ report' = gate' /\ UNCHANGED sources
       \/ /\ gate' = "unavailable" /\ report' = "none"
          /\ sources' = sources \cup {Status("reporting", "unavailable", "recent")}
    /\ pc' = "done"
    /\ UNCHANGED <<config, late, inventory, inventoryStatuses, evidence>>

Next ==
    \/ Invalid \/ ClockFails \/ Collect \/ SkipUnchanged \/ QueryOsv \/ RunNativeAudits
    \/ FetchKev \/ LoadReachability \/ BuildFindings \/ Enrich \/ MakeDecisions \/ Finish

Spec == Init /\ [][Next]_vars
-----------------------------------------------------------------------------
(* Properties *)

Result == [decision : {"excluded", "warn", "block"},
           reason : {"advisory_withdrawn", "kev_present", "no_authoritative_fix",
                     "development_only", "proven_unreachable",
                     "runtime_high_or_critical", "non_blocking_severity"},
           mitigation : {"given", "none", "unresolved", "target", "candidate"},
           approval : BOOLEAN]
FindingType == [package : Packages, id : Ids, ids : SUBSET Ids, withdrawn : BOOLEAN,
                fixed : BOOLEAN, ranged : BOOLEAN, severity : Severities,
                kev : BOOLEAN, unreachable : BOOLEAN]
Gates == {"none", "pass", "warnings", "blocked", "unavailable", "invalid"}

(* The variables stay in their sets, and there is a decision for every      *)
(* finding and no other once the audit has decided (_decisions).            *)
TypeOK ==
    /\ config \in Configs
    /\ pc \in {"start", "collected", "native", "kev", "reachability", "build", "enrich",
               "finish", "done"}
    /\ late \in BOOLEAN
    /\ inventory \in [packages : SUBSET Packages, complete : BOOLEAN]
    /\ inventoryStatuses \subseteq Statuses /\ sources \subseteq Statuses
    /\ advisories \subseteq OsvRecords \cup NativeRecords
    /\ kevIds \subseteq Ids /\ unreachable \subseteq Packages
    /\ DOMAIN findings \subseteq Keys
    /\ \A k \in DOMAIN findings : findings[k] \in FindingType
    /\ pending \subseteq (DOMAIN findings) \X Secondaries
    /\ DOMAIN decisions \subseteq Keys
    /\ \A k \in DOMAIN decisions : decisions[k] \in Result
    /\ pc \in {"finish", "done"} => DOMAIN decisions = DOMAIN findings
    /\ gate \in Gates /\ report \in Gates

Answered(name) == {s \in sources : s.source = name}
(* What a reader may conclude from an audit that did not end unavailable:   *)
(* its report is on disk, and for a protected branch or a release the       *)
(* inventory was whole and every required source said so, of the present.   *)
(* A change passes only without any gap at all.                             *)
CleanIsEvidenced ==
    pc = "done" /\ gate \notin {"unavailable", "invalid"} =>
        /\ report = gate
        /\ config.mode # "change" =>
              /\ inventory.complete /\ \A s \in inventoryStatuses : Sound(s)
              /\ \E s \in Answered("osv") : Sound(s)
              /\ \E s \in Answered("kev") : Sound(s)
              /\ \A s \in Answered("native") : Sound(s) \/ s.said = "not_applicable"
              /\ advisories \cap NativeRecords # {} =>
                    Answered("native") # {} /\ \A s \in Answered("native") : Sound(s)
        /\ config.mode = "change" /\ gate = "pass" =>
              \A s \in inventoryStatuses \cup sources : Sound(s) \/ s.said = "not_applicable"

(* Known exploitation is never passed: when OSV answered a record of an     *)
(* installed package under an identifier of the KEV catalog, in whatever    *)
(* mode and policy, and whatever is said of reachability, scope, fixes and  *)
(* severity, the audit does not exit 0, unless the advisory is withdrawn.   *)
ExploitedBlocks ==
    pc = "done" =>
        \A r \in advisories \cap OsvRecords :
            /\ r.affects \cap inventory.packages # {}
            /\ r.ids \cap kevIds # {}
            /\ \A group \in Correlate(advisories) : r \in group => \A s \in group : ~s.withdrawn
            => gate \in {"blocked", "unavailable"}

(* No answer is lost between the sources and the decisions: a record for an *)
(* installed package has a finding under its identifiers.  Where OSV knows  *)
(* the advisory, OSV says which packages it concerns.                       *)
NothingIsErased ==
    pc = "finish" =>
        \A r \in advisories : \A p \in r.affects \cap inventory.packages :
            \/ \E k \in DOMAIN findings : k[1] = p /\ r.ids \subseteq findings[k].ids
            \/ r \in NativeRecords /\ \E group \in Correlate(advisories) :
                   /\ r \in group /\ Primary(group) # {}
                   /\ \A s \in Primary(group) : p \notin s.affects

Rank(decision) == CASE decision = "excluded" -> 0
                    [] decision = "warn" -> 1
                    [] decision = "block" -> 2

(* Neither the project's policy nor a secondary source talks a finding      *)
(* down: the decision is at least the one the default policy takes on the   *)
(* primary evidence alone.                                                  *)
NeverLoosened ==
    pc = "finish" =>
        LET primary == PrimaryFindings
        IN  \A k \in DOMAIN decisions :
                Rank(decisions[k].decision) >= Rank(Classify(primary[k], DefaultPolicy).decision)
=============================================================================
