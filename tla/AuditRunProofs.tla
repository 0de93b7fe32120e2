--------------------------- MODULE AuditRunProofs ---------------------------
(***************************************************************************)
(* What an audit's result says of its evidence, for any packages, records, *)
(* identifiers, services and policies, whatever the services answer.       *)
(***************************************************************************)
EXTENDS AuditRun, WellFoundedInduction, TLAPS

Records == OsvRecords \cup NativeRecords
Closed(S, T) == \A x \in T, y \in S : Linked(x, y) => y \in T

------------------------------------------------------------------------------
(* Correlation: the components partition the records. *)

\* A non-empty set of identifiers has a least one.
LEMMA LeastIs ==
    ASSUME NEW S \in SUBSET Nat, S # {}
    PROVE  Least(S) \in S /\ \A j \in S : Least(S) <= j
<1> DEFINE R == OpToRel(<, Nat)
<1>1. IsWellFoundedOn(R, Nat)
  BY NatLessThanWellFounded
<1>2. \A i, j \in Nat : j < i => <<j, i>> \in R
  BY Zenon DEF OpToRel
<1> HIDE DEF R
<1>3. PICK i \in S : \A j \in S : ~(<<j, i>> \in R)
  BY <1>1, WFMin
<1>4. \A j \in S : i <= j
  <2>1. \A j \in S : ~(j < i)
    BY <1>2, <1>3, Zenon
  <2> QED BY <2>1
<1> QED BY <1>4 DEF Least

\* What links two records links them both ways.
LEMMA LinkedBothWays == ASSUME NEW x, NEW y, Linked(x, y) PROVE Linked(y, x)
BY DEF Linked

\* A component holds its record and every record linked to one of its own, and lies in
\* each set that does.
LEMMA ComponentIsLeast ==
    ASSUME NEW S, NEW r \in S
    PROVE  /\ Component(S, r) \subseteq S /\ r \in Component(S, r)
           /\ Closed(S, Component(S, r))
           /\ \A T \in SUBSET S : r \in T /\ Closed(S, T) => Component(S, r) \subseteq T
<1>1. Component(S, r) = {s \in S : \A T \in SUBSET S : r \in T /\ Closed(S, T) => s \in T}
  BY DEF Component, Closed
<1>2. ASSUME NEW x \in Component(S, r), NEW y \in S, Linked(x, y),
             NEW T \in SUBSET S, r \in T, Closed(S, T)
      PROVE  y \in T
  BY <1>1, <1>2 DEF Closed
<1>3. Closed(S, Component(S, r))
  BY <1>1, <1>2 DEF Closed
<1> QED BY <1>1, <1>3

\* The component of a record is the component of each record in it.
LEMMA ComponentOfMember ==
    ASSUME NEW S, NEW r \in S, NEW y \in Component(S, r)
    PROVE  Component(S, y) = Component(S, r)
<1> DEFINE R == Component(S, r)
           Y == Component(S, y)
<1>1. R \subseteq S /\ r \in R /\ Closed(S, R) /\ y \in S
      /\ \A T \in SUBSET S : r \in T /\ Closed(S, T) => R \subseteq T
  BY ComponentIsLeast
<1>2. Y \subseteq S /\ y \in Y /\ Closed(S, Y)
      /\ \A T \in SUBSET S : y \in T /\ Closed(S, T) => Y \subseteq T
  BY <1>1, ComponentIsLeast
<1>3. y \in R
  OBVIOUS
<1> HIDE DEF R, Y
<1>4. Y \subseteq R
  BY <1>1, <1>2, <1>3
<1>5. Closed(S, R \ Y)
  <2> SUFFICES ASSUME NEW x \in R \ Y, NEW z \in S, Linked(x, z) PROVE z \in R \ Y
    BY DEF Closed
  <2>1. z \in R
    BY <1>1 DEF Closed
  <2>2. z \notin Y
    BY <1>1, <1>2, LinkedBothWays DEF Closed
  <2> QED BY <2>1, <2>2
<1>6. r \in Y
  BY <1>1, <1>2, <1>3, <1>5
<1>7. R \subseteq Y
  BY <1>1, <1>2, <1>6
<1> QED BY <1>4, <1>7 DEF R, Y

\* Two groups with records that share an identifier are one.
LEMMA GroupsAreDisjoint ==
    ASSUME NEW S \in SUBSET Records, NEW g \in Correlate(S), NEW h \in Correlate(S),
           IdsOf(g) \cap IdsOf(h) # {}
    PROVE  g = h
<1>1. PICK r \in S : g = Component(S, r)
  BY DEF Correlate, Correlated, Records
<1>2. PICK s \in S : h = Component(S, s)
  BY DEF Correlate, Correlated, Records
<1>3. PICK x \in g, y \in h : Linked(x, y)
  BY DEF IdsOf, Linked
<1>4. y \in S /\ y \in g
  BY <1>1, <1>2, <1>3, ComponentIsLeast DEF Closed
<1>5. Component(S, y) = g
  BY <1>1, <1>4, ComponentOfMember
<1>6. Component(S, y) = h
  BY <1>2, <1>3, ComponentOfMember
<1> QED BY <1>5, <1>6

\* A record is in a group, and a group is some of the records.
LEMMA GroupOfRecord ==
    ASSUME NEW S \in SUBSET Records, NEW r \in S
    PROVE  \E g \in Correlate(S) : r \in g
BY ComponentIsLeast DEF Correlate, Correlated, Records

\* The canonical identifier of a group is one of its own.
LEMMA CanonicalIsAnId ==
    ASSUME NEW S \in SUBSET Records, NEW g \in Correlate(S)
    PROVE  g \subseteq S /\ IdsOf(g) \subseteq Ids /\ Canonical(g) \in IdsOf(g)
<1>1. PICK r \in S : g = Component(S, r)
  BY DEF Correlate, Correlated, Records
<1>2. g \subseteq S /\ r \in g
  BY <1>1, ComponentIsLeast
<1>3. \A x \in g : x.id \in x.ids /\ x.ids \subseteq Ids
  BY <1>2, AuditRunAssumption DEF Records, Record
<1>4. IdsOf(g) \subseteq Ids /\ \A x \in g : x.id \in IdsOf(g)
  BY <1>3 DEF IdsOf
<1>5. Ids \subseteq Nat
  BY AuditRunAssumption
<1>6. CASE Primary(g) = {}
  <2>1. Least(IdsOf(g)) \in IdsOf(g)
    BY <1>2, <1>4, <1>5, LeastIs
  <2> QED BY <1>2, <1>4, <1>6, <2>1 DEF Canonical
<1>7. CASE Primary(g) # {}
  <2> DEFINE N == {x.id : x \in Primary(g)}
  <2>1. N \subseteq IdsOf(g) /\ N # {}
    BY <1>4, <1>7 DEF Primary
  <2>2. Least(N) \in N
    BY <1>4, <1>5, <2>1, LeastIs
  <2>3. Canonical(g) = Least(N)
    BY <1>7 DEF Canonical
  <2> QED BY <1>2, <1>4, <2>1, <2>2, <2>3
<1> QED BY <1>6, <1>7

------------------------------------------------------------------------------
(* Findings: one for each group that applies to a package of the inventory. *)

\* A key of the findings stands for a group that applies to its package.
LEMMA FoundHasGroup ==
    ASSUME advisories \subseteq Records, inventory.packages \subseteq Packages,
           NEW k \in FoundKeys
    PROVE  /\ k \in Keys /\ k[1] \in inventory.packages
           /\ GroupOf(k) \in GroupsFor(k[1]) /\ Canonical(GroupOf(k)) = k[2]
           /\ GroupOf(k) \in Correlate(advisories)
<1>0. PICK p \in inventory.packages : \E h \in GroupsFor(p) : k = <<p, Canonical(h)>>
  BY DEF FoundKeys
<1>1. PICK g \in GroupsFor(p) : k = <<p, Canonical(g)>>
  BY <1>0
<1>2. k[1] = p /\ k[2] = Canonical(g)
  BY <1>1
<1>3. g \in Correlate(advisories)
  BY DEF GroupsFor
<1>4. Canonical(g) \in Ids
  BY <1>3, CanonicalIsAnId
<1>5. k \in Keys
  BY <1>1, <1>4 DEF Keys
<1>6. GroupOf(k) \in GroupsFor(k[1]) /\ Canonical(GroupOf(k)) = k[2]
  BY <1>2 DEF GroupOf
<1>7. GroupOf(k) \in Correlate(advisories)
  BY <1>6 DEF GroupsFor
<1> QED BY <1>2, <1>5, <1>6, <1>7

\* A group that applies to a package has a finding of its own there.
LEMMA GroupHasKey ==
    ASSUME advisories \subseteq Records, inventory.packages \subseteq Packages,
           NEW p \in inventory.packages, NEW g \in GroupsFor(p)
    PROVE  <<p, Canonical(g)>> \in FoundKeys /\ GroupOf(<<p, Canonical(g)>>) = g
<1> DEFINE k == <<p, Canonical(g)>>
<1>1. k \in FoundKeys /\ k[1] = p /\ k[2] = Canonical(g)
  BY DEF FoundKeys
<1>2. GroupOf(k) \in Correlate(advisories) /\ Canonical(GroupOf(k)) = Canonical(g)
  BY <1>1, FoundHasGroup
<1>3. g \in Correlate(advisories)
  BY DEF GroupsFor
<1>4. Canonical(g) \in IdsOf(g) /\ Canonical(GroupOf(k)) \in IdsOf(GroupOf(k))
  BY <1>2, <1>3, CanonicalIsAnId
<1>5. IdsOf(g) \cap IdsOf(GroupOf(k)) # {}
  BY <1>2, <1>4
<1> HIDE DEF k
<1>6. GroupOf(k) = g
  BY <1>2, <1>3, <1>5, GroupsAreDisjoint
<1> QED BY <1>1, <1>6 DEF k

\* Where no source answered a record there is nothing to find.
LEMMA NothingToFind == ASSUME advisories = {} PROVE FoundKeys = {}
<1>1. Correlate(advisories) = {}
  BY DEF Correlate, Correlated
<1> QED BY <1>1 DEF FoundKeys, GroupsFor

\* Findings have their type.
LEMMA FoundType ==
    ASSUME advisories \subseteq Records, inventory.packages \subseteq Packages,
           NEW k \in FoundKeys
    PROVE  PrimaryFindings[k] \in FindingType
<1> DEFINE g == GroupOf(k)
<1>1. k[1] \in Packages /\ g \in Correlate(advisories)
  BY FoundHasGroup
<1> HIDE DEF g
<1>2. g \subseteq advisories /\ IdsOf(g) \subseteq Ids /\ Canonical(g) \in IdsOf(g)
  BY <1>1, CanonicalIsAnId
<1>3. MaxSeverity({r.severity : r \in g}) \in Severities
  BY DEF MaxSeverity, Severities
<1>4. Canonical(g) \in Ids /\ IdsOf(g) \in SUBSET Ids
  BY <1>2
<1>5. Fixed(g, k[1]) \in BOOLEAN /\ Ranged(g, k[1]) \in BOOLEAN
  BY DEF Fixed, Ranged
<1>6. Finding(g, k[1]) \in FindingType
  BY <1>1, <1>3, <1>4, <1>5 DEF Finding, FindingType
<1> QED BY <1>6 DEF PrimaryFindings, g

------------------------------------------------------------------------------
(* Type correctness *)

Empty == pc \in {"start", "collected"} => decisions = <<>> /\ findings = <<>>
Typed == TypeOK /\ Empty

\* A status that is made has its type.
LEMMA StatusType ==
    ASSUME NEW source \in Sources, NEW state \in States, NEW stamp \in Stamps
    PROVE  /\ Status(source, state, stamp) \in Statuses
           /\ Status(source, state, stamp).source = source
           /\ Status(source, state, stamp).state = Fresh(state, stamp)
           /\ Status(source, state, stamp).said = state
<1>1. Fresh(state, stamp) \in States
  BY DEF Fresh, States
<1> QED BY <1>1 DEF Status, Statuses

\* An answer is a status of its source.
LEMMA AnswerType ==
    ASSUME NEW source \in Sources, NEW isLate \in BOOLEAN, NEW s \in Answers(source, isLate)
    PROVE  s \in Statuses /\ s.source = source /\ s.state = Fresh(s.said, s.stamp)
<1>1. PICK said \in States, stamp \in {"old", IF isLate THEN "late" ELSE "recent"} :
          s = Status(source, said, stamp)
  BY DEF Answers
<1>2. stamp \in Stamps
  BY <1>1 DEF Stamps
<1> QED BY <1>1, <1>2, StatusType DEF Status

\* The statuses the audit makes itself have their types.
LEMMA OwnStatus ==
    ASSUME NEW source \in Sources, NEW state \in {"partial", "unavailable"}
    PROVE  /\ Status(source, state, "recent") \in Statuses
           /\ Status(source, state, "recent").source = source
           /\ Status(source, state, "recent").state = state
           /\ Status(source, state, "recent").said = state
BY StatusType DEF States, Stamps, Fresh, Status

\* Decisions have their types.
LEMMA DecideType ==
    ASSUME TypeOK, NEW failed, NEW k \in DOMAIN findings
    PROVE  Decide(findings, failed)[k] \in Result
           /\ Decide(findings, failed)[k].decision
                 = Classify(findings[k], config.policy).decision
<1> DEFINE c == Classify(findings[k], config.policy)
<1>1. k[2] \in Ids /\ config \in Config
  BY AuditRunAssumption DEF TypeOK, Keys
<1>2. config.accepted[k[2]].approval \in BOOLEAN
  BY <1>1 DEF Config, Acceptance
<1>3. c.decision \in {"excluded", "warn", "block"} /\ c.reason \in
          {"advisory_withdrawn", "kev_present", "no_authoritative_fix", "development_only",
           "proven_unreachable", "runtime_high_or_critical", "non_blocking_severity"}
  BY DEF Classify, Warn
<1>4. Mitigation(findings, k, c.decision, failed)
          \in {"given", "none", "unresolved", "target", "candidate"}
  BY DEF Mitigation
<1>5. Decide(findings, failed)[k] =
          [decision |-> c.decision, reason |-> c.reason,
           mitigation |-> Mitigation(findings, k, c.decision, failed),
           approval |-> config.accepted[k[2]].approval]
  BY DEF Decide
<1> HIDE DEF c
<1>6. Decide(findings, failed)[k] \in Result
  BY <1>2, <1>3, <1>4, <1>5 DEF Result
<1> QED BY <1>5, <1>6 DEF c

\* What an enrichment does, once it is known which.
Enriches(t) ==
    /\ pending' = pending \ {t}
    /\ \E s \in Answers(t[2], late') :
          /\ sources' = sources \cup {s}
          /\ \/ UNCHANGED findings
             \/ \E severity \in Severities :
                    findings' = [findings EXCEPT ![t[1]].severity = Merge(@, severity)]

\* An enrichment is one of those that are pending.
LEMMA EnrichOne == ASSUME Enrich PROVE \E t \in pending : Enriches(t)
<1> DEFINE t == CHOOSE u \in pending : TRUE
<1>1. t \in pending
  BY DEF Enrich
<1>2. Enriches(t)
  BY DEF Enrich, Enriches
<1> QED BY <1>1, <1>2

\* A raised severity is a severity.
LEMMA RaisedType ==
    ASSUME TypeOK, NEW k \in DOMAIN findings, NEW severity \in Severities,
           findings' = [findings EXCEPT ![k].severity = Merge(@, severity)]
    PROVE  /\ DOMAIN findings' = DOMAIN findings
           /\ \A l \in DOMAIN findings : findings'[l] \in FindingType
<1> DEFINE high == Merge(findings[k].severity, severity)
           f == [findings[k] EXCEPT !.severity = high]
<1>1. findings[k] \in FindingType
  BY DEF TypeOK
<1>2. high \in Severities
  BY DEF Merge, MaxSeverity, Severities
<1> HIDE DEF high
<1>3. f \in FindingType
  BY <1>1, <1>2 DEF FindingType
<1>4. findings' = [findings EXCEPT ![k] = f]
  BY DEF high
<1> HIDE DEF f
<1>5. DOMAIN findings' = DOMAIN findings
      /\ \A l \in DOMAIN findings : findings'[l] = IF l = k THEN f ELSE findings[l]
  BY <1>4
<1> QED BY <1>3, <1>5 DEF TypeOK

\* Every step preserves the types.
LEMMA TypingStep == Typed /\ [Next]_vars => Typed'
<1> SUFFICES ASSUME Typed, [Next]_vars PROVE Typed'
  OBVIOUS
<1>0. TypeOK /\ Empty
  BY DEF Typed
<1>own. \A source \in Sources, state \in {"partial", "unavailable"} :
            Status(source, state, "recent") \in Statuses
  BY OwnStatus
<1>names. {"inventory", "completeness", "osv", "native", "consistency", "kev",
           "reachability", "remediation", "configuration", "clock", "reporting"} \subseteq Sources
          /\ Secondaries \subseteq Sources
  BY DEF Sources
<1>1. ASSUME Invalid PROVE Typed'
  <2>1. sources' \subseteq Statuses
    BY <1>1, <1>own, <1>names DEF Invalid
  <2> QED BY <1>0, <1>1, <2>1 DEF Invalid, evidence, TypeOK, Typed, Empty, Gates
<1>2. ASSUME ClockFails PROVE Typed'
  <2>1. sources' \subseteq Statuses /\ report' \in Gates
    BY <1>2, <1>own, <1>names DEF ClockFails, Gates
  <2> QED BY <1>0, <1>2, <2>1 DEF ClockFails, evidence, TypeOK, Typed, Empty, Gates
<1>3. ASSUME Collect PROVE Typed'
  <2>1. late' \in BOOLEAN
    BY <1>0, <1>3 DEF Collect, Then, TypeOK
  <2>2. PICK ps \in Inventories, complete \in BOOLEAN, s \in Answers("inventory", late') :
            /\ inventory' = [packages |-> ps, complete |-> complete]
            /\ inventoryStatuses' =
                  {s} \cup {t \in {Status("completeness", "partial", "recent")} : ~complete}
    BY <1>3 DEF Collect
  <2>3. s \in Statuses
    BY <2>1, <1>names, AnswerType
  <2>4. inventoryStatuses' \subseteq Statuses
    BY <2>2, <2>3, <1>own, <1>names
  <2>5. ps \in SUBSET Packages
    BY AuditRunAssumption
  <2>6. inventory' \in [packages : SUBSET Packages, complete : BOOLEAN]
    BY <2>2, <2>5
  <2> QED BY <1>0, <1>3, <2>1, <2>4, <2>6
          DEF Collect, Then, evidence, TypeOK, Typed, Empty
<1>4. ASSUME SkipUnchanged PROVE Typed'
  BY <1>0, <1>4 DEF SkipUnchanged, evidence, TypeOK, Typed, Empty
<1>5. ASSUME QueryOsv PROVE Typed'
  <2>1. late' \in BOOLEAN
    BY <1>0, <1>5 DEF QueryOsv, Then, TypeOK
  <2>2. PICK answer \in SUBSET OsvRecords, s \in Answers("osv", late') :
            advisories' = answer /\ sources' = {s}
    BY <1>5 DEF QueryOsv
  <2>3. s \in Statuses
    BY <2>1, <1>names, AnswerType
  <2> QED BY <1>0, <1>5, <2>1, <2>2, <2>3 DEF QueryOsv, Then, TypeOK, Typed, Empty
<1>6. ASSUME RunNativeAudits PROVE Typed'
  <2>1. late' \in BOOLEAN
    BY <1>0, <1>6 DEF RunNativeAudits, Then, TypeOK
  <2>2. PICK answer \in SUBSET NativeRecords, said \in SUBSET Answers("native", late') :
            /\ advisories' = advisories \cup answer
            /\ sources' = sources \cup said \cup
                  {s \in {Status("consistency", "partial", "recent")} :
                      Contradicts(answer, {t.state : t \in said})}
    BY <1>6 DEF RunNativeAudits
  <2>3. said \subseteq Statuses
    BY <2>1, <1>names, AnswerType
  <2>4. sources' \subseteq Statuses
    BY <1>0, <2>2, <2>3, <1>own, <1>names DEF TypeOK
  <2>5. advisories' \subseteq OsvRecords \cup NativeRecords
    BY <1>0, <2>2 DEF TypeOK
  <2> QED BY <1>0, <1>6, <2>1, <2>4, <2>5 DEF RunNativeAudits, Then, TypeOK, Typed, Empty
<1>7. ASSUME FetchKev PROVE Typed'
  <2>1. late' \in BOOLEAN
    BY <1>0, <1>7 DEF FetchKev, Then, TypeOK
  <2>2. PICK ids \in SUBSET Cves, s \in Answers("kev", late') :
            kevIds' = ids /\ sources' = sources \cup {s}
    BY <1>7 DEF FetchKev
  <2>3. s \in Statuses
    BY <2>1, <1>names, AnswerType
  <2>4. kevIds' \subseteq Ids
    BY <2>2, AuditRunAssumption
  <2> QED BY <1>0, <1>7, <2>1, <2>2, <2>3, <2>4 DEF FetchKev, Then, TypeOK, Typed, Empty
<1>8. ASSUME LoadReachability PROVE Typed'
  <2>1. PICK ps \in SUBSET inventory.packages, s \in Answers("reachability", FALSE) :
            unreachable' = ps /\ sources' = sources \cup {t \in {s} : config.reachability}
    BY <1>8 DEF LoadReachability
  <2>2. s \in Statuses
    BY <1>names, AnswerType
  <2>3. ps \subseteq Packages
    BY <1>0 DEF TypeOK
  <2> QED BY <1>0, <1>8, <2>1, <2>2, <2>3 DEF LoadReachability, TypeOK, Typed, Empty
<1>9. ASSUME BuildFindings PROVE Typed'
  <2>1. late' \in BOOLEAN
    BY <1>0, <1>9 DEF BuildFindings, Then, TypeOK
  <2>2. sources' \subseteq Statuses
    <3>1. CASE UNCHANGED sources
      BY <1>0, <3>1 DEF TypeOK
    <3>2. CASE "nvd" \in Secondaries /\ \E s \in Answers("nvd", late') :
                  s.said = "unavailable" /\ sources' = sources \cup {s}
      BY <1>0, <3>2, <2>1, <1>names, AnswerType DEF TypeOK
    <3> QED BY <1>9, <3>1, <3>2 DEF BuildFindings
  <2>3. advisories \subseteq Records /\ inventory.packages \subseteq Packages
    BY <1>0 DEF TypeOK, Records
  <2>4. findings' = PrimaryFindings /\ DOMAIN findings' = FoundKeys
    BY <1>9 DEF BuildFindings, PrimaryFindings
  <2>5. DOMAIN findings' \subseteq Keys /\ \A k \in DOMAIN findings' : findings'[k] \in FindingType
    BY <2>3, <2>4, FoundHasGroup, FoundType
  <2>6. pending' \subseteq (DOMAIN findings') \X Secondaries
    BY <1>9 DEF BuildFindings
  <2> QED BY <1>0, <1>9, <2>1, <2>2, <2>5, <2>6 DEF BuildFindings, Then, TypeOK, Typed, Empty
<1>10. ASSUME Enrich PROVE Typed'
  <2>1. late' \in BOOLEAN
    BY <1>0, <1>10 DEF Enrich, Then, TypeOK
  <2>2. PICK t \in pending : Enriches(t)
    BY <1>10, EnrichOne
  <2>3. t[1] \in DOMAIN findings /\ t[2] \in Sources
    BY <1>0, <1>names DEF TypeOK
  <2>4. sources' \subseteq Statuses
    BY <1>0, <2>1, <2>2, <2>3, AnswerType DEF TypeOK, Enriches
  <2>5. DOMAIN findings' = DOMAIN findings
        /\ \A l \in DOMAIN findings : findings'[l] \in FindingType
    BY <1>0, <2>2, <2>3, RaisedType DEF TypeOK, Enriches
  <2>6. pending' \subseteq (DOMAIN findings') \X Secondaries
    BY <1>0, <2>2, <2>5 DEF TypeOK, Enriches
  <2> QED BY <1>0, <1>10, <2>1, <2>4, <2>5, <2>6 DEF Enrich, Then, TypeOK, Typed, Empty
<1>11. ASSUME MakeDecisions PROVE Typed'
  <2>1. PICK failed \in SUBSET {findings[k].package : k \in DOMAIN findings}, major \in BOOLEAN :
            /\ decisions' = Decide(findings, failed)
            /\ sources' = sources \cup
                  {s \in {Status("remediation", "partial", "recent")} : failed # {} \/ major}
    BY <1>11 DEF MakeDecisions
  <2>2. sources' \subseteq Statuses
    BY <1>0, <2>1, <1>own, <1>names DEF TypeOK
  <2>3. DOMAIN decisions' = DOMAIN findings
    BY <2>1 DEF Decide
  <2>4. \A k \in DOMAIN decisions' : decisions'[k] \in Result
    BY <1>0, <2>1, <2>3, DecideType
  <2> QED BY <1>0, <1>11, <2>2, <2>3, <2>4 DEF MakeDecisions, TypeOK, Typed, Empty
<1>12. ASSUME Finish PROVE Typed'
  <2>1. Gate(decisions) \in Gates
    BY DEF Gate, Gates
  <2>2. gate' \in Gates /\ report' \in Gates
    BY <1>12, <2>1 DEF Finish, Gates
  <2>3. sources' \subseteq Statuses
    BY <1>0, <1>12, <1>own, <1>names DEF Finish, TypeOK
  <2> QED BY <1>0, <1>12, <2>2, <2>3 DEF Finish, evidence, TypeOK, Typed, Empty
<1>13. ASSUME UNCHANGED vars PROVE Typed'
  BY <1>0, <1>13 DEF vars, TypeOK, Typed, Empty
<1> QED
  BY <1>1, <1>2, <1>3, <1>4, <1>5, <1>6, <1>7, <1>8, <1>9, <1>10, <1>11, <1>12, <1>13 DEF Next

\* The first state has its types.
LEMMA TypingInit == Init => Typed
<1> SUFFICES ASSUME Init PROVE Typed
  OBVIOUS
<1>1. DOMAIN findings = {} /\ DOMAIN decisions = {}
  BY DEF Init
<1> QED BY <1>1 DEF Init, TypeOK, Typed, Empty, Gates

\* The state of an audit is well formed, whatever the services answer (AuditConfig,
\* AuditResult and the locals of run_audit).
THEOREM AuditTypes == Spec => []TypeOK
<1>1. Spec => []Typed
  BY TypingInit, TypingStep, PTL DEF Spec
<1>2. Typed => TypeOK
  BY DEF Typed
<1> QED BY <1>1, <1>2, PTL

------------------------------------------------------------------------------
(* Evidence: what the sources said, from the moment they were asked. *)

\* The audit is past a step that it can only pass with the evidence of that step.
Through(steps) ==
    \/ pc \in steps
    \/ config.mode # "change" /\ pc = "finish"
    \/ config.mode # "change" /\ pc = "done" /\ gate \notin {"unavailable", "invalid"}

NativeStates == {s.state : s \in Answered("native")}

StatesOK ==
    /\ \A s \in inventoryStatuses \cup sources : s.state = Fresh(s.said, s.stamp)
    /\ \A s \in inventoryStatuses : s.said # "not_applicable"
    /\ \A s \in sources : s.source \in {"osv", "kev"} => s.said # "not_applicable"

EvidenceOK ==
    /\ pc = "native" => advisories \subseteq OsvRecords /\ Answered("native") = {}
    /\ Through({"native", "kev", "reachability", "build", "enrich"}) => Answered("osv") # {}
    /\ Through({"reachability", "build", "enrich"}) => Answered("kev") # {}
    /\ Through({"kev", "reachability", "build", "enrich"}) =>
          \/ Status("consistency", "partial", "recent") \in sources
          \/ ~Contradicts(advisories \cap NativeRecords, NativeStates)
    /\ pc = "done" /\ gate \notin {"unavailable", "invalid"} =>
          gate = Gate(decisions) /\ report = gate

EvidenceInv == TypeOK /\ StatesOK /\ EvidenceOK

\* A status without a gap is sound, unless its source does not apply.
LEMMA NoGapIsSound ==
    ASSUME NEW s \in Statuses, s.state = Fresh(s.said, s.stamp), s.state \notin Gap
    PROVE  Sound(s) \/ s.said = "not_applicable"
BY DEF Statuses, States, Fresh, Gap, Sound

\* An audit that ended neither unavailable nor invalid has its evidence.
LEMMA EvidenceSuffices == ASSUME EvidenceInv PROVE CleanIsEvidenced
<1> SUFFICES ASSUME pc = "done", gate \notin {"unavailable", "invalid"}
             PROVE  /\ report = gate
                    /\ config.mode # "change" =>
                          /\ inventory.complete /\ \A s \in inventoryStatuses : Sound(s)
                          /\ \E s \in Answered("osv") : Sound(s)
                          /\ \E s \in Answered("kev") : Sound(s)
                          /\ \A s \in Answered("native") : Sound(s) \/ s.said = "not_applicable"
                          /\ advisories \cap NativeRecords # {} =>
                                Answered("native") # {} /\ \A s \in Answered("native") : Sound(s)
                    /\ config.mode = "change" /\ gate = "pass" =>
                          \A s \in inventoryStatuses \cup sources :
                              Sound(s) \/ s.said = "not_applicable"
  BY DEF CleanIsEvidenced
<1>0. TypeOK /\ StatesOK /\ EvidenceOK
  BY DEF EvidenceInv
<1>1. gate = Gate(decisions) /\ report = gate
  BY <1>0 DEF EvidenceOK
<1>2. \A s \in inventoryStatuses \cup sources :
          s.state \notin Gap => Sound(s) \/ s.said = "not_applicable"
  BY <1>0, NoGapIsSound DEF TypeOK, StatesOK
<1>3. ASSUME config.mode # "change"
      PROVE  /\ inventory.complete /\ \A s \in inventoryStatuses : Sound(s)
             /\ \E s \in Answered("osv") : Sound(s)
             /\ \E s \in Answered("kev") : Sound(s)
             /\ \A s \in Answered("native") : Sound(s) \/ s.said = "not_applicable"
             /\ advisories \cap NativeRecords # {} =>
                   Answered("native") # {} /\ \A s \in Answered("native") : Sound(s)
  <2>1. inventory.complete /\ \A s \in inventoryStatuses \cup Required(sources) : s.state \notin Gap
    BY <1>1, <1>3 DEF Gate, Unavailable, HasGap
  <2>2. \A s \in sources :
            s.source \in {"osv", "kev", "native", "consistency"} => s.state \notin Gap
    BY <2>1 DEF Required
  <2>3. \A s \in inventoryStatuses : Sound(s)
    BY <1>0, <1>2, <2>1 DEF StatesOK
  <2>4. \A s \in Answered("osv") \cup Answered("kev") : Sound(s)
    BY <1>0, <1>2, <2>2 DEF StatesOK, Answered
  <2>5. Answered("osv") # {} /\ Answered("kev") # {}
    BY <1>0, <1>3 DEF EvidenceOK, Through
  <2>6. \A s \in Answered("native") : Sound(s) \/ s.said = "not_applicable"
    BY <1>2, <2>2 DEF Answered
  <2>7. ASSUME advisories \cap NativeRecords # {}
        PROVE  Answered("native") # {} /\ \A s \in Answered("native") : Sound(s)
    <3>1. Status("consistency", "partial", "recent").source = "consistency"
          /\ Status("consistency", "partial", "recent").state \in Gap
      BY DEF Status, Fresh, Gap
    <3>2. ~Contradicts(advisories \cap NativeRecords, NativeStates)
      BY <1>0, <1>3, <2>2, <3>1 DEF EvidenceOK, Through
    <3>3. NativeStates # {} /\ NativeStates \subseteq {"ok", "partial"}
      BY <2>7, <3>2 DEF Contradicts
    <3>4. \A s \in Answered("native") : s.state = "ok"
      BY <2>2, <3>3 DEF NativeStates, Answered, Gap
    <3>5. \A s \in Answered("native") : s.said # "not_applicable"
      BY <1>0, <3>4 DEF StatesOK, Answered, Fresh
    <3> QED BY <2>6, <3>3, <3>5 DEF NativeStates
  <2> QED BY <2>1, <2>3, <2>4, <2>5, <2>6, <2>7
<1>4. ASSUME config.mode = "change", gate = "pass"
      PROVE  \A s \in inventoryStatuses \cup sources : Sound(s) \/ s.said = "not_applicable"
  BY <1>1, <1>2, <1>4 DEF Gate, HasGap
<1> QED BY <1>1, <1>3, <1>4

\* A status that is added neither answers for OSV, KEV or the native auditors nor is without
\* a valid state.
Beside(s) == s.state = Fresh(s.said, s.stamp) /\ s.source \notin {"osv", "kev", "native"}

\* After the primary sources have answered, the statuses they gave stay as they are.
LEMMA LaterSources ==
    ASSUME TypeOK, LoadReachability \/ BuildFindings \/ Enrich \/ MakeDecisions \/ Finish
    PROVE  sources \subseteq sources' /\ \A s \in sources' : s \in sources \/ Beside(s)
<1>names. {"reachability", "remediation", "reporting"} \subseteq Sources
          /\ Secondaries \subseteq Sources
          /\ Secondaries \cap {"osv", "kev", "native"} = {}
  BY AuditRunAssumption DEF Sources
<1>own. \A source \in {"remediation", "reporting"}, state \in {"partial", "unavailable"} :
            Beside(Status(source, state, "recent"))
  BY DEF Beside, Status
<1>answer. \A source \in Sources \ {"osv", "kev", "native"}, isLate \in BOOLEAN :
               \A s \in Answers(source, isLate) : Beside(s)
  BY AnswerType DEF Beside
<1>late. late' \in BOOLEAN
  BY DEF TypeOK, LoadReachability, BuildFindings, Enrich, MakeDecisions, Finish, Then
<1>1. CASE LoadReachability
  <2>1. PICK s \in Answers("reachability", FALSE) :
            sources' = sources \cup {t \in {s} : config.reachability}
    BY <1>1 DEF LoadReachability
  <2> QED BY <2>1, <1>answer, <1>names
<1>2. CASE BuildFindings
  <2>1. CASE UNCHANGED sources
    BY <2>1
  <2>2. CASE "nvd" \in Secondaries /\ \E s \in Answers("nvd", late') : sources' = sources \cup {s}
    BY <2>2, <1>answer, <1>names, <1>late
  <2> QED BY <1>2, <2>1, <2>2 DEF BuildFindings
<1>3. CASE Enrich
  <2>1. PICK t \in pending : Enriches(t)
    BY <1>3, EnrichOne
  <2>2. t[2] \in Sources \ {"osv", "kev", "native"}
    BY <1>names DEF TypeOK
  <2> QED BY <2>1, <2>2, <1>answer, <1>late DEF Enriches
<1>4. CASE MakeDecisions
  <2>1. \E failed \in SUBSET {findings[k].package : k \in DOMAIN findings}, major \in BOOLEAN :
            sources' = sources \cup
                {s \in {Status("remediation", "partial", "recent")} : failed # {} \/ major}
    BY <1>4 DEF MakeDecisions
  <2> QED BY <2>1, <1>own
<1>5. CASE Finish
  BY <1>5, <1>own DEF Finish
<1> QED BY <1>1, <1>2, <1>3, <1>4, <1>5

\* The answers of the primary sources are then the same.
LEMMA LaterAnswers ==
    ASSUME TypeOK, LoadReachability \/ BuildFindings \/ Enrich \/ MakeDecisions \/ Finish
    PROVE  /\ Answered("osv")' = Answered("osv") /\ Answered("kev")' = Answered("kev")
           /\ Answered("native")' = Answered("native")
BY LaterSources DEF Beside, Answered

\* Every step keeps the states of the statuses as their evidence gives them.
LEMMA StatesStep == ASSUME TypeOK, StatesOK, [Next]_vars PROVE StatesOK'
<1>late. late' \in BOOLEAN
  BY DEF TypeOK, Next, vars, Invalid, ClockFails, Collect, SkipUnchanged, QueryOsv,
         RunNativeAudits, FetchKev, LoadReachability, BuildFindings, Enrich, MakeDecisions,
         Finish, Then
<1>names. {"inventory", "completeness", "osv", "native", "consistency", "kev", "reachability",
           "configuration", "clock", "reporting"} \subseteq Sources
  BY DEF Sources
<1>answer. \A source \in Sources : \A s \in Answers(source, late') :
               s.source = source /\ s.state = Fresh(s.said, s.stamp)
  BY AnswerType, <1>late
<1>own. \A source \in Sources, state \in {"partial", "unavailable"} :
            LET s == Status(source, state, "recent")
            IN  s.source = source /\ s.said = state /\ s.state = Fresh(s.said, s.stamp)
  BY DEF Status
<1>1. CASE Invalid
  BY <1>1, <1>own, <1>names DEF Invalid, StatesOK
<1>2. CASE ClockFails
  BY <1>2, <1>own, <1>names DEF ClockFails, StatesOK
<1>3. CASE Collect
  <2>1. PICK complete \in BOOLEAN, s \in Answers("inventory", late') :
            /\ s.said # "not_applicable"
            /\ inventoryStatuses' =
                  {s} \cup {t \in {Status("completeness", "partial", "recent")} : ~complete}
    BY <1>3 DEF Collect
  <2>2. \A t \in inventoryStatuses' : t.state = Fresh(t.said, t.stamp) /\ t.said # "not_applicable"
    BY <2>1, <1>answer, <1>own, <1>names
  <2> QED BY <1>3, <2>2 DEF Collect, StatesOK
<1>4. CASE SkipUnchanged
  BY <1>4 DEF SkipUnchanged, StatesOK
<1>5. CASE QueryOsv
  BY <1>5, <1>answer, <1>names DEF QueryOsv, StatesOK
<1>6. CASE RunNativeAudits
  <2>1. PICK said \in SUBSET Answers("native", late') :
            sources' \subseteq sources \cup said \cup {Status("consistency", "partial", "recent")}
    BY <1>6 DEF RunNativeAudits
  <2>2. \A s \in said : s.source = "native" /\ s.state = Fresh(s.said, s.stamp)
    BY <1>answer, <1>names
  <2>3. Beside(Status("consistency", "partial", "recent"))
    BY DEF Beside, Status
  <2> QED BY <1>6, <2>1, <2>2, <2>3 DEF RunNativeAudits, StatesOK, Beside
<1>7. CASE FetchKev
  BY <1>7, <1>answer, <1>names DEF FetchKev, StatesOK
<1>8. CASE LoadReachability \/ BuildFindings \/ Enrich \/ MakeDecisions \/ Finish
  <2>1. inventoryStatuses' = inventoryStatuses
    BY <1>8 DEF LoadReachability, BuildFindings, Enrich, MakeDecisions, Finish
  <2> QED BY <1>8, <2>1, LaterSources DEF StatesOK, Beside
<1>9. CASE UNCHANGED vars
  BY <1>9 DEF vars, StatesOK
<1> QED BY <1>1, <1>2, <1>3, <1>4, <1>5, <1>6, <1>7, <1>8, <1>9 DEF Next

\* Every step keeps the evidence: what a source was asked for stays answered.
LEMMA EvidenceStep == ASSUME TypeOK, EvidenceOK, [Next]_vars PROVE EvidenceOK'
<1>late. late' \in BOOLEAN
  BY DEF TypeOK, Next, vars, Invalid, ClockFails, Collect, SkipUnchanged, QueryOsv,
         RunNativeAudits, FetchKev, LoadReachability, BuildFindings, Enrich, MakeDecisions,
         Finish, Then
<1>names. {"osv", "native", "kev"} \subseteq Sources
  BY DEF Sources
<1>answer. \A source \in Sources : \A s \in Answers(source, late') : s.source = source
  BY AnswerType, <1>late
<1>1. CASE Invalid \/ ClockFails
  BY <1>1 DEF Invalid, ClockFails, EvidenceOK, Through
<1>2. CASE Collect
  BY <1>2 DEF Collect, Then, EvidenceOK, Through
<1>3. CASE SkipUnchanged
  BY <1>3 DEF SkipUnchanged, Matches, EvidenceOK, Through
<1>4. CASE QueryOsv
  <2>1. PICK answer \in SUBSET OsvRecords, s \in Answers("osv", late') :
            advisories' = answer /\ sources' = {s}
    BY <1>4 DEF QueryOsv
  <2>2. s.source = "osv"
    BY <1>answer, <1>names
  <2> QED BY <1>4, <2>1, <2>2 DEF QueryOsv, Then, EvidenceOK, Through, Answered
<1>5. CASE RunNativeAudits
  <2> DEFINE disagree == Status("consistency", "partial", "recent")
  <2>1. PICK answer \in SUBSET NativeRecords, said \in SUBSET Answers("native", late') :
            /\ advisories' = advisories \cup answer
            /\ sources' = sources \cup said \cup
                  {s \in {disagree} : Contradicts(answer, {t.state : t \in said})}
    BY <1>5 DEF RunNativeAudits
  <2>2. \A s \in said : s.source = "native"
    BY <1>answer, <1>names
  <2>3. disagree.source = "consistency"
    BY DEF Status
  <2>4. pc = "native" /\ pc' = "kev" /\ config' = config
    BY <1>5 DEF RunNativeAudits, Then
  <2>5. advisories \subseteq OsvRecords /\ Answered("native") = {} /\ Answered("osv") # {}
    BY <2>4 DEF EvidenceOK, Through
  <2>6. Answered("native")' = said /\ Answered("osv")' # {}
    BY <2>1, <2>2, <2>3, <2>5 DEF Answered
  <2>7. (advisories \cap NativeRecords)' = answer
    BY <2>1, <2>5, AuditRunAssumption
  <2>8. NativeStates' = {t.state : t \in said}
    BY <2>6 DEF NativeStates
  <2>9. disagree \in sources' \/ ~Contradicts(advisories \cap NativeRecords, NativeStates)'
    BY <2>1, <2>7, <2>8 DEF Contradicts
  <2> QED BY <2>4, <2>6, <2>9 DEF EvidenceOK, Through
<1>6. CASE FetchKev
  <2>1. PICK s \in Answers("kev", late') : sources' = sources \cup {s}
    BY <1>6 DEF FetchKev
  <2>2. s.source = "kev"
    BY <1>answer, <1>names
  <2>3. Answered("native")' = Answered("native") /\ Answered("osv")' = Answered("osv")
        /\ Answered("kev")' # {}
    BY <2>1, <2>2 DEF Answered
  <2>4. pc = "kev" /\ pc' = "reachability" /\ config' = config /\ advisories' = advisories
    BY <1>6 DEF FetchKev, Then
  <2>5. NativeStates' = NativeStates
    BY <2>3 DEF NativeStates
  <2>6. \/ Status("consistency", "partial", "recent") \in sources'
        \/ ~Contradicts(advisories \cap NativeRecords, NativeStates)'
    BY <2>1, <2>4, <2>5 DEF EvidenceOK, Through, Contradicts
  <2> QED BY <2>3, <2>4, <2>6 DEF EvidenceOK, Through
<1>7. CASE LoadReachability \/ BuildFindings \/ Enrich \/ MakeDecisions \/ Finish
  <2>1. Answered("osv")' = Answered("osv") /\ Answered("kev")' = Answered("kev")
        /\ NativeStates' = NativeStates
    BY <1>7, LaterAnswers DEF NativeStates
  <2>2. advisories' = advisories /\ config' = config /\ sources \subseteq sources'
    BY <1>7, LaterSources DEF LoadReachability, BuildFindings, Enrich, MakeDecisions, Finish,
       evidence
  <2>3. \/ /\ pc \in {"reachability", "build", "enrich"}
           /\ pc' \in {"build", "enrich", "finish"}
        \/ pc = "finish" /\ pc' = "done"
    BY <1>7 DEF LoadReachability, BuildFindings, Enrich, MakeDecisions, Finish, Then
  <2>4. /\ Through({"native", "kev", "reachability", "build", "enrich"})'
              => Through({"native", "kev", "reachability", "build", "enrich"})
        /\ Through({"reachability", "build", "enrich"})'
              => Through({"reachability", "build", "enrich"})
        /\ Through({"kev", "reachability", "build", "enrich"})'
              => Through({"kev", "reachability", "build", "enrich"})
    BY <2>2, <2>3 DEF Through
  <2>5. Contradicts(advisories \cap NativeRecords, NativeStates)'
            = Contradicts(advisories \cap NativeRecords, NativeStates)
    BY <2>1, <2>2 DEF Contradicts
  <2>6. ASSUME pc' = "done", gate' \notin {"unavailable", "invalid"}
        PROVE  gate' = Gate(decisions)' /\ report' = gate'
    <3>1. Finish
      BY <1>7, <2>3, <2>6 DEF LoadReachability, BuildFindings, Enrich, MakeDecisions, Then
    <3>2. gate' = Gate(decisions) /\ report' = gate' /\ UNCHANGED sources
      BY <2>6, <3>1 DEF Finish
    <3>3. Gate(decisions)' = Gate(decisions)
      BY <3>1, <3>2 DEF Finish, evidence, Gate, Unavailable, HasGap, Required
    <3> QED BY <3>2, <3>3
  <2> QED BY <2>1, <2>2, <2>3, <2>4, <2>5, <2>6 DEF EvidenceOK
<1>8. CASE UNCHANGED vars
  <2>1. Gate(decisions)' = Gate(decisions)
    BY <1>8 DEF vars, Gate, Unavailable, HasGap, Required
  <2> QED BY <1>8, <2>1 DEF vars, EvidenceOK, Through, Answered, NativeStates, Contradicts
<1> QED BY <1>1, <1>2, <1>3, <1>4, <1>5, <1>6, <1>7, <1>8 DEF Next

\* The evidence holds at the start.
LEMMA EvidenceInit == Init => EvidenceInv
<1> SUFFICES ASSUME Init PROVE EvidenceInv
  OBVIOUS
<1>1. TypeOK
  BY TypingInit DEF Typed
<1> QED BY <1>1 DEF Init, EvidenceInv, StatesOK, EvidenceOK, Through

\* A verdict that is neither unavailable nor invalid rests on evidence that was whole and of
\* the present (run_audit, _fresh_status, _native_consistency_statuses, gate_result).
THEOREM VerdictIsEvidenced == Spec => []CleanIsEvidenced
<1>1. Typed /\ EvidenceInv /\ [Next]_vars => (Typed /\ EvidenceInv)'
  BY TypingStep, StatesStep, EvidenceStep DEF EvidenceInv, Typed
<1>2. Spec => [](Typed /\ EvidenceInv)
  BY <1>1, TypingInit, EvidenceInit, PTL DEF Spec
<1>3. EvidenceInv => CleanIsEvidenced
  BY EvidenceSuffices
<1> QED BY <1>2, <1>3, PTL

------------------------------------------------------------------------------
(* Findings and decisions *)

\* A finding is the one of the primary evidence, up to a severity that was raised.
Raised(f, primary) ==
    /\ f.package = primary.package /\ f.id = primary.id /\ f.ids = primary.ids
    /\ f.withdrawn = primary.withdrawn /\ f.fixed = primary.fixed
    /\ f.kev = primary.kev /\ f.unreachable = primary.unreachable
    /\ primary.severity = "high" => f.severity = "high"

FindingsOK ==
    /\ pc \in {"start", "collected"} \/ gate = "invalid" => advisories = {}
    /\ pc \in {"start", "collected", "native", "kev", "reachability", "build"} => findings = <<>>
    /\ pc \in {"enrich", "finish", "done"} =>
          /\ DOMAIN findings = FoundKeys
          /\ \A k \in DOMAIN findings : Raised(findings[k], PrimaryFindings[k])
    /\ pc \in {"finish", "done"} =>
          \A k \in DOMAIN decisions :
              decisions[k].decision = Classify(findings[k], config.policy).decision
    /\ pc # "done" => gate = "none"

AuditInv == Typed /\ EvidenceInv /\ FindingsOK

\* The statements about the findings, each of the evidence of this moment.
SameEvidence ==
    /\ advisories' = advisories /\ inventory' = inventory /\ kevIds' = kevIds
    /\ unreachable' = unreachable

\* With the same evidence the primary findings are the same.
LEMMA SameFindings ==
    ASSUME SameEvidence
    PROVE  FoundKeys' = FoundKeys /\ PrimaryFindings' = PrimaryFindings
<1>1. \A p : GroupsFor(p)' = GroupsFor(p)
  BY DEF SameEvidence, GroupsFor, Correlate
<1>2. FoundKeys' = FoundKeys
  BY <1>1 DEF SameEvidence, FoundKeys
<1>3. \A k : GroupOf(k)' = GroupOf(k)
  BY <1>1 DEF GroupOf
<1>4. \A g, p : Finding(g, p)' = Finding(g, p)
  BY DEF SameEvidence, Finding
<1> QED BY <1>2, <1>3, <1>4 DEF PrimaryFindings

\* Every step keeps the findings those of the primary evidence.
LEMMA FindingsStep == ASSUME TypeOK, FindingsOK, Empty, [Next]_vars PROVE FindingsOK'
<1>blank. DOMAIN <<>> = {}
  OBVIOUS
<1>1. CASE Invalid \/ ClockFails
  <2>1. pc = "start" /\ advisories = {} /\ findings = <<>> /\ decisions = <<>>
    BY <1>1 DEF Invalid, ClockFails, FindingsOK, Empty
  <2>2. SameEvidence /\ findings' = findings /\ decisions' = decisions /\ pc' = "done"
    BY <1>1 DEF Invalid, ClockFails, evidence, SameEvidence
  <2>3. FoundKeys' = {}
    BY <2>1, <2>2, NothingToFind, SameFindings
  <2> QED BY <2>1, <2>2, <2>3, <1>blank DEF FindingsOK, SameEvidence
<1>2. CASE Collect
  BY <1>2 DEF Collect, Then, evidence, FindingsOK
<1>3. CASE SkipUnchanged
  <2>1. pc = "collected" /\ advisories = {} /\ findings = <<>> /\ decisions = <<>> /\ gate = "none"
    BY <1>3 DEF SkipUnchanged, FindingsOK, Empty
  <2>2. /\ SameEvidence /\ pc' = "finish" /\ gate' = gate
        /\ findings' = findings /\ decisions' = decisions
    BY <1>3 DEF SkipUnchanged, evidence, SameEvidence
  <2>3. FoundKeys' = {}
    BY <2>1, <2>2, NothingToFind, SameFindings
  <2> QED BY <2>1, <2>2, <2>3, <1>blank DEF FindingsOK, SameEvidence
<1>4. CASE QueryOsv \/ RunNativeAudits \/ FetchKev \/ LoadReachability
  BY <1>4 DEF QueryOsv, RunNativeAudits, FetchKev, LoadReachability, Then, FindingsOK
<1>5. CASE BuildFindings
  <2>1. /\ SameEvidence /\ pc' = "enrich" /\ gate' = gate /\ pc = "build"
        /\ findings' = PrimaryFindings
    BY <1>5 DEF BuildFindings, Then, SameEvidence
  <2>2. findings' = PrimaryFindings' /\ DOMAIN findings' = FoundKeys'
    BY <2>1, SameFindings DEF PrimaryFindings
  <2> QED BY <2>1, <2>2 DEF FindingsOK, Raised
<1>6. CASE Enrich
  <2>1. PICK t \in pending : Enriches(t)
    BY <1>6, EnrichOne
  <2>2. SameEvidence /\ pc' = "enrich" /\ gate' = gate /\ pc = "enrich"
    BY <1>6 DEF Enrich, Then, SameEvidence
  <2>3. t[1] \in DOMAIN findings
    BY DEF TypeOK
  <2>4. DOMAIN findings' = DOMAIN findings
        /\ \A k \in DOMAIN findings : Raised(findings'[k], findings[k])
    <3>1. CASE UNCHANGED findings
      BY <3>1 DEF Raised
    <3>2. ASSUME NEW severity \in Severities,
                 findings' = [findings EXCEPT ![t[1]].severity = Merge(@, severity)]
          PROVE  DOMAIN findings' = DOMAIN findings
                 /\ \A k \in DOMAIN findings : Raised(findings'[k], findings[k])
      <4> DEFINE k == t[1]
                 high == Merge(findings[k].severity, severity)
                 f == [findings[k] EXCEPT !.severity = high]
      <4>1. findings[k] \in FindingType
        BY <2>3 DEF TypeOK
      <4>2. findings[k].severity = "high" => high = "high"
        BY DEF Merge, MaxSeverity
      <4> HIDE DEF high
      <4>3. Raised(f, findings[k])
        BY <4>1, <4>2 DEF Raised, FindingType
      <4>4. findings' = [findings EXCEPT ![k] = f]
        BY <3>2 DEF high
      <4> HIDE DEF f, k
      <4>5. DOMAIN findings' = DOMAIN findings
            /\ \A l \in DOMAIN findings : findings'[l] = IF l = k THEN f ELSE findings[l]
        BY <4>4
      <4> QED BY <4>3, <4>5 DEF Raised
    <3> QED BY <2>1, <3>1, <3>2 DEF Enriches
  <2>5. FoundKeys' = FoundKeys /\ PrimaryFindings' = PrimaryFindings
    BY <2>2, SameFindings
  <2>6. \A k \in DOMAIN findings : Raised(findings'[k], PrimaryFindings[k])
    BY <2>2, <2>4 DEF FindingsOK, Raised
  <2> QED BY <2>2, <2>4, <2>5, <2>6 DEF FindingsOK
<1>7. CASE MakeDecisions
  <2>1. PICK failed : decisions' = Decide(findings, failed)
    BY <1>7 DEF MakeDecisions
  <2>2. /\ SameEvidence /\ pc' = "finish" /\ gate' = gate /\ pc = "enrich"
        /\ findings' = findings /\ config' = config
    BY <1>7 DEF MakeDecisions, SameEvidence
  <2>3. DOMAIN decisions' = DOMAIN findings
    BY <2>1 DEF Decide
  <2>4. \A k \in DOMAIN decisions' :
            decisions'[k].decision = Classify(findings[k], config.policy).decision
    BY <2>1, <2>3, DecideType
  <2>5. \A k \in DOMAIN decisions' :
            decisions'[k].decision = Classify(findings[k], config.policy).decision'
    BY <2>2, <2>4 DEF Classify, Warn, Promotes
  <2> QED BY <2>2, <2>5, SameFindings DEF FindingsOK, Raised
<1>8. CASE Finish
  <2>1. /\ SameEvidence /\ pc' = "done" /\ pc = "finish" /\ gate' # "invalid"
        /\ findings' = findings /\ config' = config /\ decisions' = decisions
    BY <1>8 DEF Finish, evidence, SameEvidence, Gate
  <2> QED BY <2>1, SameFindings DEF FindingsOK, Raised, Classify, Warn, Promotes
<1>9. CASE UNCHANGED vars
  <2>1. SameEvidence
    BY <1>9 DEF vars, SameEvidence
  <2> QED BY <1>9, <2>1, SameFindings DEF vars, FindingsOK, Raised, Classify, Warn, Promotes
<1> QED BY <1>1, <1>2, <1>3, <1>4, <1>5, <1>6, <1>7, <1>8, <1>9 DEF Next

\* The findings and the evidence hold throughout.
LEMMA AuditInvariant == Spec => []AuditInv
<1>1. Init => AuditInv
  BY TypingInit, EvidenceInit DEF AuditInv, FindingsOK, Init
<1>2. AuditInv /\ [Next]_vars => AuditInv'
  BY TypingStep, StatesStep, EvidenceStep, FindingsStep DEF AuditInv, EvidenceInv, Typed
<1> QED BY <1>1, <1>2, PTL DEF Spec

\* A record in a group that applies to a package is in the finding of that group there.
LEMMA RecordIsFound ==
    ASSUME TypeOK, NEW p \in inventory.packages, NEW r \in advisories,
           NEW g \in Correlate(advisories), r \in g, p \in r.affects,
           r \in OsvRecords \/ Primary(g) = {}
    PROVE  \E k \in FoundKeys : k[1] = p /\ GroupOf(k) = g
<1>1. r \in Evidence(g)
  BY DEF Evidence, Primary
<1>2. Applies(g, p, Cardinality(inventory.packages))
  BY <1>1 DEF Applies
<1>3. g \in GroupsFor(p)
  BY <1>2 DEF GroupsFor
<1>4. <<p, Canonical(g)>> \in FoundKeys /\ GroupOf(<<p, Canonical(g)>>) = g
  BY <1>3, GroupHasKey DEF TypeOK, Records
<1> QED BY <1>4

\* No answer is lost between the sources and the decisions (correlate_advisories,
\* _advisory_applies, _build_findings).
THEOREM AnswersAreKept == Spec => []NothingIsErased
<1>1. ASSUME AuditInv PROVE NothingIsErased
  <2> SUFFICES ASSUME pc = "finish", NEW r \in advisories,
                      NEW p \in r.affects \cap inventory.packages
               PROVE  \/ \E k \in DOMAIN findings : k[1] = p /\ r.ids \subseteq findings[k].ids
                      \/ r \in NativeRecords /\ \E group \in Correlate(advisories) :
                             /\ r \in group /\ Primary(group) # {}
                             /\ \A s \in Primary(group) : p \notin s.affects
    BY DEF NothingIsErased
  <2>0. TypeOK /\ FindingsOK
    BY <1>1 DEF AuditInv, Typed
  <2>1. PICK g \in Correlate(advisories) : r \in g
    BY <2>0, GroupOfRecord DEF TypeOK, Records
  <2>2. ASSUME NEW s \in g, s \in advisories, p \in s.affects, s \in OsvRecords \/ Primary(g) = {}
        PROVE  \E k \in DOMAIN findings : k[1] = p /\ r.ids \subseteq findings[k].ids
    <3>1. PICK k \in FoundKeys : k[1] = p /\ GroupOf(k) = g
      BY <2>0, <2>2, RecordIsFound
    <3>2. k \in DOMAIN findings /\ findings[k].ids = PrimaryFindings[k].ids
      BY <2>0, <3>1 DEF FindingsOK, Raised
    <3>3. PrimaryFindings[k].ids = IdsOf(g)
      BY <3>1 DEF PrimaryFindings, Finding
    <3>4. r.ids \subseteq IdsOf(g)
      BY <2>1 DEF IdsOf
    <3> QED BY <3>1, <3>2, <3>3, <3>4
  <2>3. g \subseteq advisories
    BY <2>0, CanonicalIsAnId DEF TypeOK, Records
  <2>4. r \in OsvRecords \cup NativeRecords
    BY <2>0 DEF TypeOK
  <2> QED BY <2>1, <2>2, <2>3, <2>4 DEF Primary
<1> QED BY <1>1, AuditInvariant, PTL

\* Known exploitation of an installed package never ends in exit 0 (classify_finding,
\* gate_result).
THEOREM ExploitationBlocks == Spec => []ExploitedBlocks
<1>1. ASSUME AuditInv PROVE ExploitedBlocks
  <2> SUFFICES ASSUME pc = "done", NEW r \in advisories \cap OsvRecords,
                      NEW p \in r.affects \cap inventory.packages, r.ids \cap kevIds # {},
                      \A group \in Correlate(advisories) :
                          r \in group => \A s \in group : ~s.withdrawn,
                      gate # "unavailable"
               PROVE  gate = "blocked"
    BY DEF ExploitedBlocks
  <2>0. TypeOK /\ FindingsOK /\ EvidenceOK
    BY <1>1 DEF AuditInv, Typed, EvidenceInv
  <2>1. PICK g \in Correlate(advisories) : r \in g
    BY <2>0, GroupOfRecord DEF TypeOK, Records
  <2>2. PICK k \in FoundKeys : k[1] = p /\ GroupOf(k) = g
    BY <2>0, <2>1, RecordIsFound
  <2>3. k \in DOMAIN findings /\ Raised(findings[k], PrimaryFindings[k])
    BY <2>0, <2>2 DEF FindingsOK
  <2>4. PrimaryFindings[k].kev /\ ~PrimaryFindings[k].withdrawn
    <3>1. r.ids \subseteq IdsOf(g) /\ \A s \in g : ~s.withdrawn
      BY <2>1 DEF IdsOf
    <3>2. PrimaryFindings[k] = Finding(g, p)
      BY <2>2 DEF PrimaryFindings
    <3>3. IdsOf(g) \cap kevIds # {}
      BY <3>1
    <3>4. ~ \E s \in g : s.withdrawn
      BY <3>1
    <3>5. /\ PrimaryFindings[k].kev = (IdsOf(g) \cap kevIds # {})
          /\ PrimaryFindings[k].withdrawn = (\E s \in g : s.withdrawn)
      BY <3>2 DEF Finding
    <3> QED BY <3>3, <3>4, <3>5
  <2>5. findings[k].kev /\ ~findings[k].withdrawn
    BY <2>3, <2>4 DEF Raised
  <2>6. Classify(findings[k], config.policy).decision = "block"
    BY <2>5 DEF Classify
  <2>7. k \in DOMAIN decisions /\ decisions[k].decision = "block"
    BY <2>0, <2>3, <2>6 DEF FindingsOK, TypeOK
  <2>8. gate # "invalid"
    BY <2>0 DEF FindingsOK
  <2>9. gate = Gate(decisions)
    BY <2>0, <2>8 DEF EvidenceOK
  <2> QED BY <2>7, <2>9 DEF Gate
<1> QED BY <1>1, AuditInvariant, PTL

\* A raised severity and a project's policy take no decision back.
LEMMA ClassifyRises ==
    ASSUME NEW f, NEW primary, Raised(f, primary), NEW policy,
           f.severity \in Severities, primary.severity \in Severities
    PROVE  Rank(Classify(f, policy).decision) >= Rank(Classify(primary, DefaultPolicy).decision)
<1>1. \A reason, severity : Warn(DefaultPolicy, reason, severity).decision = "warn"
  BY DEF Warn, Promotes, DefaultPolicy
<1>2. \A reason, severity : Warn(policy, reason, severity).decision \in {"warn", "block"}
  BY DEF Warn
<1>3. Rank("excluded") = 0 /\ Rank("warn") = 1 /\ Rank("block") = 2
  BY DEF Rank
<1> DEFINE strict == Classify(f, policy).decision
           loose == Classify(primary, DefaultPolicy).decision
<1>4. CASE f.withdrawn
  BY <1>3, <1>4 DEF Raised, Classify
<1>5. CASE ~f.withdrawn /\ f.kev
  BY <1>3, <1>5 DEF Raised, Classify
<1>6. CASE ~f.withdrawn /\ ~f.kev
  <2>1. ~primary.withdrawn /\ ~primary.kev
    BY <1>6 DEF Raised
  <2>2. strict \in {"warn", "block"} /\ loose \in {"warn", "block"}
    BY <1>1, <1>2, <1>6, <2>1 DEF Classify
  <2>3. ASSUME loose = "block" PROVE strict = "block"
    <3>1. /\ primary.fixed /\ primary.package \notin Development /\ ~primary.unreachable
          /\ primary.severity = "high"
      BY <1>1, <2>1, <2>3 DEF Classify
    <3>2. f.fixed /\ f.package \notin Development /\ ~f.unreachable /\ f.severity = "high"
      BY <3>1 DEF Raised
    <3> QED BY <1>6, <3>2 DEF Classify
  <2> HIDE DEF strict, loose
  <2>4. Rank(strict) >= Rank(loose)
    BY <1>3, <2>2, <2>3
  <2> QED BY <2>4 DEF strict, loose
<1> QED BY <1>4, <1>5, <1>6

\* Neither the project's policy nor a secondary source talks a finding down
\* (classify_finding, _warning_or_stricter, _merge_secondary_enrichment).
THEOREM DecisionsRise == Spec => []NeverLoosened
<1>1. ASSUME AuditInv PROVE NeverLoosened
  <2> SUFFICES ASSUME pc = "finish", NEW k \in DOMAIN decisions
               PROVE  Rank(decisions[k].decision)
                          >= Rank(Classify(PrimaryFindings[k], DefaultPolicy).decision)
    BY DEF NeverLoosened
  <2>0. TypeOK /\ FindingsOK
    BY <1>1 DEF AuditInv, Typed
  <2>1. k \in DOMAIN findings /\ k \in FoundKeys /\ Raised(findings[k], PrimaryFindings[k])
        /\ decisions[k].decision = Classify(findings[k], config.policy).decision
    BY <2>0 DEF FindingsOK, TypeOK
  <2>2. findings[k] \in FindingType /\ PrimaryFindings[k] \in FindingType
    BY <2>0, <2>1, FoundType DEF TypeOK, Records
  <2>3. findings[k].severity \in Severities /\ PrimaryFindings[k].severity \in Severities
    BY <2>2 DEF FindingType
  <2> QED BY <2>1, <2>3, ClassifyRises
<1> QED BY <1>1, AuditInvariant, PTL
=============================================================================
