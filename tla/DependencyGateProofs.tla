------------------------ MODULE DependencyGateProofs ------------------------
(***************************************************************************)
(* What the evidence gate of spec-check.py lets through, for every window, *)
(* every number of audits, edits and commits, and every set of contents.   *)
(***************************************************************************)
EXTENDS DependencyGate, TLAPS

Modes == {"change", "main", "release"}
Report == [mode : Modes, time : Nat, revision : Nat, fingerprint : Locks, result : Results]
Opened == [mode : Modes, time : Nat, revision : Nat]
Audited == [what : {"audit"}, report : Report, clean : BOOLEAN]
Links == {Latest, Pre, Post} \cup {Retained(t) : t \in Nat}
Record == [link : Links, claim : Report, reviewed : BOOLEAN]

(* What the variables hold. *)
TypesOK ==
    /\ leaf \in Modes /\ pc \in {"plan", "work", "passed"}
    /\ clock \in Nat /\ head \in Nat /\ lock \in Locks
    /\ tip \in [lock : Locks, record : BOOLEAN]
    /\ Latest \in DOMAIN files /\ DOMAIN files \subseteq Links
    /\ files \in [DOMAIN files -> Report \cup {NoReport}]
    /\ \/ audit = [at |-> "idle"]
       \/ audit \in [at : {"started"}, report : Opened]
       \/ audit \in [at : {"collected"}, report : Report]
    /\ text \in [pre : Record \cup {NoRecord}, post : Record \cup {NoRecord}]
    /\ \/ gate = [at |-> "idle"]
       \/ gate \in [at : {"read"}, seen : [{"pre", "post"} -> Report \cup {NoReport}]]
       \/ gate \in [at : {"timed", "judged"}, now : Nat,
                    seen : [{"pre", "post"} -> Report \cup {NoReport}]]
    /\ log \in Seq(Audited \cup {EditMark})

Logged(r) == \E i \in Audits : log[i].report = r

(* Everything that passes for a report was read by an audit, a record links *)
(* a report that is there, and the gate only opens on completed records.    *)
SourcesAreAudits ==
    /\ \A n \in DOMAIN files : files[n] # NoReport => Logged(files[n])
    /\ audit.at = "collected" => Logged(audit.report)
    /\ gate.at # "idle" => \A s \in {"pre", "post"} :
          gate.seen[s] # NoReport => Logged(gate.seen[s])
    /\ gate.at # "idle" => \A s \in Slots : text[s] # NoRecord
    /\ \A s \in {"pre", "post"} : text[s] # NoRecord =>
          text[s].link \in DOMAIN files /\ files[text[s].link] # NoReport

(* The audits of the log are in the order of their times, and the lock      *)
(* differs between two of them, or since one, only by an edit after it.     *)
LogIsOrdered ==
    /\ \A i \in Audits : log[i].report.time <= clock
    /\ audit.at = "started" =>
          /\ audit.report.time <= clock
          /\ \A i \in Audits : log[i].report.time <= audit.report.time
    /\ \A i, k \in Audits : i < k => log[i].report.time <= log[k].report.time
    /\ \A i, k \in Audits :
          i < k /\ log[i].report.fingerprint # log[k].report.fingerprint =>
              \E j \in DOMAIN log : i < j /\ j < k /\ log[j] = EditMark
    /\ \A i \in Audits : log[i].report.fingerprint # lock =>
          \E j \in DOMAIN log : i < j /\ log[j] = EditMark

(* No report and no record is of a commit to come, a record in the tip is   *)
(* of an earlier one, and what an audit read of a clean tree is the lock of *)
(* its commit.                                                              *)
RevisionsArePast ==
    leaf # "change" =>
        /\ audit.at = "started" => audit.report.revision <= head
        /\ \A i \in Audits :
              /\ log[i].report.revision <= head
              /\ log[i].clean /\ log[i].report.revision = head =>
                    log[i].report.fingerprint = tip.lock
        /\ text.post # NoRecord => text.post.claim.revision <= head
        /\ tip.record => text.post # NoRecord /\ text.post.claim.revision < head

PassedIsJudged ==
    /\ Passed => gate.at = "judged"
    /\ gate.at = "judged" => Passed

Promises == ChangeIsBracketed /\ DeliveryIsAudited /\ RecordIsNeverCommitted

IInv == /\ TypesOK /\ SourcesAreAudits /\ LogIsOrdered /\ RevisionsArePast
        /\ PassedIsJudged /\ Promises

LEMMA Starts == Init => IInv
<1> SUFFICES ASSUME Init PROVE IInv
  OBVIOUS
<1>1. TypesOK
  BY GateAssumption
  DEF Init, TypesOK, NoText, NoReport, NoReports, Modes, Links
<1>2. Audits = {}
  BY DEF Init, Audits
<1>3. SourcesAreAudits /\ LogIsOrdered /\ RevisionsArePast
  BY <1>2 DEF Init, SourcesAreAudits, LogIsOrdered, RevisionsArePast, NoText, NoRecord
<1>4. PassedIsJudged /\ Promises
  BY DEF Init, PassedIsJudged, Promises, Passed, ChangeIsBracketed, DeliveryIsAudited,
         RecordIsNeverCommitted
<1> QED
  BY <1>1, <1>3, <1>4 DEF IInv

-----------------------------------------------------------------------------
(* Steps that leave the log alone. *)

LEMMA AuditsOfSame == ASSUME UNCHANGED log PROVE Audits' = Audits
  BY DEF Audits

LEMMA LoggedStays == ASSUME NEW r, UNCHANGED log, Logged(r) PROVE Logged(r)'
  BY DEF Audits, Logged

(* Before it is let through nothing is promised. *)
LEMMA NotPassed ==
    ASSUME ~Passed' PROVE Promises'
  BY DEF Promises, Passed, ChangeIsBracketed, DeliveryIsAudited, RecordIsNeverCommitted

LEMMA PlanKeeps == ASSUME IInv, Plan PROVE IInv'
<1>1. UNCHANGED workVars /\ pc = "plan" /\ pc' \in {"plan", "work"}
  BY DEF Plan, Follow
<1>2. TypesOK' /\ PassedIsJudged' /\ ~Passed'
  BY <1>1 DEF IInv, TypesOK, workVars, PassedIsJudged, Passed
<1>3. Audits' = Audits
  BY <1>1, AuditsOfSame DEF workVars
<1>4. SourcesAreAudits' /\ LogIsOrdered' /\ RevisionsArePast'
  BY <1>1, <1>3
  DEF IInv, workVars, SourcesAreAudits, Slots, LogIsOrdered, RevisionsArePast, Logged
<1> QED
  BY <1>2, <1>4, NotPassed DEF IInv

LEMMA AuditStartKeeps == ASSUME IInv, AuditStart PROVE IInv'
<1>1. PICK m \in {leaf, "change"}, r \in Revisions :
         audit' = [at |-> "started", report |-> [mode |-> m, time |-> clock, revision |-> r]]
  BY DEF AuditStart
<1>2. /\ UNCHANGED <<leaf, pc, clock, lock, head, tip, files, text, gate, log>> /\ pc = "work"
      /\ Audits' = Audits
  BY AuditsOfSame DEF AuditStart
<1>3. r \in Nat /\ (leaf # "change" => r <= head)
  BY GateAssumption DEF Revisions, IInv, TypesOK
<1>4. TypesOK' /\ PassedIsJudged' /\ ~Passed'
  BY <1>1, <1>2, <1>3 DEF IInv, TypesOK, PassedIsJudged, Passed, Opened, Modes
<1>5. SourcesAreAudits' /\ LogIsOrdered' /\ RevisionsArePast'
  BY <1>1, <1>2, <1>3
  DEF IInv, TypesOK, SourcesAreAudits, Slots, LogIsOrdered, RevisionsArePast, Logged
<1> QED
  BY <1>4, <1>5, NotPassed DEF IInv

LEMMA TickKeeps == ASSUME IInv, Tick PROVE IInv'
<1>1. /\ UNCHANGED <<leaf, pc, lock, head, tip, files, audit, text, gate, log>> /\ pc = "work"
      /\ clock' = clock + 1 /\ Audits' = Audits
  BY AuditsOfSame DEF Tick
<1>2. TypesOK' /\ PassedIsJudged' /\ ~Passed'
  BY <1>1 DEF IInv, TypesOK, PassedIsJudged, Passed
<1>3. \A i \in Audits : log[i].report.time \in Nat
  BY DEF IInv, TypesOK, Audits, Audited, Report
<1>4. SourcesAreAudits' /\ RevisionsArePast'
  BY <1>1 DEF IInv, SourcesAreAudits, Slots, RevisionsArePast, Logged
<1>5. LogIsOrdered'
  BY <1>1, <1>3 DEF IInv, TypesOK, LogIsOrdered, Opened
<1> QED
  BY <1>2, <1>4, <1>5, NotPassed DEF IInv

LEMMA CommitKeeps == ASSUME IInv, Commit PROVE IInv'
<1>1. /\ UNCHANGED <<leaf, pc, clock, lock, files, audit, text, gate, log>> /\ pc = "work"
      /\ head' = head + 1 /\ tip' = [lock |-> lock, record |-> text.post # NoRecord]
      /\ Audits' = Audits
  BY AuditsOfSame DEF Commit
<1>2. TypesOK' /\ PassedIsJudged' /\ ~Passed'
  BY <1>1 DEF IInv, TypesOK, PassedIsJudged, Passed
<1>3. \A i \in Audits : log[i].report.revision \in Nat
  BY DEF IInv, TypesOK, Audits, Audited, Report
<1>4. SourcesAreAudits' /\ LogIsOrdered'
  BY <1>1 DEF IInv, SourcesAreAudits, Slots, LogIsOrdered, Logged
<1>5. RevisionsArePast'
  BY <1>1, <1>3 DEF IInv, TypesOK, RevisionsArePast, Opened, Record, Report
<1> QED
  BY <1>2, <1>4, <1>5, NotPassed DEF IInv

LEMMA KeepKeeps == ASSUME IInv, Keep PROVE IInv'
<1>1. PICK n \in Kept :
         files' = [m \in DOMAIN files \cup {n} |-> IF m = n THEN files[Latest] ELSE files[m]]
  BY DEF Keep
<1>2. /\ UNCHANGED <<leaf, pc, clock, lock, head, tip, audit, text, gate, log>> /\ pc = "work"
      /\ files[Latest] # NoReport /\ Audits' = Audits
  BY AuditsOfSame DEF Keep
<1>3. TypesOK' /\ PassedIsJudged' /\ ~Passed'
  BY <1>1, <1>2, GateAssumption DEF IInv, TypesOK, PassedIsJudged, Passed, Links
<1>4. SourcesAreAudits'
  BY <1>1, <1>2 DEF IInv, TypesOK, SourcesAreAudits, Slots, Logged
<1>5. LogIsOrdered' /\ RevisionsArePast'
  BY <1>2 DEF IInv, LogIsOrdered, RevisionsArePast
<1> QED
  BY <1>3, <1>4, <1>5, NotPassed DEF IInv

-----------------------------------------------------------------------------
(* Steps that write the log. *)

LEMMA Appended ==
    ASSUME NEW e \in Audited \cup {EditMark}, log \in Seq(Audited \cup {EditMark}),
           log' = Append(log, e), NEW last, last = Len(log) + 1
    PROVE  /\ last \in Nat /\ DOMAIN log' = DOMAIN log \cup {last} /\ log'[last] = e
           /\ \A i \in DOMAIN log : i \in Nat /\ i < last /\ log'[i] = log[i]
           /\ Audits' = Audits \cup (IF e = EditMark THEN {} ELSE {last})
           /\ log' \in Seq(Audited \cup {EditMark})
<1>1. /\ Len(log) \in Nat /\ DOMAIN log = 1..Len(log) /\ Len(log') = Len(log) + 1
      /\ log' \in Seq(Audited \cup {EditMark}) /\ log'[Len(log) + 1] = e
      /\ \A i \in 1..Len(log) : log'[i] = log[i]
  OBVIOUS
<1>2. DOMAIN log' = 1..Len(log) + 1
  BY <1>1
<1> QED
  BY <1>1, <1>2 DEF Audits

LEMMA LoggedOn ==
    ASSUME NEW e \in Audited \cup {EditMark}, log \in Seq(Audited \cup {EditMark}),
           log' = Append(log, e), NEW r, Logged(r)
    PROVE  Logged(r)'
<1>1. PICK i \in Audits : log[i].report = r
  BY DEF Logged
<1>2. i \in DOMAIN log
  BY <1>1 DEF Audits
<1>3. i \in Audits' /\ log'[i] = log[i]
  BY <1>1, <1>2, Appended
<1> QED
  BY <1>1, <1>3 DEF Logged

LEMMA AuditCollectKeeps == ASSUME IInv, AuditCollect PROVE IInv'
<1>1. PICK s \in Results :
         LET r == [mode |-> audit.report.mode, time |-> audit.report.time,
                   revision |-> audit.report.revision, fingerprint |-> lock, result |-> s]
         IN  /\ audit' = [at |-> "collected", report |-> r]
             /\ log' = Append(log, [what |-> "audit", report |-> r,
                                    clean |-> r.revision = head /\ lock = tip.lock])
  BY DEF AuditCollect
<1> DEFINE r == [mode |-> audit.report.mode, time |-> audit.report.time,
                 revision |-> audit.report.revision, fingerprint |-> lock, result |-> s]
           e == [what |-> "audit", report |-> r,
                 clean |-> r.revision = head /\ lock = tip.lock]
           last == Len(log) + 1
<1>2. /\ UNCHANGED <<leaf, pc, clock, lock, head, tip, files, text, gate>> /\ pc = "work"
      /\ audit.at = "started" /\ audit.report \in Opened
      /\ log \in Seq(Audited \cup {EditMark})
  BY DEF AuditCollect, IInv, TypesOK
<1>3. r \in Report
  BY <1>2 DEF Report, Opened, IInv, TypesOK
<1>4. e \in Audited /\ e # EditMark /\ e.report = r
  BY <1>3 DEF Audited, EditMark
<1>5. /\ last \in Nat /\ DOMAIN log' = DOMAIN log \cup {last} /\ log'[last] = e
      /\ \A i \in DOMAIN log : i \in Nat /\ i < last /\ log'[i] = log[i]
      /\ Audits' = Audits \cup {last} /\ log' \in Seq(Audited \cup {EditMark})
  <2>1. e \in Audited \cup {EditMark} /\ last = Len(log) + 1 /\ log' = Append(log, e)
    BY <1>1, <1>4
  <2> HIDE DEF r, e, last
  <2>2. /\ last \in Nat /\ DOMAIN log' = DOMAIN log \cup {last} /\ log'[last] = e
        /\ \A i \in DOMAIN log : i \in Nat /\ i < last /\ log'[i] = log[i]
        /\ Audits' = Audits \cup (IF e = EditMark THEN {} ELSE {last})
        /\ log' \in Seq(Audited \cup {EditMark})
    BY <1>2, <2>1, Appended
  <2> QED
    BY <1>4, <2>2
<1>6. \A q : Logged(q) => Logged(q)'
  BY <1>1, <1>2, <1>4, LoggedOn
<1>7. /\ audit' = [at |-> "collected", report |-> r] /\ Audits \subseteq DOMAIN log
      /\ r.time = audit.report.time /\ r.revision = audit.report.revision
      /\ r.fingerprint = lock
  BY <1>1 DEF Audits
<1>8. e.clean => r.fingerprint = tip.lock
  OBVIOUS
<1> HIDE DEF r, e, last
<1>9. \E i \in Audits' : log'[i].report = r
  BY <1>4, <1>5
<1>10. TypesOK' /\ PassedIsJudged' /\ ~Passed'
  BY <1>2, <1>3, <1>5, <1>7 DEF IInv, TypesOK, PassedIsJudged, Passed
<1>11. SourcesAreAudits'
  <2>1. /\ \A n \in DOMAIN files : files[n] # NoReport => Logged(files[n])
        /\ gate.at # "idle" => \A t \in {"pre", "post"} :
              gate.seen[t] # NoReport => Logged(gate.seen[t])
    BY DEF IInv, SourcesAreAudits, Slots
  <2>2. Logged(audit.report)'
    BY <1>7, <1>9 DEF Logged
  <2>3. \A n \in DOMAIN files : files[n] # NoReport => Logged(files[n])'
    BY <1>2, <1>6, <2>1
  <2>4. gate.at # "idle" => \A t \in {"pre", "post"} :
              gate.seen[t] # NoReport => Logged(gate.seen[t])'
    BY <1>2, <1>6, <2>1
  <2> QED
    BY <1>2, <2>2, <2>3, <2>4 DEF IInv, SourcesAreAudits, Slots
<1>12. LogIsOrdered'
  <2>1. /\ \A i \in Audits : log[i].report.time <= r.time
        /\ r.time <= clock
    BY <1>2, <1>7 DEF IInv, LogIsOrdered
  <2>2. \A i, k \in Audits : i < k => log[i].report.time <= log[k].report.time
    BY DEF IInv, LogIsOrdered
  <2>3. \A i, k \in Audits' : i < k => log'[i].report.time <= log'[k].report.time
    BY <1>4, <1>5, <1>7, <2>1, <2>2
  <2>4. ASSUME NEW i \in Audits', NEW k \in Audits', i < k,
               log'[i].report.fingerprint # log'[k].report.fingerprint
        PROVE  \E j \in DOMAIN log' : i < j /\ j < k /\ log'[j] = EditMark
    <3>1. i \in Audits /\ log'[i] = log[i]
      BY <1>5, <1>7, <2>4
    <3>2. CASE k \in Audits
      BY <1>5, <1>7, <2>4, <3>1, <3>2 DEF IInv, LogIsOrdered
    <3>3. CASE k = last
      <4>1. log[i].report.fingerprint # lock
        BY <1>4, <1>5, <1>7, <2>4, <3>1, <3>3
      <4>2. PICK j \in DOMAIN log : i < j /\ log[j] = EditMark
        BY <3>1, <4>1 DEF IInv, LogIsOrdered
      <4> QED
        BY <1>5, <3>3, <4>2
    <3> QED
      BY <1>5, <3>2, <3>3
  <2>5. ASSUME NEW i \in Audits', log'[i].report.fingerprint # lock'
        PROVE  \E j \in DOMAIN log' : i < j /\ log'[j] = EditMark
    <3>1. i \in Audits /\ log'[i] = log[i]
      BY <1>2, <1>4, <1>5, <1>7, <2>5
    <3>2. PICK j \in DOMAIN log : i < j /\ log[j] = EditMark
      BY <1>2, <2>5, <3>1 DEF IInv, LogIsOrdered
    <3> QED
      BY <1>5, <3>2
  <2>6. \A i \in Audits' : log'[i].report.time <= clock'
    BY <1>2, <1>4, <1>5, <1>7, <2>1 DEF IInv, LogIsOrdered
  <2> QED
    BY <1>7, <2>3, <2>4, <2>5, <2>6 DEF LogIsOrdered
<1>13. RevisionsArePast'
  BY <1>2, <1>4, <1>5, <1>7, <1>8 DEF IInv, RevisionsArePast
<1> QED
  BY <1>10, <1>11, <1>12, <1>13, NotPassed DEF IInv

LEMMA EditKeeps == ASSUME IInv, Edit PROVE IInv'
<1> DEFINE last == Len(log) + 1
<1>1. /\ UNCHANGED <<leaf, pc, clock, head, tip, files, audit, text, gate>> /\ pc = "work"
      /\ lock' \in Locks /\ log' = Append(log, EditMark)
      /\ log \in Seq(Audited \cup {EditMark})
  BY DEF Edit, IInv, TypesOK
<1>2. /\ last \in Nat /\ DOMAIN log' = DOMAIN log \cup {last} /\ log'[last] = EditMark
      /\ \A i \in DOMAIN log : i \in Nat /\ i < last /\ log'[i] = log[i]
      /\ Audits' = Audits /\ log' \in Seq(Audited \cup {EditMark})
  <2>1. EditMark \in Audited \cup {EditMark} /\ last = Len(log) + 1
    OBVIOUS
  <2> HIDE DEF last
  <2>2. /\ last \in Nat /\ DOMAIN log' = DOMAIN log \cup {last} /\ log'[last] = EditMark
        /\ \A i \in DOMAIN log : i \in Nat /\ i < last /\ log'[i] = log[i]
        /\ Audits' = Audits \cup (IF EditMark = EditMark THEN {} ELSE {last})
        /\ log' \in Seq(Audited \cup {EditMark})
    BY <1>1, <2>1, Appended
  <2> QED
    BY <2>2
<1>3. \A q : Logged(q) => Logged(q)'
  BY <1>1, LoggedOn
<1>4. Audits \subseteq DOMAIN log
  BY DEF Audits
<1> HIDE DEF last
<1>5. TypesOK' /\ PassedIsJudged' /\ ~Passed'
  BY <1>1, <1>2 DEF IInv, TypesOK, PassedIsJudged, Passed
<1>6. SourcesAreAudits'
  BY <1>1, <1>3 DEF IInv, SourcesAreAudits, Slots
<1>7. LogIsOrdered' /\ RevisionsArePast'
  BY <1>1, <1>2, <1>4 DEF IInv, LogIsOrdered, RevisionsArePast
<1> QED
  BY <1>5, <1>6, <1>7, NotPassed DEF IInv

-----------------------------------------------------------------------------
(* Reports, records and the gate. *)

LEMMA AuditPublishKeeps == ASSUME IInv, AuditPublish PROVE IInv'
<1> DEFINE r == audit.report
           name == Retained(r.time)
           kept == IF r.mode = "change" THEN files
                   ELSE [n \in DOMAIN files \cup {name} |-> IF n = name THEN r ELSE files[n]]
<1>1. /\ UNCHANGED <<leaf, pc, clock, lock, head, tip, text, gate, log>> /\ pc = "work"
      /\ audit.at = "collected" /\ audit' = [at |-> "idle"]
      /\ files' = files \/ files' = [kept EXCEPT ![Latest] = r]
      /\ Audits' = Audits
  BY AuditsOfSame DEF AuditPublish
<1>2. r \in Report /\ r # NoReport
  BY <1>1 DEF IInv, TypesOK, Report, NoReport, Modes
<1>3. /\ DOMAIN files \subseteq DOMAIN files' /\ DOMAIN files' \subseteq Links
      /\ Latest \in DOMAIN files'
      /\ files' \in [DOMAIN files' -> Report \cup {NoReport}]
      /\ \A n \in DOMAIN files : files'[n] \in {files[n], r}
      /\ \A n \in DOMAIN files' \ DOMAIN files : files'[n] = r
  <2>1. /\ Latest \in DOMAIN files /\ files \in [DOMAIN files -> Report \cup {NoReport}]
        /\ DOMAIN files \subseteq Links /\ name \in Links
    BY <1>2 DEF IInv, TypesOK, Links, Report
  <2>2. /\ DOMAIN files \subseteq DOMAIN kept /\ DOMAIN kept \subseteq Links
        /\ kept \in [DOMAIN kept -> Report \cup {NoReport}]
        /\ \A n \in DOMAIN files : kept[n] \in {files[n], r}
        /\ \A n \in DOMAIN kept \ DOMAIN files : kept[n] = r
    BY <1>2, <2>1
  <2> HIDE DEF kept, r, name
  <2> QED
    BY <1>1, <1>2, <2>1, <2>2
<1>4. Logged(r)
  BY <1>1 DEF IInv, SourcesAreAudits, Slots
<1> HIDE DEF r, kept
<1>5. TypesOK' /\ PassedIsJudged' /\ ~Passed'
  BY <1>1, <1>3 DEF IInv, TypesOK, PassedIsJudged, Passed
<1>6. \A n \in DOMAIN files' : files'[n] # NoReport => Logged(files'[n])
  BY <1>3, <1>4 DEF IInv, SourcesAreAudits, Slots
<1>7. SourcesAreAudits'
  BY <1>1, <1>2, <1>3, <1>6, LoggedStays DEF IInv, SourcesAreAudits, Slots, Logged, TypesOK
<1>8. LogIsOrdered' /\ RevisionsArePast'
  BY <1>1 DEF IInv, LogIsOrdered, RevisionsArePast
<1> QED
  BY <1>5, <1>7, <1>8, NotPassed DEF IInv

LEMMA WriteKeeps == ASSUME IInv, Write PROVE IInv'
<1>1. PICK s \in Slots, n \in {m \in DOMAIN files : files[m] # NoReport} :
         text[s] = NoRecord /\ \E c \in Copies(n) : text' = [text EXCEPT ![s] = c]
  BY DEF Write
<1>2. PICK c \in Copies(n) : text' = [text EXCEPT ![s] = c]
  BY <1>1
<1>3. /\ UNCHANGED <<leaf, pc, clock, lock, head, tip, files, audit, gate, log>> /\ pc = "work"
      /\ gate.at = "idle" /\ Audits' = Audits
  BY AuditsOfSame DEF Write
<1>4. files[n] \in Report /\ Logged(files[n])
  BY <1>1 DEF IInv, TypesOK, SourcesAreAudits
<1>5. /\ c.link = n /\ c = [link |-> c.link, claim |-> c.claim, reviewed |-> c.reviewed]
      /\ c.claim \in {files[n], [files[n] EXCEPT !.time = clock, !.revision = head]}
      /\ c.reviewed \in {FALSE, files[n].result = "warnings"}
  BY DEF Copies
<1>6. /\ c.claim \in Report /\ c.reviewed \in BOOLEAN /\ n \in Links
      /\ c.claim.revision = files[n].revision \/ c.claim.revision = head
  BY <1>4, <1>5 DEF Report, IInv, TypesOK
<1>7. c \in Record /\ c # NoRecord
  <2>1. n # <<"none", 0>>
    BY <1>6 DEF Links, Latest, Pre, Post, Retained
  <2> QED
    BY <1>5, <1>6, <2>1 DEF Record, NoRecord
<1>8. TypesOK' /\ PassedIsJudged' /\ ~Passed'
  BY <1>1, <1>2, <1>3, <1>7 DEF IInv, TypesOK, PassedIsJudged, Passed, Slots
<1>9. SourcesAreAudits'
  BY <1>1, <1>2, <1>3, <1>5, <1>7, LoggedStays DEF IInv, TypesOK, SourcesAreAudits, Slots
<1>10. leaf # "change" => c.claim.revision <= head
  BY <1>4, <1>6 DEF IInv, TypesOK, RevisionsArePast, Logged
<1>11. LogIsOrdered' /\ RevisionsArePast'
  BY <1>1, <1>2, <1>3, <1>10, <1>7 DEF IInv, LogIsOrdered, RevisionsArePast, Slots, TypesOK
<1> QED
  BY <1>8, <1>9, <1>11, NotPassed DEF IInv

LEMMA GateOpenKeeps == ASSUME IInv, GateOpen PROVE IInv'
<1>1. /\ UNCHANGED <<leaf, pc, clock, lock, head, tip, files, audit, text, log>> /\ pc = "work"
      /\ \A s \in Slots : text[s] # NoRecord
      /\ gate' = [at |-> "read", seen |-> NoReports] /\ Audits' = Audits
  BY AuditsOfSame DEF GateOpen
<1>2. TypesOK' /\ PassedIsJudged' /\ ~Passed'
  BY <1>1 DEF IInv, TypesOK, PassedIsJudged, Passed, NoReports
<1>3. SourcesAreAudits'
  BY <1>1, LoggedStays DEF IInv, SourcesAreAudits, Slots, Logged, NoReports
<1>4. LogIsOrdered' /\ RevisionsArePast'
  BY <1>1 DEF IInv, LogIsOrdered, RevisionsArePast
<1> QED
  BY <1>2, <1>3, <1>4, NotPassed DEF IInv

LEMMA GateReadKeeps == ASSUME IInv, NEW s \in Slots, GateRead(s) PROVE IInv'
<1>1. /\ UNCHANGED <<leaf, pc, clock, lock, head, tip, files, audit, text, log>>
      /\ gate.at = "read" /\ s \in {"pre", "post"}
      /\ gate' = [gate EXCEPT !.seen[s] = files[text[s].link]] /\ Audits' = Audits
  BY AuditsOfSame DEF GateRead, Slots
<1>2. gate \in [at : {"read"}, seen : [{"pre", "post"} -> Report \cup {NoReport}]] /\ ~Passed
  BY <1>1 DEF IInv, TypesOK, PassedIsJudged
<1>3. /\ files[text[s].link] \in Report /\ Logged(files[text[s].link])
  BY <1>1 DEF IInv, TypesOK, SourcesAreAudits
<1>4. /\ gate' \in [at : {"read"}, seen : [{"pre", "post"} -> Report \cup {NoReport}]]
      /\ \A t \in {"pre", "post"} : gate'.seen[t] \in {gate.seen[t], files[text[s].link]}
      /\ gate'.at = "read"
  BY <1>1, <1>2, <1>3
<1>5. UNCHANGED pc
  BY DEF GateRead
<1>6. TypesOK' /\ PassedIsJudged' /\ ~Passed'
  BY <1>1, <1>2, <1>4, <1>5 DEF IInv, TypesOK, PassedIsJudged, Passed
<1>7. \A t \in {"pre", "post"} : gate'.seen[t] # NoReport => Logged(gate'.seen[t])
  BY <1>1, <1>3, <1>4 DEF IInv, SourcesAreAudits, Slots
<1>8. SourcesAreAudits'
  BY <1>1, <1>7 DEF IInv, SourcesAreAudits, Slots, Logged
<1>9. LogIsOrdered' /\ RevisionsArePast'
  BY <1>1 DEF IInv, LogIsOrdered, RevisionsArePast
<1> QED
  BY <1>6, <1>8, <1>9, NotPassed DEF IInv

LEMMA GateClockKeeps == ASSUME IInv, GateClock PROVE IInv'
<1>1. /\ UNCHANGED <<leaf, pc, clock, lock, head, tip, files, audit, text, log>>
      /\ gate.at = "read" /\ gate' = [at |-> "timed", seen |-> gate.seen, now |-> clock]
      /\ Audits' = Audits
  BY AuditsOfSame DEF GateClock
<1>2. gate \in [at : {"read"}, seen : [{"pre", "post"} -> Report \cup {NoReport}]] /\ ~Passed
  BY <1>1 DEF IInv, TypesOK, PassedIsJudged
<1>3. TypesOK' /\ PassedIsJudged' /\ ~Passed'
  BY <1>1, <1>2 DEF IInv, TypesOK, PassedIsJudged, Passed
<1>4. SourcesAreAudits'
  BY <1>1 DEF IInv, SourcesAreAudits, Slots, Logged
<1>5. LogIsOrdered' /\ RevisionsArePast'
  BY <1>1 DEF IInv, LogIsOrdered, RevisionsArePast
<1> QED
  BY <1>3, <1>4, <1>5, NotPassed DEF IInv

(* What the gate accepts is what audits of this kind reported. *)
LEMMA AcceptedIsLogged ==
    ASSUME IInv, gate.at = "timed", GateAccepts, NEW s \in Slots
    PROVE  /\ text[s].claim \in Report /\ Logged(text[s].claim)
           /\ text[s].claim.mode = leaf /\ text[s].claim.result \in Shippable
<1>1. text[s] \in Record /\ s \in {"pre", "post"}
  BY DEF IInv, TypesOK, SourcesAreAudits, Slots
<1>2. text[s].claim \in Report /\ text[s].claim # NoReport
  BY <1>1 DEF Record, Report, NoReport, Modes
<1>3. text[s].claim = gate.seen[s] /\ text[s].claim.mode = leaf
      /\ text[s].claim.result \in Shippable
  BY DEF GateAccepts, Agrees, Decided
<1> QED
  BY <1>1, <1>2, <1>3 DEF IInv, SourcesAreAudits

LEMMA AcceptedChange ==
    ASSUME IInv, gate.at = "timed", GateAccepts, leaf = "change", UNCHANGED <<leaf, log>>,
           gate' = [gate EXCEPT !.at = "judged"]
    PROVE  ChangeIsBracketed'
<1> DEFINE pre  == text.pre.claim
           post == text.post.claim
<1>1. "pre" \in Slots /\ "post" \in Slots
  BY DEF Slots
<1>2. /\ pre \in Report /\ Logged(pre) /\ pre.mode = "change" /\ pre.result \in Shippable
      /\ post \in Report /\ Logged(post) /\ post.mode = "change" /\ post.result \in Shippable
  BY <1>1, AcceptedIsLogged
<1>3. /\ pre.time < post.time /\ gate.now - post.time <= Fresh
      /\ post.time - pre.time <= Span /\ pre.fingerprint # post.fingerprint
  BY DEF GateAccepts, Sequence
<1>4. gate'.now = gate.now
  BY DEF IInv, TypesOK
<1> HIDE DEF pre, post
<1>5. PICK i \in Audits : log[i].report = pre
  BY <1>2 DEF Logged
<1>6. PICK k \in Audits : log[k].report = post
  BY <1>2 DEF Logged
<1>7. i \in Nat /\ k \in Nat /\ i \in DOMAIN log /\ k \in DOMAIN log
  BY DEF Audits, IInv, TypesOK
<1>8. i < k
  <2>1. pre.time \in Nat /\ post.time \in Nat
    BY <1>2 DEF Report
  <2>2. i # k
    BY <1>3, <1>5, <1>6
  <2>3. ~(k < i)
    BY <1>3, <1>5, <1>6, <2>1 DEF IInv, LogIsOrdered
  <2> QED
    BY <1>7, <2>2, <2>3
<1>9. PICK j \in DOMAIN log : i < j /\ j < k /\ log[j] = EditMark
  BY <1>3, <1>5, <1>6, <1>8 DEF IInv, LogIsOrdered
<1>10. \E x, y, z \in DOMAIN log :
            /\ x < y /\ y < z /\ log[y] = EditMark /\ {x, z} \subseteq Audits
            /\ {log[x].report.mode, log[z].report.mode} = {"change"}
            /\ {log[x].report.result, log[z].report.result} \subseteq Shippable
            /\ gate.now - log[z].report.time <= Fresh
            /\ log[z].report.time - log[x].report.time <= Span
  BY <1>2, <1>3, <1>5, <1>6, <1>7, <1>9
<1>11. Audits' = Audits
  BY AuditsOfSame
<1> QED
  BY <1>4, <1>10, <1>11 DEF ChangeIsBracketed

LEMMA AcceptedDelivery ==
    ASSUME IInv, gate.at = "timed", GateAccepts, leaf # "change",
           UNCHANGED <<leaf, log, head, tip>>, gate' = [gate EXCEPT !.at = "judged"]
    PROVE  DeliveryIsAudited' /\ RecordIsNeverCommitted'
<1> DEFINE post == text.post.claim
<1>1. "post" \in Slots
  BY DEF Slots
<1>2. post \in Report /\ Logged(post) /\ post.mode = leaf /\ post.result \in Shippable
  BY <1>1, AcceptedIsLogged
<1>3. /\ post.time <= gate.now /\ gate.now - post.time <= Fresh
      /\ post.revision = head
  BY DEF GateAccepts, Current
<1>4. gate'.now = gate.now
  BY DEF IInv, TypesOK
<1>5. ~tip.record
  BY <1>3 DEF IInv, RevisionsArePast, TypesOK
<1> HIDE DEF post
<1>6. PICK i \in Audits : log[i].report = post
  BY <1>2 DEF Logged
<1>7. log[i].clean => post.fingerprint = tip.lock
  BY <1>3, <1>6 DEF IInv, RevisionsArePast
<1>8. Audits' = Audits
  BY AuditsOfSame
<1> QED
  BY <1>2, <1>3, <1>4, <1>5, <1>6, <1>7, <1>8 DEF DeliveryIsAudited, RecordIsNeverCommitted

LEMMA GateJudgeKeeps == ASSUME IInv, GateJudge PROVE IInv'
<1>1. /\ UNCHANGED <<leaf, clock, lock, head, tip, files, audit, text, log>>
      /\ gate.at = "timed" /\ Audits' = Audits
  BY AuditsOfSame DEF GateJudge
<1>2. /\ gate \in [at : {"timed", "judged"}, now : Nat,
                   seen : [{"pre", "post"} -> Report \cup {NoReport}]]
      /\ ~Passed
  BY <1>1 DEF IInv, TypesOK, PassedIsJudged
<1>3. LogIsOrdered' /\ RevisionsArePast'
  BY <1>1 DEF IInv, LogIsOrdered, RevisionsArePast
<1>4. CASE ~GateAccepts
  <2>1. pc' = pc /\ gate' = [at |-> "idle"]
    BY <1>4 DEF GateJudge
  <2>2. TypesOK' /\ PassedIsJudged' /\ ~Passed'
    BY <1>1, <1>2, <2>1 DEF IInv, TypesOK, PassedIsJudged, Passed
  <2>3. SourcesAreAudits'
    BY <1>1, <2>1 DEF IInv, SourcesAreAudits, Slots, Logged
  <2> QED
    BY <1>3, <2>2, <2>3, NotPassed DEF IInv
<1>5. CASE GateAccepts
  <2>1. pc' = "passed" /\ gate' = [gate EXCEPT !.at = "judged"]
    BY <1>5 DEF GateJudge
  <2>2. gate'.at = "judged" /\ gate'.seen = gate.seen
        /\ gate' \in [at : {"timed", "judged"}, now : Nat,
                      seen : [{"pre", "post"} -> Report \cup {NoReport}]]
    BY <1>2, <2>1
  <2>3. TypesOK' /\ PassedIsJudged'
    BY <1>1, <2>1, <2>2 DEF IInv, TypesOK, PassedIsJudged, Passed
  <2>4. SourcesAreAudits'
    BY <1>1, <2>2 DEF IInv, SourcesAreAudits, Slots, Logged
  <2>5. CASE leaf = "change"
    <3>1. ChangeIsBracketed'
      BY <1>1, <1>5, <2>1, <2>5, AcceptedChange
    <3>2. DeliveryIsAudited' /\ RecordIsNeverCommitted'
      BY <1>1, <2>5 DEF DeliveryIsAudited, RecordIsNeverCommitted
    <3> QED
      BY <1>3, <2>3, <2>4, <3>1, <3>2 DEF IInv, Promises
  <2>6. CASE leaf # "change"
    <3>1. DeliveryIsAudited' /\ RecordIsNeverCommitted'
      BY <1>1, <1>5, <2>1, <2>6, AcceptedDelivery
    <3>2. ChangeIsBracketed'
      BY <1>1, <2>6 DEF ChangeIsBracketed
    <3> QED
      BY <1>3, <2>3, <2>4, <3>1, <3>2 DEF IInv, Promises
  <2> QED
    BY <2>5, <2>6
<1> QED
  BY <1>4, <1>5

LEMMA NextKeeps == ASSUME IInv, [Next]_vars PROVE IInv'
<1>1. CASE Next
  BY <1>1, PlanKeeps, AuditStartKeeps, AuditCollectKeeps, AuditPublishKeeps, TickKeeps,
     EditKeeps, CommitKeeps, KeepKeeps, WriteKeeps, GateOpenKeeps, GateReadKeeps,
     GateClockKeeps, GateJudgeKeeps DEF Next
<1>2. CASE UNCHANGED vars
  <2>1. UNCHANGED workVars /\ UNCHANGED pc /\ Audits' = Audits
    BY <1>2, AuditsOfSame DEF vars, workVars
  <2>2. TypesOK' /\ PassedIsJudged'
    BY <2>1 DEF IInv, TypesOK, workVars, PassedIsJudged, Passed
  <2>3. SourcesAreAudits' /\ LogIsOrdered' /\ RevisionsArePast'
    BY <2>1
    DEF IInv, workVars, SourcesAreAudits, Slots, LogIsOrdered, RevisionsArePast, Logged
  <2>4. Promises'
    BY <2>1 DEF IInv, workVars, Promises, Passed, ChangeIsBracketed, DeliveryIsAudited,
                RecordIsNeverCommitted
  <2> QED
    BY <2>2, <2>3, <2>4 DEF IInv
<1> QED
  BY <1>1, <1>2

LEMMA Always == Spec => []IInv
<1>1. Init => IInv
  BY Starts
<1>2. IInv /\ [Next]_vars => IInv'
  BY NextKeeps
<1> QED
  BY <1>1, <1>2, PTL DEF Spec

(* A dependency change is let through only with an edit of the lock between *)
(* two shippable audits within the windows, however many audits, copies and *)
(* rewritten records there were.                                            *)
THEOREM ChangeBracketed == Spec => []ChangeIsBracketed
<1>1. IInv => ChangeIsBracketed
  BY DEF IInv, Promises
<1> QED
  BY <1>1, Always, PTL

(* A delivery is let through only as audited: by an audit of its kind and   *)
(* of the commit that git names, that may be shipped and is recent.         *)
THEOREM DeliveryAudited == Spec => []DeliveryIsAudited
<1>1. IInv => DeliveryIsAudited
  BY DEF IInv, Promises
<1> QED
  BY <1>1, Always, PTL

(* The record of a delivery is not in the commit it is let through for.     *)
THEOREM RecordOutside == Spec => []RecordIsNeverCommitted
<1>1. IInv => RecordIsNeverCommitted
  BY DEF IInv, Promises
<1> QED
  BY <1>1, Always, PTL

-----------------------------------------------------------------------------
(* Which files a task owns. *)

(* Everything beside a file that is owned for its own sake is owned.        *)
Closed(S) == \A f \in S \ WorkspaceLocks(S) : Siblings(f) \subseteq S

(* After one round nothing but workspace locks is missing, after two        *)
(* nothing.                                                                 *)
OwnInv ==
    /\ project \in Projects /\ owned \subseteq project.files
    /\ rounds \in 0..2
    /\ rounds # 0 => owned # {} /\ Closed(owned)
    /\ rounds = 2 => Missing(owned) = {}

(* A name is of one family only, that of the files beside it. *)
LEMMA FamilyOf ==
    ASSUME NEW F \in Families, NEW n \in F
    PROVE  Family(n) = F
<1>1. \A G \in Families : n \in G => G = F
  BY OwnershipAssumption
<1> QED BY <1>1 DEF Family

LEMMA FilesAreNamed ==
    ASSUME project \in Projects, NEW f \in project.files
    PROVE  \E F \in Families : f.name \in F /\ Family(f.name) = F
<1>1. f \in File
  BY OwnershipAssumption
<1>2. f.name \in Names
  BY <1>1 DEF File
<1> QED BY <1>2, FamilyOf DEF Names

(* Only manifests have locks above them, and what these are is no manifest. *)
LEMMA LocksAreLocks ==
    ASSUME NEW f, NEW g \in AncestorLocks(f)
    PROVE  g \in project.files /\ f.name \in DOMAIN Registry /\ g.name \notin DOMAIN Registry
<1> DEFINE locks(a) == {k \in project.files : k.dir = a /\ k.name \in Registry[f.name]}
           homes == {a \in Dirs : /\ IsStrictPrefix(a, f.dir)
                                  /\ <<a, f.dir>> \in project.members
                                  /\ locks(a) # {}}
           home == CHOOSE a \in homes : \A b \in homes : IsPrefix(b, a)
<1>1. AncestorLocks(f) = IF f.name \notin DOMAIN Registry \/ homes = {} THEN {} ELSE locks(home)
  BY DEF AncestorLocks
<1> HIDE DEF homes, home
<1>2. f.name \in DOMAIN Registry /\ g \in locks(home)
  BY <1>1
<1> QED BY <1>2, OwnershipAssumption

(* Two files beside each other have the same files beside them. *)
LEMMA SiblingsOfSibling ==
    ASSUME project \in Projects, NEW f \in project.files, NEW g \in Siblings(f)
    PROVE  g \in project.files /\ Siblings(g) = Siblings(f)
<1>1. g \in project.files /\ g.dir = f.dir /\ g.name \in Family(f.name)
  BY DEF Siblings
<1>2. PICK F \in Families : f.name \in F /\ Family(f.name) = F
  BY FilesAreNamed
<1>3. Family(g.name) = F
  BY <1>1, <1>2, FamilyOf
<1> QED BY <1>1, <1>2, <1>3 DEF Siblings

LEMMA LocksOfMore ==
    ASSUME NEW S, NEW T, S \subseteq T
    PROVE  WorkspaceLocks(S) \subseteq WorkspaceLocks(T)
  BY DEF WorkspaceLocks

(* The first round names what is beside the files; the second names no more *)
(* than locks above the manifests found by then, and those ask for nothing. *)
LEMMA FirstRound ==
    ASSUME project \in Projects, NEW S \in SUBSET project.files, NEW T, T = S \cup Missing(S)
    PROVE  T \subseteq project.files /\ Closed(T)
<1> DEFINE beside == UNION {Siblings(f) : f \in S \ WorkspaceLocks(S)}
<1>1. WorkspaceLocks(S) \subseteq project.files
  BY LocksAreLocks DEF WorkspaceLocks
<1>2. T = S \cup WorkspaceLocks(S) \cup beside
  BY DEF Missing
<1>3. T \subseteq project.files
  BY <1>1, <1>2 DEF Siblings
<1>4. ASSUME NEW f \in T \ WorkspaceLocks(T) PROVE Siblings(f) \subseteq T
  <2>1. f \notin WorkspaceLocks(S)
    BY <1>2, <1>4, LocksOfMore
  <2>2. CASE f \in S
    BY <1>2, <2>1, <2>2
  <2>3. CASE f \in beside
    <3>1. PICK g \in S \ WorkspaceLocks(S) : f \in Siblings(g)
      BY <2>3
    <3>2. Siblings(f) = Siblings(g)
      BY <3>1, SiblingsOfSibling
    <3> QED BY <1>2, <3>1, <3>2
  <2> QED BY <1>2, <1>4, <2>1, <2>2, <2>3
<1> QED BY <1>3, <1>4 DEF Closed

LEMMA SecondRound ==
    ASSUME project \in Projects, NEW S \in SUBSET project.files, Closed(S),
           NEW T, T = S \cup Missing(S)
    PROVE  T \subseteq project.files /\ Missing(T) = {} /\ Closed(T)
<1>1. T = S \cup WorkspaceLocks(S)
  BY DEF Missing, Closed
<1>2. WorkspaceLocks(T) = WorkspaceLocks(S)
  <2>1. ASSUME NEW f \in WorkspaceLocks(S) PROVE AncestorLocks(f) = {}
    <3>1. f.name \notin DOMAIN Registry
      BY LocksAreLocks DEF WorkspaceLocks
    <3> QED BY <3>1, LocksAreLocks
  <2>2. \A f \in T : AncestorLocks(f) \subseteq WorkspaceLocks(S)
    BY <1>1, <2>1 DEF WorkspaceLocks
  <2> QED BY <1>1, <2>2, LocksOfMore DEF WorkspaceLocks
<1>3. \A f \in T \ WorkspaceLocks(T) : Siblings(f) \subseteq S
  BY <1>1, <1>2 DEF Closed
<1>4. Missing(T) = {}
  BY <1>1, <1>2, <1>3 DEF Missing
<1>5. T \subseteq project.files
  BY <1>1, LocksAreLocks DEF WorkspaceLocks
<1> QED BY <1>1, <1>3, <1>4, <1>5 DEF Closed

LEMMA OwnStarts == Init => OwnInv
  BY DEF Init, OwnInit, OwnInv

(* The definitions look at the project alone. *)
LEMMA SameProject ==
    ASSUME UNCHANGED project, NEW S, S = owned'
    PROVE  Missing(owned)' = Missing(S) /\ (Closed(owned)' <=> Closed(S))
<1>1. \A f : AncestorLocks(f)' = AncestorLocks(f) /\ Siblings(f)' = Siblings(f)
  BY DEF AncestorLocks, Siblings
<1>2. WorkspaceLocks(owned)' = WorkspaceLocks(S)
  BY <1>1 DEF WorkspaceLocks
<1> QED BY <1>1, <1>2 DEF Missing, Closed

LEMMA WidenKeeps == ASSUME OwnInv, Widen PROVE OwnInv'
<1> DEFINE T == owned'
<1>1. project' = project /\ project \in Projects /\ owned \in SUBSET project.files
  BY DEF Widen, OwnInv
<1>2. Missing(owned)' = Missing(T) /\ (Closed(owned)' <=> Closed(T))
  BY <1>1, SameProject
<1>3. CASE owned = {}
  <2>1. rounds = 0 /\ rounds' = 0
    BY <1>3 DEF OwnInv, Widen
  <2>2. owned' \subseteq project.files
    BY <1>3 DEF Widen
  <2> QED BY <1>1, <2>1, <2>2 DEF OwnInv
<1>4. CASE owned # {}
  <2>1. T = owned \cup Missing(owned) /\ rounds' = rounds + 1 /\ Missing(owned) # {}
    BY <1>4 DEF Widen, OwnershipAccepted
  <2>2. rounds \in {0, 1}
    BY <2>1 DEF OwnInv
  <2> HIDE DEF T
  <2>3. T \subseteq project.files /\ Closed(T)
    BY <1>1, <2>1, FirstRound
  <2>4. rounds = 1 => Missing(T) = {}
    <3> SUFFICES ASSUME rounds = 1 PROVE Missing(T) = {}
      OBVIOUS
    <3>1. Closed(owned)
      BY DEF OwnInv
    <3> QED BY <1>1, <2>1, <3>1, SecondRound
  <2>5. T # {}
    BY <1>4, <2>1
  <2>6. rounds' \in 0..2 /\ (rounds' = 2 => rounds = 1)
    BY <2>1, <2>2
  <2> QED BY <1>1, <1>2, <2>3, <2>4, <2>5, <2>6 DEF OwnInv, T
<1> QED BY <1>3, <1>4

LEMMA OwnKeeps == ASSUME OwnInv, [Next]_vars PROVE OwnInv'
<1>1. CASE Plan
  <2>1. CASE Widen
    BY <2>1, WidenKeeps
  <2>2. CASE Follow
    <3>1. UNCHANGED <<project, owned>> /\ rounds' = 0
      BY <2>2 DEF Follow
    <3> QED BY <3>1 DEF OwnInv
  <2> QED BY <1>1, <2>1, <2>2 DEF Plan
<1>2. CASE UNCHANGED <<project, owned, rounds>>
  <2>1. Missing(owned)' = Missing(owned) /\ (Closed(owned)' <=> Closed(owned))
    BY <1>2, SameProject
  <2> HIDE DEF Missing, Closed
  <2> QED BY <1>2, <2>1 DEF OwnInv
<1>3. CASE ~Plan
  BY <1>2, <1>3
  DEF Next, vars, AuditStart, AuditCollect, AuditPublish, Tick, Edit, Commit, Keep, Write,
      GateOpen, GateRead, GateClock, GateJudge
<1> QED BY <1>1, <1>3

(* What is let through is closed. *)
LEMMA AcceptedIsClosed == OwnInv => OwnershipIsClosed
<1> SUFFICES ASSUME OwnInv PROVE OwnershipIsClosed
  OBVIOUS
<1>1. rounds <= 2 /\ project \in Projects /\ owned \subseteq project.files
  BY DEF OwnInv
<1>2. ASSUME OwnershipAccepted
      PROVE  WorkspaceLocks(owned) \subseteq owned /\ Closed(owned)
  BY <1>2 DEF OwnershipAccepted, Missing, Closed
<1>3. ASSUME OwnershipAccepted, NEW f \in owned, f.name \in DOMAIN Registry
      PROVE  WrittenBy(f) \subseteq owned
  <2>1. f \notin WorkspaceLocks(owned)
    BY <1>3, LocksAreLocks DEF WorkspaceLocks
  <2>2. Siblings(f) \subseteq owned
    BY <1>2, <1>3, <2>1 DEF Closed
  <2>3. AncestorLocks(f) \subseteq owned
    BY <1>2, <1>3 DEF WorkspaceLocks
  <2> QED BY <2>2, <2>3 DEF WrittenBy
<1>4. ASSUME OwnershipAccepted, NEW f \in owned, NEW g \in project.files,
             f.dir = g.dir, g.name \in DOMAIN Registry, f.name \in Registry[g.name], g \notin owned
      PROVE  \E h \in owned : f \in AncestorLocks(h)
  <2>1. PICK F \in Families : g.name \in F /\ Family(g.name) = F
    BY <1>1, FilesAreNamed
  <2>2. f.name \in F
    BY <1>4, <2>1, OwnershipAssumption
  <2>3. g \in Siblings(f)
    BY <1>4, <2>1, <2>2, FamilyOf DEF Siblings
  <2>4. f \in WorkspaceLocks(owned)
    BY <1>2, <1>4, <2>3 DEF Closed
  <2> QED BY <2>4 DEF WorkspaceLocks
<1> QED BY <1>1, <1>3, <1>4 DEF OwnershipIsClosed

(* Adding what the check names ends after two rounds, and what it lets      *)
(* through owns the locks its manifests are resolved into                   *)
(* (_resolution_ownership_errors).                                          *)
THEOREM OwnershipClosed == Spec => []OwnershipIsClosed
<1>1. Spec => []OwnInv
  BY OwnStarts, OwnKeeps, PTL DEF Spec
<1> QED BY <1>1, AcceptedIsClosed, PTL
=============================================================================
