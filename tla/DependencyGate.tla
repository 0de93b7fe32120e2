--------------------------- MODULE DependencyGate ---------------------------
(***************************************************************************)
(* The dependency evidence of one leaf task: the audits that are run, the  *)
(* reports they leave in .security/dependency-audit, the records a writer  *)
(* copies from them into 04_tasks.md, the tip, and the gate of         *)
(* spec-check.py that accepts or refuses the records.                      *)
(*                                                                         *)
(* Time is counted in steps of the clock.  Reports have a fingerprint of   *)
(* the resolution they saw; a report is only the values the gate compares. *)
(* A leaf whose records are wrong in form alone (their keys, their order,  *)
(* their links, the schema of a linked file, the Context7, edit and test   *)
(* records beside them) is refused whatever they say, and is left out.     *)
(*                                                                         *)
(* The auditor's side is AuditRun and ReportStore, of which only what a    *)
(* reader of the reports can see is kept; the writer, the developer and    *)
(* git are not code of this repository.                                    *)
(***************************************************************************)
EXTENDS ResolutionOwnership

CONSTANTS Locks,       \* the contents of the lock file, as their fingerprints
          Kinds,       \* what the leaf is: {"change", "main", "release"} or fewer
          Results,     \* what audits come to
          Kept,        \* the names under which reports may be copied by hand
          Fresh,       \* DELIVERY_FRESHNESS_HOURS
          Span,        \* CHANGE_MAX_SEQUENCE_DAYS
          Worked,      \* the projects that are followed past the planning
          MaxTime, MaxAudits, MaxEdits, MaxCommits   \* bounds

Latest == <<"latest", 0>>
Pre == <<"pre-change", 0>>
Post == <<"post-change", 0>>
Retained(t) == <<"audit", t>>

ASSUME GateAssumption ==
    /\ Kinds \subseteq {"change", "main", "release"}
    /\ Results \subseteq {"pass", "warnings", "blocked", "unavailable", "invalid"}
    /\ Worked \subseteq Projects
    /\ Kept \subseteq {Pre, Post}
    /\ Fresh \in Nat /\ Span \in Nat
    /\ {MaxTime, MaxAudits, MaxEdits, MaxCommits} \subseteq Nat

VARIABLES leaf,      \* the kind of the leaf
          pc,        \* "plan" until its ownership is accepted, "work", "passed"
          clock, lock, head,
          tip,       \* the commit HEAD names: its lock, and whether the last record is in it
          files,     \* the reports in the directory, by name
          audit,     \* the audit under way
          text,      \* the leaf in 04_tasks.md: its box and its records
          gate,      \* the check under way, or the one that let the leaf through
          log        \* history: the audits' readings of the lock and the edits, in order

workVars == <<leaf, clock, lock, head, tip, files, audit, text, gate, log>>
vars == <<project, owned, rounds, leaf, pc, clock, lock, head, tip, files, audit, text,
          gate, log>>

Shippable == {"pass", "warnings"}

NoReport == [mode |-> "none"]
NoReports == [s \in {"pre", "post"} |-> NoReport]
NoRecord == [link |-> <<"none", 0>>]
NoText == [pre |-> NoRecord, post |-> NoRecord]
EditMark == [what |-> "edit"]

\* The records the leaf has: a change needs two, a delivery the second one only.
Slots == IF leaf = "change" THEN {"pre", "post"} ELSE {"post"}

Init ==
    /\ OwnInit
    /\ leaf \in Kinds /\ pc = "plan"
    /\ clock = 0 /\ lock \in Locks /\ head = 0
    /\ tip = [lock |-> lock, record |-> FALSE]
    /\ files = [n \in {Latest} |-> NoReport]
    /\ audit = [at |-> "idle"]
    /\ text = NoText
    /\ gate = [at |-> "idle"]
    /\ log = <<>>

Follow ==
    /\ project \in Worked /\ pc' = "work"
    /\ rounds' = 0 /\ UNCHANGED <<project, owned>>

\* A delivery leaf changes no dependencies and must own none of these files.
Plan ==
    /\ pc = "plan"
    /\ IF leaf = "change"
       THEN \/ Widen /\ UNCHANGED pc
            \/ OwnershipAccepted /\ Follow
       ELSE owned = {} /\ Follow
    /\ UNCHANGED workVars

-----------------------------------------------------------------------------
(* The auditor: its time stamp is that of its start.                       *)

Audits == {i \in DOMAIN log : log[i] # EditMark}

\* The revision is what the caller says.  The gate of a change only compares what two audits
\* recorded and never asks git, so that no commits are needed beside it.
Revisions == IF leaf = "change" THEN 0..MaxCommits ELSE 0..head

AuditStart ==
    /\ pc = "work" /\ gate.at = "idle" /\ audit.at = "idle" /\ Cardinality(Audits) < MaxAudits
    /\ \E m \in {leaf, "change"}, r \in Revisions :
          audit' = [at |-> "started", report |-> [mode |-> m, time |-> clock, revision |-> r]]
    /\ UNCHANGED <<project, owned, rounds, leaf, pc, clock, lock, head, tip, files, text,
                   gate, log>>

AuditCollect ==
    /\ pc = "work" /\ gate.at = "idle" /\ audit.at = "started"
    /\ \E s \in Results :
          LET r == [mode |-> audit.report.mode, time |-> audit.report.time,
                    revision |-> audit.report.revision, fingerprint |-> lock, result |-> s]
          IN  /\ audit' = [at |-> "collected", report |-> r]
              /\ log' = Append(log,
                    [what |-> "audit", report |-> r,
                     clean |-> r.revision = head /\ lock = tip.lock])
    /\ UNCHANGED <<project, owned, rounds, leaf, pc, clock, lock, head, tip, files, text,
                   gate>>

\* write_reports: deliveries are retained under their time stamp and never replaced, a
\* change audit is only the latest.
AuditPublish ==
    /\ pc = "work" /\ audit.at = "collected"
    /\ LET r    == audit.report
           name == Retained(r.time)
           kept == IF r.mode = "change" THEN files
                   ELSE [n \in DOMAIN files \cup {name} |-> IF n = name THEN r ELSE files[n]]
           clash == r.mode # "change" /\ name \in DOMAIN files /\ files[name] # r
       IN  files' = IF clash THEN files ELSE [kept EXCEPT ![Latest] = r]
    /\ audit' = [at |-> "idle"]
    /\ UNCHANGED <<project, owned, rounds, leaf, pc, clock, lock, head, tip, text, gate,
                   log>>

-----------------------------------------------------------------------------
(* The people around it.                                                   *)

Tick ==
    /\ pc = "work" /\ clock < MaxTime
    /\ clock' = clock + 1
    /\ UNCHANGED <<project, owned, rounds, leaf, pc, lock, head, tip, files, audit, text,
                   gate, log>>

Edit ==
    /\ pc = "work" /\ gate.at = "idle" /\ Len(log) - Cardinality(Audits) < MaxEdits
    /\ lock' \in Locks \ {lock}
    /\ log' = Append(log, EditMark)
    /\ UNCHANGED <<project, owned, rounds, leaf, pc, clock, head, tip, files, audit, text,
                   gate>>

Commit ==
    /\ pc = "work" /\ leaf # "change" /\ head < MaxCommits
    /\ head' = head + 1
    /\ tip' = [lock |-> lock, record |-> text.post # NoRecord]
    /\ UNCHANGED <<project, owned, rounds, leaf, pc, clock, lock, files, audit, text, gate,
                   log>>

\* The latest report copied by hand to one of the two names the template gives a change.
Keep ==
    /\ pc = "work" /\ leaf = "change" /\ files[Latest] # NoReport
    /\ \E n \in Kept :
          files' = [m \in DOMAIN files \cup {n} |-> IF m = n THEN files[Latest] ELSE files[m]]
    /\ UNCHANGED <<project, owned, rounds, leaf, pc, clock, lock, head, tip, audit, text,
                   gate, log>>

\* A record copied from a report, or one that was touched up to look newer.
Copies(n) ==
    LET r == files[n]
    IN  [link : {n}, claim : {r, [r EXCEPT !.time = clock, !.revision = head]},
         reviewed : {FALSE, r.result = "warnings"}]

\* A record is completed.  A check that refuses leaves nothing behind, so that a record which
\* is written again counts as one written late.
Write ==
    /\ pc = "work" /\ gate.at = "idle"
    /\ \E s \in Slots, n \in {m \in DOMAIN files : files[m] # NoReport} :
          /\ text[s] = NoRecord
          /\ \E c \in Copies(n) : text' = [text EXCEPT ![s] = c]
    /\ UNCHANGED <<project, owned, rounds, leaf, pc, clock, lock, head, tip, files, audit,
                   gate, log>>

-----------------------------------------------------------------------------
(* The gate: _change_sequence_error and _delivery_gate_error.              *)

\* The text is read once, then the report of each record, the earlier record first.  Before
\* all records are completed there is nothing to let through.
GateOpen ==
    /\ pc = "work" /\ gate.at = "idle"
    /\ \A s \in Slots : text[s] # NoRecord
    /\ gate' = [at |-> "read", seen |-> NoReports]
    /\ UNCHANGED <<project, owned, rounds, leaf, pc, clock, lock, head, tip, files, audit,
                   text, log>>

GateRead(s) ==
    /\ gate.at = "read"
    /\ s \in Slots /\ gate.seen[s] = NoReport
    /\ s = "post" /\ "pre" \in Slots => gate.seen["pre"] # NoReport
    /\ gate' = [gate EXCEPT !.seen[s] = files[text[s].link]]
    /\ UNCHANGED <<project, owned, rounds, leaf, pc, clock, lock, head, tip, files, audit,
                   text, log>>

GateClock ==
    /\ gate.at = "read"
    /\ \A s \in Slots : gate.seen[s] # NoReport
    /\ gate' = [at |-> "timed", seen |-> gate.seen, now |-> clock]
    /\ UNCHANGED <<project, owned, rounds, leaf, pc, clock, lock, head, tip, files, audit,
                   text, log>>

\* A slip: the values of a record are taken as they are written.
AgreesUnread(record, seen) == TRUE

\* The values of a record are those of the report it links; the audit is of the kind the leaf
\* calls for, and it came to something that may be shipped.
Agrees(record, seen) ==
    /\ record.claim = seen
    /\ record.claim.mode = leaf

Decided(record) ==
    /\ record.claim.result \in Shippable
    /\ record.claim.result = "warnings" => record.reviewed

\* A slip: the two reports may be the same, in whichever order.
SequenceLoose(pre, post, now) ==
    /\ post.time <= now /\ now - post.time <= Fresh
    /\ pre.revision = post.revision

Sequence(pre, post, now) ==
    /\ pre.time < post.time /\ post.time <= now
    /\ now - post.time <= Fresh /\ post.time - pre.time <= Span
    /\ pre.revision = post.revision /\ pre.fingerprint # post.fingerprint

\* A slip: the revision is not compared with git's.
CurrentAnyRevision(claim, now) == claim.time <= now /\ now - claim.time <= Fresh

Current(claim, now) == claim.time <= now /\ now - claim.time <= Fresh /\ claim.revision = head

GateAccepts ==
    /\ \A s \in Slots : Agrees(text[s], gate.seen[s]) /\ Decided(text[s])
    /\ IF leaf = "change"
       THEN /\ text.pre.link # text.post.link
            /\ Sequence(text.pre.claim, text.post.claim, gate.now)
       ELSE Current(text.post.claim, gate.now)

\* git is asked last.  A completed leaf that is let through is done; the check of one that is
\* refused or still pending leaves nothing behind.
GateJudge ==
    /\ gate.at = "timed"
    /\ IF GateAccepts
       THEN pc' = "passed" /\ gate' = [gate EXCEPT !.at = "judged"]
       ELSE pc' = pc /\ gate' = [at |-> "idle"]
    /\ UNCHANGED <<project, owned, rounds, leaf, clock, lock, head, tip, files, audit,
                   text, log>>

Next ==
    \/ Plan
    \/ AuditStart \/ AuditCollect \/ AuditPublish
    \/ Tick \/ Edit \/ Commit \/ Keep \/ Write
    \/ GateOpen \/ (\E s \in Slots : GateRead(s)) \/ GateClock \/ GateJudge

Spec == Init /\ [][Next]_vars

-----------------------------------------------------------------------------
Passed == pc = "passed"

\* A change that is let through was made: the lock was edited between the readings of two
\* audits that both came to something that may be shipped, the later one no older than the
\* window when the gate looked at the clock; neither copying a report by hand nor a latest
\* report that is replaced under its link, nor a record touched up to look newer, can stand in
\* for them (_change_sequence_error, spec-check.py:1417-1567).
ChangeIsBracketed ==
    Passed /\ leaf = "change" =>
        \E i, j, k \in DOMAIN log :
            /\ i < j /\ j < k /\ log[j] = EditMark /\ {i, k} \subseteq Audits
            /\ {log[i].report.mode, log[k].report.mode} = {"change"}
            /\ {log[i].report.result, log[k].report.result} \subseteq Shippable
            /\ gate.now - log[k].report.time <= Fresh
            /\ log[k].report.time - log[i].report.time <= Span

\* A delivery that is let through was audited as it ships: an audit of this kind that may be
\* shipped, run within the window, recorded the commit git names now, and if the tree was
\* clean when it read the lock then it is the lock of that commit that it read
\* (_delivery_gate_error, spec-check.py:1570-1639).
DeliveryIsAudited ==
    Passed /\ leaf # "change" =>
        \E i \in Audits :
            LET a == log[i].report
            IN  /\ a.mode = leaf /\ a.result \in Shippable
                /\ a.time <= gate.now /\ gate.now - a.time <= Fresh
                /\ a.revision = head
                /\ log[i].clean => a.fingerprint = tip.lock

\* A delivery record that is let through is not part of the commit it is about: whoever commits
\* it moves the revision on, and the same record is refused from then on
\* (spec-check.py:1636-1638).
RecordIsNeverCommitted ==
    Passed /\ leaf # "change" => ~tip.record
=============================================================================
