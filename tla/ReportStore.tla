------------------------------ MODULE ReportStore ------------------------------
(***************************************************************************)
(* reporting.py of the dependency audit: write_reports refreshes           *)
(* latest.json and latest.md in the output directory, after retaining      *)
(* timestamped copies of a main or release audit that are never            *)
(* overwritten.  Several audits may write to the same directory; a call    *)
(* of the operating system may fail or be interrupted, and a process may   *)
(* die between any two calls.                                              *)
(*                                                                         *)
(* A document stands for what one audit renders; both of its files, latest *)
(* or retained, are functions of it.                                       *)
(***************************************************************************)
EXTENDS Naturals

CONSTANTS
    Writers,    \* processes that run audits
    Docs,
    Retained,   \* the documents of main and release audits
    Slugs, Slug,  \* the second in which each document's audit started
    Absent,
    Fallible,   \* the steps at which a call may fail
    MaxCalls, MaxFaults, MaxCrashes  \* bounds

Kinds == {"json", "md"}

Steps == {"write", "link", "compare", "stage", "backup", "replace", "rollback",
          "cleanup", "withdraw"}

ASSUME ReportStoreAssumption ==
    /\ Absent \notin Docs
    /\ Retained \subseteq Docs
    /\ Slug \in [Docs -> Slugs]
    /\ Fallible \subseteq Steps
    /\ MaxCalls \in Nat /\ MaxFaults \in Nat /\ MaxCrashes \in Nat

VARIABLES
    \* the directory
    latest,     \* latest.json and latest.md
    evidence,   \* the retained files of each second
    \* the call of write_reports of each writer
    pc,         \* its next step
    kind,       \* the file the step is about
    doc,
    exc,        \* what is being raised: "none", "os" or "interrupt"
    created,    \* created_evidence
    staged, replaced, backup,
    temps,      \* its temporary files that exist, by use and kind
    \* history
    published,  \* the documents whose call returned
    before,     \* the directory when the call began
    clean,      \* no call began since this one, none was under way then, and no handler failed
    calls, faults, crashes

directory == <<latest, evidence>>
locals    == <<doc, exc, created, staged, replaced, backup, temps>>
history   == <<published, before, clean, calls, faults, crashes>>
vars      == <<directory, pc, kind, locals, history>>

Files == [Kinds -> Docs \cup {Absent}]

NoFiles == [k \in Kinds |-> Absent]

Active(w) == pc[w] \in Steps

Init ==
    /\ latest = NoFiles /\ evidence = [s \in Slugs |-> NoFiles]
    /\ pc = [w \in Writers |-> "idle"] /\ kind = [w \in Writers |-> "json"]
    /\ doc = [w \in Writers |-> Absent] /\ exc = [w \in Writers |-> "none"]
    /\ created = [w \in Writers |-> {}] /\ staged = [w \in Writers |-> {}]
    /\ replaced = [w \in Writers |-> {}] /\ backup = [w \in Writers |-> NoFiles]
    /\ temps = [w \in Writers |-> {}]
    /\ published = {}
    /\ before = [w \in Writers |-> [latest |-> latest, evidence |-> evidence]]
    /\ clean = [w \in Writers |-> TRUE]
    /\ calls = 0 /\ faults = 0 /\ crashes = 0

------------------------------------------------------------------------------
(* The steps of a call. *)

At(w, step) == pc[w] = step

Goto(w, step, k) == pc' = [pc EXCEPT ![w] = step] /\ kind' = [kind EXCEPT ![w] = k]

\* The same step for the Markdown file once it is done for the JSON file.
Advance(w, first, after) ==
    IF kind[w] = "json" THEN Goto(w, first, "md") ELSE Goto(w, after, "json")

Create(w, use)  == temps' = [temps EXCEPT ![w] = @ \cup {<<use, kind[w]>>}]
Discard(w, use) == temps' = [temps EXCEPT ![w] = @ \ {<<use, kind[w]>>}]

Blank(w) ==
    /\ exc' = [exc EXCEPT ![w] = "none"]
    /\ created' = [created EXCEPT ![w] = {}] /\ staged' = [staged EXCEPT ![w] = {}]
    /\ replaced' = [replaced EXCEPT ![w] = {}] /\ backup' = [backup EXCEPT ![w] = NoFiles]
    /\ temps' = [temps EXCEPT ![w] = {}]

\* Documents carry their start to the microsecond: no two calls under way have the same.
Begin(w) ==
    /\ pc[w] \notin Steps
    /\ calls < MaxCalls /\ calls' = calls + 1
    /\ \E d \in Docs :
          /\ \A v \in Writers : Active(v) => doc[v] # d
          /\ doc' = [doc EXCEPT ![w] = d]
          /\ Goto(w, IF d \in Retained THEN "write" ELSE "stage", "json")
    /\ Blank(w)
    /\ before' = [before EXCEPT ![w] = [latest |-> latest, evidence |-> evidence]]
    /\ clean' = [v \in Writers |-> v = w /\ \A u \in Writers : ~Active(u)]
    /\ UNCHANGED <<directory, published, faults, crashes>>

\* _create_immutable: the text goes to a temporary file, which is then linked to its name.
WriteEvidence(w) ==
    /\ At(w, "write")
    /\ Create(w, "evidence")
    /\ Goto(w, "link", kind[w])
    /\ UNCHANGED <<directory, doc, exc, created, staged, replaced, backup, history>>

\* A slip: a retained file is renamed over.
LinkOver(w) ==
    /\ At(w, "link")
    /\ evidence' = [evidence EXCEPT ![Slug[doc[w]]][kind[w]] = doc[w]]
    /\ created' = [created EXCEPT ![w] = @ \cup {kind[w]}]
    /\ Discard(w, "evidence")
    /\ Advance(w, "write", "stage")
    /\ UNCHANGED <<latest, doc, exc, staged, replaced, backup, history>>

Link(w) ==
    /\ At(w, "link")
    /\ \/ /\ evidence[Slug[doc[w]]][kind[w]] = Absent
          /\ evidence' = [evidence EXCEPT ![Slug[doc[w]]][kind[w]] = doc[w]]
          /\ created' = [created EXCEPT ![w] = @ \cup {kind[w]}]
          /\ Discard(w, "evidence")
          /\ Advance(w, "write", "stage")
       \/ /\ evidence[Slug[doc[w]]][kind[w]] # Absent
          /\ Goto(w, "compare", kind[w])
          /\ UNCHANGED <<evidence, created, temps>>
    /\ UNCHANGED <<latest, doc, exc, staged, replaced, backup, history>>

\* A slip: a file that held the same text already counts as created.
CompareCreated(w) ==
    /\ At(w, "compare")
    /\ Discard(w, "evidence")
    /\ IF evidence[Slug[doc[w]]][kind[w]] = doc[w]
       THEN /\ Advance(w, "write", "stage") /\ exc' = exc
            /\ created' = [created EXCEPT ![w] = @ \cup {kind[w]}]
       ELSE Goto(w, "withdraw", "json") /\ exc' = [exc EXCEPT ![w] = "os"] /\ created' = created
    /\ UNCHANGED <<directory, doc, staged, replaced, backup, history>>

\* The name is taken: by the same text, or by another, or by now no longer.
Compare(w) ==
    /\ At(w, "compare")
    /\ Discard(w, "evidence")
    /\ IF evidence[Slug[doc[w]]][kind[w]] = doc[w]
       THEN Advance(w, "write", "stage") /\ exc' = exc
       ELSE Goto(w, "withdraw", "json") /\ exc' = [exc EXCEPT ![w] = "os"]
    /\ UNCHANGED <<directory, doc, created, staged, replaced, backup, history>>

\* _atomic_replace_many: write each text beside its target and link a backup of the target,
\* then rename the texts over the targets.
Stage(w) ==
    /\ At(w, "stage")
    /\ Create(w, "latest")
    /\ staged' = [staged EXCEPT ![w] = @ \cup {kind[w]}]
    /\ Goto(w, "backup", kind[w])
    /\ UNCHANGED <<directory, doc, exc, created, replaced, backup, history>>

Backup(w) ==
    /\ At(w, "backup")
    /\ IF latest[kind[w]] = Absent THEN temps' = temps ELSE Create(w, "backup")
    /\ backup' = [backup EXCEPT ![w][kind[w]] = latest[kind[w]]]
    /\ Advance(w, "stage", "replace")
    /\ UNCHANGED <<directory, doc, exc, created, staged, replaced, history>>

Replace(w) ==
    /\ At(w, "replace")
    /\ latest' = [latest EXCEPT ![kind[w]] = doc[w]]
    /\ Discard(w, "latest")
    /\ replaced' = [replaced EXCEPT ![w] = @ \cup {kind[w]}]
    /\ staged' = [staged EXCEPT ![w] = IF kind[w] = "md" THEN {} ELSE @]
    /\ Advance(w, "replace", "cleanup")
    /\ UNCHANGED <<evidence, doc, exc, created, backup, history>>

\* A slip: what was replaced is unlinked.
RollbackUnlinks(w) ==
    /\ At(w, "rollback")
    /\ latest' = [k \in Kinds |-> IF k \in replaced[w] THEN Absent ELSE latest[k]]
    /\ Goto(w, "cleanup", "json")
    /\ UNCHANGED <<evidence, locals, history>>

\* except BaseException: put the backup of what was replaced back, or unlink it.
\* Only the JSON file can have been replaced when an exception arrives.
Rollback(w) ==
    /\ At(w, "rollback")
    /\ latest' = [k \in Kinds |-> IF k \in replaced[w] THEN backup[w][k] ELSE latest[k]]
    /\ backup' = [backup EXCEPT ![w] = [k \in Kinds |-> IF k \in replaced[w] THEN Absent ELSE @[k]]]
    /\ temps' = [temps EXCEPT ![w] = @ \ ({"backup"} \X replaced[w])]
    /\ Goto(w, "cleanup", "json")
    /\ UNCHANGED <<evidence, doc, exc, created, staged, replaced, history>>

\* finally: unlink what is still staged, and the backups.
Unneeded(w) ==
    ({"latest"} \X staged[w]) \cup ({"backup"} \X {k \in Kinds : backup[w][k] # Absent})

Discarded(w) == temps[w] \cap Unneeded(w)

Returned(w) ==
    /\ published' = published \cup {doc[w]}
    /\ Goto(w, "returned", "json")

Cleanup(w) ==
    /\ At(w, "cleanup")
    /\ temps' = [temps EXCEPT ![w] = @ \ Discarded(w)]
    /\ \/ exc[w] = "none" /\ Returned(w)
       \/ exc[w] = "os" /\ Goto(w, "withdraw", "json") /\ published' = published
       \/ exc[w] = "interrupt" /\ Goto(w, "idle", "json") /\ published' = published
    /\ UNCHANGED <<directory, doc, exc, created, staged, replaced, backup,
                   before, clean, calls, faults, crashes>>

\* write_reports unlinks the evidence this call created, and raises ReportWriteError.
Withdraw(w) ==
    /\ At(w, "withdraw")
    /\ \/ /\ created[w] = {}
          /\ Goto(w, "raised", "json")
          /\ UNCHANGED <<evidence, created>>
       \/ \E k \in created[w] :
             /\ k = "json" => created[w] = {"json"}
             /\ evidence' = [evidence EXCEPT ![Slug[doc[w]]][k] = Absent]
             /\ created' = [created EXCEPT ![w] = @ \ {k}]
             /\ UNCHANGED <<pc, kind>>
    /\ UNCHANGED <<latest, doc, exc, staged, replaced, backup, temps, history>>

------------------------------------------------------------------------------
(* Failures. *)

Fault(w, steps) ==
    /\ pc[w] \in steps \cap Fallible
    /\ faults < MaxFaults /\ faults' = faults + 1
    /\ UNCHANGED <<directory, doc, created, staged, replaced, backup, published, before,
                   calls, crashes>>

Exceptions == {"os", "interrupt"}

\* In _create_immutable: its temporary file is unlinked.  Only an error of the system is
\* handled by write_reports; an interrupt ends the process.
EvidenceFails(w) ==
    /\ Fault(w, {"write", "link", "compare"})
    /\ Discard(w, "evidence")
    /\ \E e \in Exceptions :
          /\ exc' = [exc EXCEPT ![w] = e]
          /\ Goto(w, IF e = "os" THEN "withdraw" ELSE "idle", "json")
    /\ UNCHANGED clean

\* In _atomic_replace_many: a text that could not be written whole is not staged yet, and
\* its temporary file is there if it was created.
ReplaceFails(w) ==
    /\ Fault(w, {"stage", "backup", "replace"})
    /\ \/ temps' = temps
       \/ At(w, "stage") /\ Create(w, "latest")
    /\ \E e \in Exceptions : exc' = [exc EXCEPT ![w] = e]
    /\ Goto(w, "rollback", "json")
    /\ UNCHANGED clean

\* In a handler: what it has not undone stays, and the new exception is the one raised.
RecoveryFails(w) ==
    /\ Fault(w, {"rollback", "cleanup", "withdraw"})
    /\ \E e \in Exceptions :
          /\ exc' = [exc EXCEPT ![w] = e]
          /\ \/ /\ At(w, "rollback") /\ replaced[w] # {}
                /\ temps' = temps
                /\ Goto(w, "cleanup", "json")
             \/ /\ At(w, "cleanup")
                /\ \E S \in SUBSET Discarded(w) :
                      S # Discarded(w) /\ temps' = [temps EXCEPT ![w] = @ \ S]
                /\ Goto(w, IF e = "os" THEN "withdraw" ELSE "idle", "json")
             \/ /\ At(w, "withdraw") /\ created[w] # {}
                /\ temps' = temps
                /\ Goto(w, IF e = "os" THEN "raised" ELSE "idle", "json")
    /\ clean' = [clean EXCEPT ![w] = FALSE]

\* The process is killed.  Its temporary files have names no later call uses.
Crash(w) ==
    /\ Active(w)
    /\ crashes < MaxCrashes /\ crashes' = crashes + 1
    /\ Goto(w, "idle", "json") /\ Blank(w) /\ doc' = [doc EXCEPT ![w] = Absent]
    /\ UNCHANGED <<directory, published, before, clean, calls, faults>>

Step(w) ==
    \/ WriteEvidence(w) \/ Link(w) \/ Compare(w)
    \/ Stage(w) \/ Backup(w) \/ Replace(w)
    \/ Rollback(w) \/ Cleanup(w) \/ Withdraw(w)

Fails(w) == EvidenceFails(w) \/ ReplaceFails(w) \/ RecoveryFails(w) \/ Crash(w)

Next == \E w \in Writers : Begin(w) \/ Step(w) \/ Fails(w)

Spec == Init /\ [][Next]_vars

------------------------------------------------------------------------------
(* Properties. *)

TypeOK ==
    /\ latest \in Files /\ evidence \in [Slugs -> Files]
    /\ pc \in [Writers -> Steps \cup {"idle", "returned", "raised"}]
    /\ kind \in [Writers -> Kinds]
    /\ doc \in [Writers -> Docs \cup {Absent}]
    /\ exc \in [Writers -> {"none", "os", "interrupt"}]
    /\ created \in [Writers -> SUBSET Kinds] /\ staged \in [Writers -> SUBSET Kinds]
    /\ replaced \in [Writers -> SUBSET Kinds] /\ backup \in [Writers -> Files]
    /\ temps \in [Writers -> SUBSET ({"evidence", "latest", "backup"} \X Kinds)]
    /\ published \subseteq Docs
    /\ before \in [Writers -> [latest : Files, evidence : [Slugs -> Files]]]
    /\ clean \in [Writers -> BOOLEAN]
    /\ calls \in Nat /\ faults \in Nat /\ crashes \in Nat

\* Once a call has returned for a main or release audit, both its retained files are there
\* with its text, whatever later or overlapping calls, failures and deaths do.
PublishedIsRetained ==
    \A d \in published \cap Retained : evidence[Slug[d]] = [k \in Kinds |-> d]

\* A retained file is never given another text, and it goes only in the withdrawal of a
\* call that created it.
KeptOrWithdrawn(s, k) ==
    \/ evidence'[s][k] = evidence[s][k]
    \/ /\ evidence'[s][k] = Absent
       /\ \E w \in Writers : At(w, "withdraw") /\ k \in created[w] /\ evidence[s][k] = doc[w]

KeepsEvidence ==
    \A s \in Slugs, k \in Kinds : evidence[s][k] # Absent => KeptOrWithdrawn(s, k)

EvidenceIsImmutable == [][KeepsEvidence]_vars

\* A call is all or nothing: one that raises leaves the directory as it found it, the latest
\* pair and the evidence, and one that returns has refreshed both latest files and retained
\* what it had to; unless another call overlapped or undoing failed in its turn.
CallIsAtomic ==
    \A w \in Writers : clean[w] =>
        /\ At(w, "raised") => latest = before[w].latest /\ evidence = before[w].evidence
        /\ At(w, "returned") =>
              /\ latest = [k \in Kinds |-> doc[w]]
              /\ doc[w] \in Retained => evidence[Slug[doc[w]]] = latest
==============================================================================
