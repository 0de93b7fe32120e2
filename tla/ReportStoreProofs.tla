--------------------------- MODULE ReportStoreProofs ---------------------------
(***************************************************************************)
(* Retained evidence is neither altered nor lost, for any number of audits *)
(* writing to one directory and any failures and deaths.                   *)
(***************************************************************************)
EXTENDS ReportStore, TLAPS

Retaining == {"write", "link", "compare"}
Replacing == {"stage", "backup", "replace"}

\* The files a call has retained so far.
Kept(w) ==
    IF doc[w] \notin Retained THEN {}
    ELSE IF pc[w] \in Retaining /\ kind[w] = "md" THEN {"json"}
    ELSE IF pc[w] \in Replacing \/ (pc[w] = "cleanup" /\ exc[w] = "none") THEN Kinds
    ELSE {}

\* A call under way has a document.  What it created and may still withdraw is there with
\* its text, and is not the evidence of a document published before; what it retained is
\* there too, whoever created it.
CallOK(w) ==
    /\ Active(w) =>
          /\ doc[w] \in Docs
          /\ \A k \in created[w] : evidence[Slug[doc[w]]][k] = doc[w]
          /\ doc[w] \in published => created[w] = {}
    /\ pc[w] \in Retaining => doc[w] \in Retained
    /\ \A k \in Kept(w) : evidence[Slug[doc[w]]][k] = doc[w]
    /\ pc[w] = "rollback" => exc[w] # "none"

\* Calls under way have different documents.
Distinct == \A v, w \in Writers : Active(v) /\ Active(w) /\ doc[v] = doc[w] => v = w

IInv ==
    /\ TypeOK
    /\ \A w \in Writers : CallOK(w)
    /\ Distinct
    /\ PublishedIsRetained

------------------------------------------------------------------------------
(* Type correctness.  Published documents are documents since those under way are. *)

HasDocs == \A w \in Writers : Active(w) => doc[w] \in Docs

Typed == TypeOK /\ HasDocs

Pcs == Steps \cup {"idle", "returned", "raised"}

ProgressOK == pc \in [Writers -> Pcs] /\ kind \in [Writers -> Kinds]

TempsOK == temps \in [Writers -> SUBSET ({"evidence", "latest", "backup"} \X Kinds)]

\* A step leads to a step.
LEMMA GotoType ==
    ASSUME NEW w \in Writers, TypeOK, NEW step \in Pcs, NEW k \in Kinds, Goto(w, step, k)
    PROVE  ProgressOK'
BY DEF TypeOK, Goto, ProgressOK, Pcs

\* The same for the step after this one.
LEMMA AdvanceType ==
    ASSUME NEW w \in Writers, TypeOK, NEW first \in Pcs, NEW after \in Pcs,
           Advance(w, first, after)
    PROVE  ProgressOK'
BY GotoType DEF Advance, Kinds

\* Temporary files are files.
LEMMA TempsType ==
    ASSUME NEW w \in Writers, TypeOK, NEW use \in {"evidence", "latest", "backup"},
           Create(w, use) \/ Discard(w, use)
    PROVE  TempsOK'
<1>1. kind[w] \in Kinds
  BY DEF TypeOK
<1> DEFINE All == {"evidence", "latest", "backup"} \X Kinds
           file == <<use, kind[w]>>
<1>2. file \in All
  BY <1>1
<1>3. temps \in [Writers -> SUBSET All]
  BY DEF TypeOK
<1>4. temps' = [temps EXCEPT ![w] = @ \cup {file}] \/ temps' = [temps EXCEPT ![w] = @ \ {file}]
  BY DEF Create, Discard
<1> HIDE DEF All, file
<1>5. temps' \in [Writers -> SUBSET All]
  BY <1>2, <1>3, <1>4
<1> QED BY <1>5 DEF TempsOK, All

\* The locals of a new call have their types.
LEMMA BlankType ==
    ASSUME NEW w \in Writers, TypeOK, Blank(w)
    PROVE  /\ exc' \in [Writers -> {"none", "os", "interrupt"}]
           /\ created' \in [Writers -> SUBSET Kinds] /\ staged' \in [Writers -> SUBSET Kinds]
           /\ replaced' \in [Writers -> SUBSET Kinds] /\ backup' \in [Writers -> Files]
           /\ TempsOK'
<1>1. NoFiles \in Files
  BY DEF NoFiles, Files
<1> DEFINE All == {"evidence", "latest", "backup"} \X Kinds
<1>2. temps \in [Writers -> SUBSET All] /\ temps' = [temps EXCEPT ![w] = {}]
  BY DEF TypeOK, Blank
<1> HIDE DEF All
<1>3. temps' \in [Writers -> SUBSET All]
  BY <1>2
<1>4. TempsOK'
  BY <1>3 DEF TempsOK, All
<1> QED BY <1>1, <1>4 DEF TypeOK, Blank

\* Writing one retained file changes that file alone.
LEMMA PutEvidence ==
    ASSUME evidence \in [Slugs -> Files], NEW s \in Slugs, NEW k \in Kinds,
           NEW d \in Docs \cup {Absent}, evidence' = [evidence EXCEPT ![s][k] = d]
    PROVE  /\ evidence' \in [Slugs -> Files]
           /\ evidence'[s][k] = d
           /\ \A t \in Slugs, l \in Kinds :
                 t # s \/ l # k => evidence'[t][l] = evidence[t][l]
<1> DEFINE files == [evidence[s] EXCEPT ![k] = d]
<1>1. evidence[s] \in [Kinds -> Docs \cup {Absent}]
  BY DEF Files
<1>2. /\ files \in [Kinds -> Docs \cup {Absent}] /\ files[k] = d
      /\ \A l \in Kinds : l # k => files[l] = evidence[s][l]
  BY <1>1
<1>3. evidence' = [evidence EXCEPT ![s] = files]
  OBVIOUS
<1> HIDE DEF files
<1>4. evidence' \in [Slugs -> Files]
  BY <1>2, <1>3 DEF Files
<1>5. evidence'[s] = files /\ \A t \in Slugs : t # s => evidence'[t] = evidence[t]
  BY <1>3
<1> QED BY <1>2, <1>4, <1>5

\* Every step preserves the types.
LEMMA TypingStep == Typed /\ [Next]_vars => TypeOK'
<1> SUFFICES ASSUME Typed, [Next]_vars PROVE TypeOK'
  OBVIOUS
<1>0. TypeOK /\ HasDocs
  BY DEF Typed
<1> USE <1>0, ReportStoreAssumption
<1>a. ASSUME ProgressOK', TempsOK'
      PROVE /\ pc' \in [Writers -> Steps \cup {"idle", "returned", "raised"}]
            /\ kind' \in [Writers -> Kinds]
            /\ temps' \in [Writers -> SUBSET ({"evidence", "latest", "backup"} \X Kinds)]
  BY <1>a DEF ProgressOK, TempsOK, Pcs
<1>b. {"idle", "returned", "raised"} \cup Steps \subseteq Pcs /\ {"json", "md"} \subseteq Kinds
  BY DEF Pcs, Kinds
<1>c. {"write", "link", "compare", "stage", "backup", "replace", "rollback",
       "cleanup", "withdraw"} \subseteq Pcs
  BY DEF Pcs, Steps
<1>d. \A w \in Writers : kind[w] \in Kinds
  BY DEF TypeOK
<1>1. ASSUME NEW w \in Writers, Begin(w) PROVE TypeOK'
  <2>1. PICK d \in Docs : doc' = [doc EXCEPT ![w] = d]
                          /\ Goto(w, IF d \in Retained THEN "write" ELSE "stage", "json")
    BY <1>1 DEF Begin
  <2>2. clean' \in [Writers -> BOOLEAN]
    <3>1. clean' = [v \in Writers |-> v = w /\ \A u \in Writers : ~Active(u)]
      BY <1>1 DEF Begin
    <3> QED BY <3>1, Zenon
  <2>3. ProgressOK'
    BY <2>1, <1>b, <1>c, GotoType
  <2>4. before' \in [Writers -> [latest : Files, evidence : [Slugs -> Files]]]
    BY <1>1 DEF TypeOK, Begin
  <2>5. Blank(w)
    BY <1>1 DEF Begin
  <2>6. doc' \in [Writers -> Docs \cup {Absent}]
    BY <2>1 DEF TypeOK
  <2>7. UNCHANGED <<latest, evidence, published, faults, crashes>> /\ calls' \in Nat
    BY <1>1 DEF Begin, directory, TypeOK
  <2>8. TempsOK'
    BY <2>5, BlankType
  <2> QED BY <2>2, <2>3, <2>4, <2>5, <2>6, <2>7, <2>8, <1>a, BlankType DEF TypeOK
<1>2. ASSUME NEW w \in Writers, Step(w) PROVE TypeOK'
  <2>1. CASE WriteEvidence(w)
    <3>1. ProgressOK' /\ TempsOK'
      BY <2>1, <1>c, <1>d, GotoType, TempsType DEF WriteEvidence
    <3> QED BY <2>1, <3>1, <1>a DEF TypeOK, WriteEvidence, directory, history
  <2>2. CASE Link(w)
    <3>1. CASE evidence[Slug[doc[w]]][kind[w]] = Absent
      <4>1. ProgressOK' /\ TempsOK'
        BY <2>2, <3>1, <1>c, AdvanceType, TempsType DEF Link
      <4>2. w \in Writers /\ doc[w] \in Docs /\ kind[w] \in Kinds
        BY <2>2, <1>d DEF Link, At, Active, HasDocs, Steps
      <4>3. evidence' \in [Slugs -> Files]
        <5>1. Slug[doc[w]] \in Slugs
          BY <4>2 DEF ReportStoreAssumption
        <5> QED BY <2>2, <3>1, <4>2, <5>1, PutEvidence DEF Link, TypeOK
      <4>4. created' \in [Writers -> SUBSET Kinds]
        <5>1. created' = [created EXCEPT ![w] = @ \cup {kind[w]}]
          BY <2>2, <3>1 DEF Link
        <5>2. created \in [Writers -> SUBSET Kinds]
          BY DEF TypeOK
        <5> QED BY <4>2, <5>1, <5>2
      <4> QED BY <2>2, <4>1, <4>3, <4>4, <1>a DEF TypeOK, Link, history
    <3>2. CASE evidence[Slug[doc[w]]][kind[w]] # Absent
      <4>1. ProgressOK'
        BY <2>2, <3>2, <1>c, <1>d, GotoType DEF Link
      <4> QED BY <2>2, <3>2, <4>1, <1>a DEF TypeOK, TempsOK, Link, history
    <3> QED BY <3>1, <3>2
  <2>3. CASE Compare(w)
    <3>1. ProgressOK'
      BY <2>3, <1>b, <1>c, AdvanceType, GotoType DEF Compare
    <3>2. TempsOK'
      BY <2>3, TempsType DEF Compare
    <3> QED BY <2>3, <3>1, <3>2, <1>a DEF TypeOK, Compare, directory, history
  <2>4. CASE Stage(w)
    <3>1. ProgressOK' /\ TempsOK'
      BY <2>4, <1>c, <1>d, GotoType, TempsType DEF Stage
    <3> QED BY <2>4, <3>1, <1>a, <1>d DEF TypeOK, Stage, directory, history
  <2>5. CASE Backup(w)
    <3>1. ProgressOK'
      BY <2>5, <1>c, AdvanceType DEF Backup
    <3>2. TempsOK'
      BY <2>5, TempsType DEF Backup, TypeOK, TempsOK
    <3>3. backup' \in [Writers -> Files]
      BY <2>5, <1>d DEF Backup, TypeOK, Files
    <3> QED BY <2>5, <3>1, <3>2, <3>3, <1>a DEF TypeOK, Backup, directory, history
  <2>6. CASE Replace(w)
    <3>1. ProgressOK' /\ TempsOK'
      BY <2>6, <1>c, AdvanceType, TempsType DEF Replace
    <3>2. latest' \in Files /\ replaced' \in [Writers -> SUBSET Kinds]
          /\ staged' \in [Writers -> SUBSET Kinds]
      BY <2>6, <1>d DEF Replace, TypeOK, Files
    <3> QED BY <2>6, <3>1, <3>2, <1>a DEF TypeOK, Replace, history
  <2>7. CASE Rollback(w)
    <3>1. ProgressOK'
      BY <2>7, <1>b, <1>c, GotoType DEF Rollback
    <3>2. TempsOK'
      BY <2>7 DEF Rollback, TypeOK, TempsOK
    <3>3. latest' \in Files /\ backup' \in [Writers -> Files]
      BY <2>7 DEF Rollback, TypeOK, Files
    <3> QED BY <2>7, <3>1, <3>2, <3>3, <1>a DEF TypeOK, Rollback, history
  <2>8. CASE Cleanup(w)
    <3>1. published' \subseteq Docs
      BY <2>8 DEF TypeOK, Cleanup, Returned, HasDocs, Active, At, Steps
    <3>2. ProgressOK'
      BY <2>8, <1>b, <1>c, GotoType DEF Cleanup, Returned
    <3>3. TempsOK'
      BY <2>8 DEF Cleanup, TypeOK, TempsOK
    <3> QED BY <2>8, <3>1, <3>2, <3>3, <1>a DEF TypeOK, Cleanup, directory
  <2>9. CASE Withdraw(w)
    <3>1. ProgressOK'
      BY <2>9, <1>b, GotoType DEF Withdraw, TypeOK, ProgressOK, Pcs
    <3>2. evidence' \in [Slugs -> Files]
      <4>1. Slug[doc[w]] \in Slugs /\ created[w] \subseteq Kinds
        BY <2>9 DEF Withdraw, At, Active, HasDocs, Steps, TypeOK, ReportStoreAssumption
      <4> QED BY <2>9, <4>1, PutEvidence DEF Withdraw, TypeOK
    <3>3. created' \in [Writers -> SUBSET Kinds]
      <4>1. created' = created \/ \E k \in Kinds : created' = [created EXCEPT ![w] = @ \ {k}]
        BY <2>9 DEF Withdraw, TypeOK
      <4>2. created \in [Writers -> SUBSET Kinds]
        BY DEF TypeOK
      <4> QED BY <4>1, <4>2
    <3> QED BY <2>9, <3>1, <3>2, <3>3, <1>a DEF TypeOK, TempsOK, Withdraw, history
  <2> QED BY <1>2, <2>1, <2>2, <2>3, <2>4, <2>5, <2>6, <2>7, <2>8, <2>9 DEF Step
<1>3. ASSUME NEW w \in Writers, Fails(w) PROVE TypeOK'
  <2>1. ASSUME NEW steps, Fault(w, steps)
        PROVE  /\ UNCHANGED <<directory, doc, created, staged, replaced, backup, published,
                              before, calls, crashes>>
               /\ faults' \in Nat
    BY <2>1 DEF Fault, TypeOK
  <2>2. ASSUME NEW e \in Exceptions, exc' = [exc EXCEPT ![w] = e]
        PROVE  exc' \in [Writers -> {"none", "os", "interrupt"}]
    BY <2>2 DEF TypeOK, Exceptions
  <2>3. CASE EvidenceFails(w)
    <3>1. ProgressOK' /\ TempsOK'
      BY <2>3, <1>b, <1>c, GotoType, TempsType DEF EvidenceFails
    <3> QED BY <2>1, <2>2, <2>3, <3>1, <1>a DEF TypeOK, EvidenceFails, directory
  <2>4. CASE ReplaceFails(w)
    <3>1. ProgressOK'
      BY <2>4, <1>b, <1>c, GotoType DEF ReplaceFails
    <3>2. TempsOK'
      BY <2>4, TempsType DEF ReplaceFails, TypeOK, TempsOK
    <3> QED BY <2>1, <2>2, <2>4, <3>1, <3>2, <1>a DEF TypeOK, ReplaceFails, directory
  <2>5. CASE RecoveryFails(w)
    <3>1. ProgressOK'
      BY <2>5, <1>b, <1>c, GotoType DEF RecoveryFails
    <3>2. TempsOK'
      BY <2>5 DEF RecoveryFails, TypeOK, TempsOK
    <3>3. clean' \in [Writers -> BOOLEAN]
      BY <2>5 DEF RecoveryFails, TypeOK
    <3> QED BY <2>1, <2>2, <2>5, <3>1, <3>2, <3>3, <1>a DEF TypeOK, RecoveryFails, directory
  <2>6. CASE Crash(w)
    <3>1. ProgressOK'
      BY <2>6, <1>b, GotoType DEF Crash
    <3>2. Blank(w)
      BY <2>6 DEF Crash
    <3>3. doc' \in [Writers -> Docs \cup {Absent}]
      BY <2>6 DEF Crash, TypeOK
    <3>4. UNCHANGED <<latest, evidence, published, before, clean, calls, faults>>
          /\ crashes' \in Nat
      BY <2>6 DEF Crash, directory, TypeOK
    <3>5. TempsOK'
      BY <3>2, BlankType
    <3> QED BY <3>1, <3>2, <3>3, <3>4, <3>5, <1>a, BlankType DEF TypeOK
  <2> QED BY <1>3, <2>3, <2>4, <2>5, <2>6 DEF Fails
<1>4. CASE UNCHANGED vars
  BY <1>4 DEF TypeOK, vars, directory, locals, history
<1> QED BY <1>1, <1>2, <1>3, <1>4 DEF Next

------------------------------------------------------------------------------
(* The invariant. *)

\* A step of w keeps to its own locals, and touches evidence that is absent or its own.
Frame(w) ==
    /\ \A v \in Writers \ {w} :
          /\ pc'[v] = pc[v] /\ kind'[v] = kind[v] /\ exc'[v] = exc[v]
          /\ doc'[v] = doc[v] /\ created'[v] = created[v]
    /\ \/ UNCHANGED <<evidence, published>>
       \/ /\ Active(w)
          /\ published' \subseteq published \cup {doc[w]}
          /\ \A s \in Slugs, k \in Kinds :
                evidence'[s][k] # evidence[s][k] =>
                    \/ evidence[s][k] = Absent
                    \/ evidence[s][k] = doc[w] /\ k \in created[w]

\* Then the other calls are as they were.
LEMMA OthersStay ==
    ASSUME IInv, NEW w \in Writers, Frame(w), NEW v \in Writers \ {w}
    PROVE  CallOK(v)'
<1> USE ReportStoreAssumption DEF Kinds
<1>1. /\ pc'[v] = pc[v] /\ kind'[v] = kind[v] /\ exc'[v] = exc[v]
      /\ doc'[v] = doc[v] /\ created'[v] = created[v]
  BY DEF Frame
<1>2. CallOK(v) /\ created[v] \subseteq Kinds
  BY DEF IInv, TypeOK
<1>3. Kept(v)' = Kept(v) /\ Active(v)' = Active(v) /\ (Kept(v) # {} => Active(v))
      /\ Kept(v) \subseteq Kinds
  BY <1>1 DEF Kept, Active, Retaining, Replacing, Steps
<1>4. CASE UNCHANGED <<evidence, published>>
  BY <1>1, <1>2, <1>3, <1>4 DEF CallOK
<1>5. CASE Active(v) /\ Active(w) /\ ~UNCHANGED <<evidence, published>>
  <2>1. doc[v] \in Docs /\ doc[v] # doc[w] /\ doc[v] # Absent /\ Slug[doc[v]] \in Slugs
    BY <1>2, <1>5 DEF IInv, Distinct, CallOK
  <2>2. \A k \in Kinds : evidence[Slug[doc[v]]][k] = doc[v] =>
                             evidence'[Slug[doc[v]]][k] = doc[v]
    BY <1>5, <2>1 DEF Frame
  <2>3. doc[v] \in published' => doc[v] \in published
    BY <1>5, <2>1 DEF Frame
  <2> QED BY <1>1, <1>2, <1>3, <2>1, <2>2, <2>3 DEF CallOK
<1>6. CASE ~Active(v)
  BY <1>1, <1>2, <1>3, <1>6 DEF CallOK
<1> QED BY <1>4, <1>5, <1>6 DEF Frame

\* And so is the evidence of every document that was published.
LEMMA PublishedStays ==
    ASSUME IInv, NEW w \in Writers, Frame(w), TypeOK', NEW d \in published \cap Retained
    PROVE  evidence'[Slug[d]] = [k \in Kinds |-> d]
<1> USE ReportStoreAssumption
<1>1. /\ evidence[Slug[d]] = [k \in Kinds |-> d] /\ d # Absent
      /\ Slug[d] \in Slugs
  BY DEF IInv, TypeOK, PublishedIsRetained
<1>2. \A k \in Kinds : evidence'[Slug[d]][k] = d
  <2> TAKE k \in Kinds
  <2>1. evidence[Slug[d]][k] = d
    BY <1>1
  <2>2. Active(w) /\ doc[w] = d => created[w] = {}
    BY DEF IInv, CallOK
  <2> QED BY <1>1, <2>1, <2>2 DEF Frame
<1>3. evidence'[Slug[d]] \in Files
  BY <1>1 DEF TypeOK
<1> QED BY <1>2, <1>3 DEF Files

\* What is left to show of a step of a call.
LEMMA CallStep ==
    ASSUME IInv, TypeOK', NEW w \in Writers, Frame(w), CallOK(w)', UNCHANGED doc,
           Active(w)' => Active(w),
           \A d \in published' \ published : d \in Retained =>
               evidence'[Slug[d]] = [k \in Kinds |-> d]
    PROVE  IInv'
<1>1. \A v \in Writers : CallOK(v)'
  BY OthersStay
<1>2. Distinct'
  <2>1. \A v \in Writers : Active(v)' => Active(v)
    BY DEF Frame, Active
  <2> QED BY <2>1 DEF IInv, Distinct
<1>3. PublishedIsRetained'
  BY PublishedStays DEF PublishedIsRetained
<1> QED BY <1>1, <1>2, <1>3 DEF IInv

\* Steps that leave the evidence and the published documents alone.
LEMMA QuietFrame ==
    ASSUME IInv, NEW w \in Writers, NEW step \in Pcs, NEW k \in Kinds, Goto(w, step, k),
           exc' = exc \/ \E e \in Exceptions : exc' = [exc EXCEPT ![w] = e],
           created' = created \/ \E c \in SUBSET Kinds : created' = [created EXCEPT ![w] = c],
           doc' = doc \/ \E d \in Docs \cup {Absent} : doc' = [doc EXCEPT ![w] = d],
           UNCHANGED <<evidence, published>>
    PROVE  Frame(w) /\ pc'[w] = step /\ kind'[w] = k
BY DEF IInv, TypeOK, Goto, Frame, Pcs, Exceptions

\* Beginning a call.
LEMMA BeginStep == ASSUME IInv, TypeOK', NEW w \in Writers, Begin(w) PROVE IInv'
<1>1. PICK d \in Docs :
        /\ \A v \in Writers : Active(v) => doc[v] # d
        /\ doc' = [doc EXCEPT ![w] = d]
        /\ Goto(w, IF d \in Retained THEN "write" ELSE "stage", "json")
  BY DEF Begin
<1>2. UNCHANGED <<evidence, published>> /\ exc' = [exc EXCEPT ![w] = "none"]
      /\ created' = [created EXCEPT ![w] = {}] /\ ~Active(w)
  BY DEF Begin, Blank, directory, Active
<1>3. /\ pc'[w] = IF d \in Retained THEN "write" ELSE "stage"
      /\ kind'[w] = "json" /\ doc'[w] = d /\ created'[w] = {}
  BY <1>1, <1>2 DEF Goto, IInv, TypeOK
<1>4. Frame(w)
  BY <1>1, <1>2 DEF Frame, Goto, IInv, TypeOK
<1>5. CallOK(w)'
  BY <1>3 DEF CallOK, Kept, Retaining, Replacing
<1>6. \A v \in Writers : CallOK(v)'
  BY <1>4, <1>5, OthersStay
<1>7. Distinct'
  <2>1. \A v \in Writers \ {w} : pc'[v] = pc[v] /\ doc'[v] = doc[v]
    BY <1>4 DEF Frame
  <2> QED BY <1>1, <1>3, <2>1 DEF IInv, Distinct, Active
<1>8. PublishedIsRetained'
  BY <1>2 DEF IInv, PublishedIsRetained
<1> QED BY <1>6, <1>7, <1>8 DEF IInv

\* Retaining evidence.
LEMMA RetainStep ==
    ASSUME IInv, TypeOK', NEW w \in Writers, WriteEvidence(w) \/ Link(w) \/ Compare(w)
    PROVE  IInv'
<1>0. /\ pc[w] \in Retaining /\ Active(w) /\ doc[w] \in Retained /\ doc[w] \in Docs
      /\ UNCHANGED <<doc, published>> /\ kind[w] \in Kinds /\ CallOK(w)
      /\ Slug[doc[w]] \in Slugs
  <2>1. pc[w] \in Retaining /\ UNCHANGED <<doc, published>>
    BY DEF WriteEvidence, Link, Compare, At, Retaining, directory, history
  <2>2. CallOK(w) /\ kind[w] \in Kinds
    BY DEF IInv, TypeOK
  <2>3. Active(w) /\ doc[w] \in Retained /\ doc[w] \in Docs
    BY <2>1, <2>2 DEF CallOK, Retaining, Active, Steps
  <2> QED BY <2>1, <2>2, <2>3, ReportStoreAssumption
<1>1. {"write", "link", "compare", "stage", "withdraw"} \subseteq Pcs /\ {"json", "md"} = Kinds
  BY DEF Pcs, Steps, Kinds
<1>2. CASE WriteEvidence(w)
  <2>1. Goto(w, "link", kind[w]) /\ UNCHANGED <<evidence, published, exc, created, doc>>
    BY <1>2 DEF WriteEvidence, directory, history
  <2>2. Frame(w) /\ pc'[w] = "link" /\ kind'[w] = kind[w]
    BY <1>0, <1>1, <2>1, QuietFrame
  <2>3. CallOK(w)'
    BY <1>0, <2>1, <2>2 DEF CallOK, Kept, Retaining, Replacing, Active
  <2> QED BY <1>0, <2>1, <2>2, <2>3, CallStep
<1>3. CASE Link(w) /\ evidence[Slug[doc[w]]][kind[w]] = Absent
  <2>1. /\ evidence' = [evidence EXCEPT ![Slug[doc[w]]][kind[w]] = doc[w]]
        /\ created' = [created EXCEPT ![w] = @ \cup {kind[w]}]
        /\ Advance(w, "write", "stage") /\ UNCHANGED exc
    BY <1>3 DEF Link
  <2>2. /\ evidence'[Slug[doc[w]]][kind[w]] = doc[w]
        /\ \A t \in Slugs, l \in Kinds :
              t # Slug[doc[w]] \/ l # kind[w] => evidence'[t][l] = evidence[t][l]
    <3>1. evidence \in [Slugs -> Files] /\ doc[w] \in Docs \cup {Absent}
      BY <1>0 DEF IInv, TypeOK
    <3>2. evidence' = [evidence EXCEPT ![Slug[doc[w]]][kind[w]] = doc[w]]
      BY <2>1
    <3>3. Slug[doc[w]] \in Slugs /\ kind[w] \in Kinds
      BY <1>0
    <3>4. \A t \in Slugs, l \in Kinds :
            t # Slug[doc[w]] \/ l # kind[w] => evidence'[t][l] = evidence[t][l]
      BY <3>1, <3>2, <3>3, PutEvidence
    <3>5. evidence'[Slug[doc[w]]][kind[w]] = doc[w]
      BY <3>1, <3>2, <3>3 DEF Files
    <3> QED BY <3>4, <3>5
  <2>3. /\ pc' = [pc EXCEPT ![w] = IF kind[w] = "json" THEN "write" ELSE "stage"]
        /\ kind' = [kind EXCEPT ![w] = IF kind[w] = "json" THEN "md" ELSE "json"]
    BY <2>1 DEF Advance, Goto
  <2>4. /\ pc'[w] = IF kind[w] = "json" THEN "write" ELSE "stage"
        /\ kind'[w] = IF kind[w] = "json" THEN "md" ELSE "json"
        /\ created'[w] = created[w] \cup {kind[w]}
    BY <2>1, <2>3 DEF IInv, TypeOK
  <2>5. Frame(w)
    BY <1>0, <1>3, <2>1, <2>2, <2>3 DEF Frame, IInv, TypeOK
  <2>6. doc[w] \notin published
    <3>1. doc[w] \in published => evidence[Slug[doc[w]]] = [k \in Kinds |-> doc[w]]
      BY <1>0 DEF IInv, PublishedIsRetained
    <3>2. doc[w] # Absent
      BY <1>0, ReportStoreAssumption
    <3> QED BY <1>0, <1>3, <3>1, <3>2
  <2>7. \A k \in created[w] : evidence'[Slug[doc[w]]][k] = doc[w]
    <3>1. created[w] \subseteq Kinds
      BY DEF IInv, TypeOK
    <3> QED BY <1>0, <2>2, <3>1 DEF CallOK
  <2>8. \A k \in Kept(w) : evidence'[Slug[doc[w]]][k] = doc[w]
    <3>1. Kept(w) \subseteq Kinds
      BY <1>1 DEF Kept
    <3> QED BY <1>0, <2>2, <3>1 DEF CallOK
  <2>9. CallOK(w)'
    <3>1. Kept(w)' \subseteq Kept(w) \cup {kind[w]}
      BY <1>0, <1>1, <2>4 DEF Kept, Retaining, Replacing
    <3> QED BY <1>0, <2>2, <2>4, <2>6, <2>7, <2>8, <3>1 DEF CallOK, Retaining
  <2> QED BY <1>0, <2>5, <2>9, CallStep
<1>4. CASE Link(w) /\ evidence[Slug[doc[w]]][kind[w]] # Absent
  <2>1. Goto(w, "compare", kind[w]) /\ UNCHANGED <<evidence, published, exc, created, doc>>
    BY <1>4 DEF Link, history
  <2>2. Frame(w) /\ pc'[w] = "compare" /\ kind'[w] = kind[w]
    BY <1>0, <1>1, <2>1, QuietFrame
  <2>3. CallOK(w)'
    BY <1>0, <2>1, <2>2 DEF CallOK, Kept, Retaining, Replacing, Active
  <2> QED BY <1>0, <2>1, <2>2, <2>3, CallStep
<1>5. CASE Compare(w) /\ evidence[Slug[doc[w]]][kind[w]] = doc[w]
  <2> DEFINE step == IF kind[w] = "json" THEN "write" ELSE "stage"
             next == IF kind[w] = "json" THEN "md" ELSE "json"
  <2>1. Goto(w, step, next) /\ UNCHANGED <<evidence, published, exc, created, doc>>
    BY <1>5 DEF Compare, Advance, directory, history
  <2>2. Frame(w) /\ pc'[w] = step /\ kind'[w] = next
    BY <1>0, <1>1, <2>1, QuietFrame
  <2>3. CallOK(w)'
    <3>1. Kept(w)' \subseteq Kept(w) \cup {kind[w]}
      BY <1>0, <1>1, <2>1, <2>2 DEF Kept, Retaining, Replacing
    <3> QED BY <1>0, <1>5, <2>1, <2>2, <3>1 DEF CallOK, Retaining
  <2> QED BY <1>0, <2>1, <2>2, <2>3, CallStep
<1>6. CASE Compare(w) /\ evidence[Slug[doc[w]]][kind[w]] # doc[w]
  <2>1. /\ Goto(w, "withdraw", "json") /\ UNCHANGED <<evidence, published, created, doc>>
        /\ exc' = [exc EXCEPT ![w] = "os"]
    BY <1>6 DEF Compare, directory, history
  <2>2. Frame(w) /\ pc'[w] = "withdraw" /\ kind'[w] = "json"
    BY <1>0, <1>1, <2>1, QuietFrame DEF Exceptions
  <2>3. CallOK(w)'
    BY <1>0, <2>1, <2>2 DEF CallOK, Kept, Retaining, Replacing, Active
  <2> QED BY <1>0, <2>1, <2>2, <2>3, CallStep
<1> QED BY <1>2, <1>3, <1>4, <1>5, <1>6

\* Replacing the latest files.
LEMMA ReplaceStep ==
    ASSUME IInv, TypeOK', NEW w \in Writers, Stage(w) \/ Backup(w) \/ Replace(w) \/ Rollback(w)
    PROVE  IInv'
<1>0. /\ pc[w] \in Replacing \cup {"rollback"} /\ Active(w) /\ CallOK(w) /\ kind[w] \in Kinds
      /\ UNCHANGED <<evidence, published, doc, exc, created>>
  BY DEF Stage, Backup, Replace, Rollback, At, Replacing, Active, Steps, IInv, TypeOK,
         directory, history
<1>1. {"stage", "backup", "replace", "cleanup", "rollback"} \subseteq Pcs /\ {"json", "md"} = Kinds
  BY DEF Pcs, Steps, Kinds
<1>2. PICK step \in Replacing \cup {"cleanup"}, k \in Kinds :
         Goto(w, step, k) /\ (pc[w] = "rollback" => step = "cleanup")
  BY <1>0, <1>1 DEF Stage, Backup, Replace, Rollback, At, Advance, Replacing
<1>3. Frame(w) /\ pc'[w] = step
  BY <1>0, <1>1, <1>2, QuietFrame DEF Replacing
<1>4. CallOK(w)'
  <2>1. Kept(w)' \subseteq Kept(w)
    BY <1>0, <1>2, <1>3 DEF Kept, Retaining, Replacing, CallOK
  <2> QED BY <1>0, <1>2, <1>3, <2>1 DEF CallOK, Retaining, Replacing
<1> QED BY <1>0, <1>3, <1>4, CallStep

\* Ending a call.
LEMMA CleanupStep == ASSUME IInv, TypeOK', NEW w \in Writers, Cleanup(w) PROVE IInv'
<1>0. /\ pc[w] = "cleanup" /\ Active(w) /\ CallOK(w) /\ doc[w] \in Docs
      /\ UNCHANGED <<evidence, doc, exc, created>>
  BY DEF Cleanup, At, Active, Steps, IInv, CallOK, directory
<1>1. {"returned", "withdraw", "idle"} \subseteq Pcs /\ "json" \in Kinds
  BY DEF Pcs, Steps, Kinds
<1>2. PICK step \in {"returned", "withdraw", "idle"} :
        /\ Goto(w, step, "json")
        /\ \/ published' = published /\ step # "returned"
           \/ published' = published \cup {doc[w]} /\ step = "returned" /\ exc[w] = "none"
  BY DEF Cleanup, Returned
<1>3. pc'[w] = step
  BY <1>2 DEF Goto, IInv, TypeOK
<1>4. Frame(w)
  BY <1>0, <1>2 DEF Frame, Goto, IInv, TypeOK
<1>5. CallOK(w)'
  BY <1>0, <1>2, <1>3 DEF CallOK, Kept, Retaining, Replacing, Active, Steps
<1>6. \A d \in published' \ published : d \in Retained =>
        evidence'[Slug[d]] = [k \in Kinds |-> d]
  <2> SUFFICES ASSUME doc[w] \in Retained, exc[w] = "none"
               PROVE  evidence[Slug[doc[w]]] = [k \in Kinds |-> doc[w]]
    BY <1>0, <1>2
  <2>1. \A k \in Kinds : evidence[Slug[doc[w]]][k] = doc[w]
    BY <1>0 DEF CallOK, Kept, Retaining, Replacing
  <2>2. evidence[Slug[doc[w]]] \in Files
    BY <1>0, ReportStoreAssumption DEF IInv, TypeOK
  <2> QED BY <2>1, <2>2 DEF Files
<1> QED BY <1>0, <1>4, <1>5, <1>6, CallStep

\* Withdrawing what a call created.
LEMMA WithdrawStep == ASSUME IInv, TypeOK', NEW w \in Writers, Withdraw(w) PROVE IInv'
<1>0. /\ pc[w] = "withdraw" /\ Active(w) /\ CallOK(w) /\ doc[w] \in Docs
      /\ created[w] \subseteq Kinds /\ Slug[doc[w]] \in Slugs
      /\ UNCHANGED <<published, doc, exc>>
  BY ReportStoreAssumption DEF Withdraw, At, Active, Steps, IInv, CallOK, TypeOK, history
<1>1. CASE created[w] = {} /\ Goto(w, "raised", "json") /\ UNCHANGED <<evidence, created>>
  <2>1. "raised" \in Pcs /\ "json" \in Kinds
    BY DEF Pcs, Kinds
  <2>2. Frame(w) /\ pc'[w] = "raised"
    BY <1>0, <1>1, <2>1, QuietFrame
  <2>3. CallOK(w)'
    BY <1>0, <1>1, <2>2 DEF CallOK, Kept, Retaining, Replacing, Active, Steps
  <2> QED BY <1>0, <2>2, <2>3, CallStep
<1>2. ASSUME NEW k \in created[w],
             evidence' = [evidence EXCEPT ![Slug[doc[w]]][k] = Absent],
             created' = [created EXCEPT ![w] = @ \ {k}], UNCHANGED <<pc, kind>>
      PROVE  IInv'
  <2>1. \A t \in Slugs, l \in Kinds :
          t # Slug[doc[w]] \/ l # k => evidence'[t][l] = evidence[t][l]
    <3>1. evidence \in [Slugs -> Files] /\ Absent \in Docs \cup {Absent} /\ k \in Kinds
      BY <1>0, <1>2 DEF IInv, TypeOK
    <3> QED BY <1>0, <1>2, <3>1, PutEvidence
  <2>2. created'[w] = created[w] \ {k}
    BY <1>2 DEF IInv, TypeOK
  <2>3. evidence[Slug[doc[w]]][k] = doc[w]
    BY <1>0, <1>2 DEF CallOK
  <2>4. Frame(w)
    BY <1>0, <1>2, <2>1, <2>3 DEF Frame, IInv, TypeOK
  <2>5. CallOK(w)'
    BY <1>0, <1>2, <2>1, <2>2 DEF CallOK, Kept, Retaining, Replacing, Active
  <2> QED BY <1>0, <1>2, <2>4, <2>5, CallStep DEF Active
<1> QED BY <1>1, <1>2 DEF Withdraw

\* Failing.
LEMMA FailStep == ASSUME IInv, TypeOK', NEW w \in Writers, Fails(w) PROVE IInv'
<1>0. Active(w) /\ CallOK(w) /\ doc[w] \in Docs /\ UNCHANGED <<evidence, published>>
  <2>1. CASE Crash(w)
    BY <2>1 DEF Crash, directory, IInv, CallOK
  <2>2. ASSUME NEW steps, steps \subseteq Steps, Fault(w, steps)
        PROVE  Active(w) /\ UNCHANGED <<evidence, published>>
    BY <2>2 DEF Fault, Active, directory
  <2>3. CASE ~Crash(w)
    <3>1. /\ {"write", "link", "compare"} \subseteq Steps
          /\ {"stage", "backup", "replace"} \subseteq Steps
          /\ {"rollback", "cleanup", "withdraw"} \subseteq Steps
      BY DEF Steps
    <3>2. Active(w) /\ UNCHANGED <<evidence, published>>
      BY <2>2, <2>3, <3>1 DEF Fails, EvidenceFails, ReplaceFails, RecoveryFails
    <3> QED BY <3>2 DEF IInv, CallOK
  <2> QED BY <2>1, <2>3
<1>1. {"withdraw", "idle", "rollback", "cleanup", "raised"} \subseteq Pcs /\ "json" \in Kinds
  BY DEF Pcs, Steps, Kinds
<1>2. CASE ~Crash(w)
  <2>1. PICK step \in {"withdraw", "idle", "rollback", "cleanup", "raised"}, e \in Exceptions :
          Goto(w, step, "json") /\ exc' = [exc EXCEPT ![w] = e]
    BY <1>2 DEF Fails, EvidenceFails, ReplaceFails, RecoveryFails
  <2>2. UNCHANGED <<doc, created>>
    BY <1>2 DEF Fails, EvidenceFails, ReplaceFails, RecoveryFails, Fault
  <2>3. Frame(w) /\ pc'[w] = step /\ exc'[w] = e
    BY <1>0, <1>1, <2>1, <2>2, QuietFrame DEF IInv, TypeOK, Exceptions
  <2>4. CallOK(w)'
    BY <1>0, <2>1, <2>2, <2>3 DEF CallOK, Kept, Retaining, Replacing, Active, Exceptions
  <2> QED BY <1>0, <2>2, <2>3, <2>4, CallStep
<1>3. CASE Crash(w)
  <2>1. /\ Goto(w, "idle", "json") /\ exc' = [exc EXCEPT ![w] = "none"]
        /\ created' = [created EXCEPT ![w] = {}] /\ doc' = [doc EXCEPT ![w] = Absent]
    BY <1>3 DEF Crash, Blank
  <2>2. Frame(w) /\ pc'[w] = "idle"
    BY <1>0, <2>1 DEF Frame, Goto, IInv, TypeOK
  <2>3. CallOK(w)'
    BY <2>2 DEF CallOK, Kept, Retaining, Replacing, Active, Steps
  <2>4. \A v \in Writers : CallOK(v)'
    BY <2>2, <2>3, OthersStay
  <2>5. Distinct'
    BY <2>2 DEF IInv, Distinct, Frame, Active, Steps
  <2>6. PublishedIsRetained'
    BY <1>0 DEF IInv, PublishedIsRetained
  <2> QED BY <2>4, <2>5, <2>6 DEF IInv
<1> QED BY <1>2, <1>3

------------------------------------------------------------------------------
(* The theorems. *)

\* The invariant holds of every behaviour.
THEOREM Invariance == Spec => []IInv
<1>1. Init => IInv
  <2> SUFFICES ASSUME Init PROVE IInv
    OBVIOUS
  <2>1. NoFiles \in Files
    BY DEF NoFiles, Files
  <2>2. TypeOK
    BY <2>1 DEF Init, TypeOK, Kinds
  <2>3. Distinct /\ PublishedIsRetained
    BY DEF Init, Distinct, PublishedIsRetained, Active, Steps
  <2>4. \A w \in Writers : CallOK(w)
    BY DEF Init, CallOK, Kept, Retaining, Replacing, Active, Steps
  <2> QED BY <2>2, <2>3, <2>4 DEF IInv
<1>2. IInv /\ [Next]_vars => IInv'
  <2> SUFFICES ASSUME IInv, [Next]_vars PROVE IInv'
    OBVIOUS
  <2>1. TypeOK'
    <3>1. Typed
      BY DEF IInv, Typed, HasDocs, CallOK
    <3> QED BY <3>1, TypingStep
  <2>2. CASE UNCHANGED vars
    BY <2>1, <2>2 DEF IInv, Distinct, PublishedIsRetained, CallOK, Kept, Active,
                      vars, directory, locals, history
  <2>3. ASSUME NEW w \in Writers, Begin(w) \/ Step(w) \/ Fails(w) PROVE IInv'
    BY <2>1, <2>3, BeginStep, RetainStep, ReplaceStep, CleanupStep, WithdrawStep, FailStep
       DEF Step
  <2> QED BY <2>2, <2>3 DEF Next
<1> QED BY <1>1, <1>2, PTL DEF Spec

\* Type correctness: the directory holds documents and each call is at a step of the code.
THEOREM TypeCorrect == Spec => []TypeOK
BY Invariance, PTL DEF IInv

\* What a main or release audit has retained when write_reports returns stays there,
\* whatever other audits, failing calls and dying processes do.
THEOREM RetainedForever == Spec => []PublishedIsRetained
BY Invariance, PTL DEF IInv

\* A retained file never changes its text, and only a call that created it withdraws it.
THEOREM Immutable == Spec => EvidenceIsImmutable
<1>1. IInv /\ [Next]_vars => [KeepsEvidence]_vars
  <2> SUFFICES ASSUME IInv, Next PROVE KeepsEvidence
    OBVIOUS
  <2>1. PICK w \in Writers : Begin(w) \/ Step(w) \/ Fails(w)
    BY DEF Next
  <2>2. CASE UNCHANGED evidence
    BY <2>2 DEF KeepsEvidence, KeptOrWithdrawn
  <2>3. CASE Link(w) /\ ~UNCHANGED evidence
    <3>1. /\ kind[w] \in Kinds /\ Slug[doc[w]] \in Slugs /\ doc[w] \in Docs \cup {Absent}
          /\ evidence[Slug[doc[w]]][kind[w]] = Absent
          /\ evidence' = [evidence EXCEPT ![Slug[doc[w]]][kind[w]] = doc[w]]
          /\ evidence \in [Slugs -> Files]
      BY <2>3, ReportStoreAssumption DEF Link, At, IInv, TypeOK, CallOK, Active, Steps
    <3> QED BY <3>1, PutEvidence DEF KeepsEvidence, KeptOrWithdrawn
  <2>4. CASE Withdraw(w) /\ ~UNCHANGED evidence
    <3>1. PICK k \in created[w] : evidence' = [evidence EXCEPT ![Slug[doc[w]]][k] = Absent]
      BY <2>4 DEF Withdraw
    <3>2. /\ k \in Kinds /\ Slug[doc[w]] \in Slugs /\ Absent \in Docs \cup {Absent}
          /\ evidence[Slug[doc[w]]][k] = doc[w] /\ evidence \in [Slugs -> Files]
          /\ At(w, "withdraw")
      BY <2>4, <3>1, ReportStoreAssumption
         DEF Withdraw, At, IInv, TypeOK, CallOK, Active, Steps
    <3> QED BY <3>1, <3>2, PutEvidence DEF KeepsEvidence, KeptOrWithdrawn
  <2> QED BY <2>1, <2>2, <2>3, <2>4
          DEF Step, Fails, Begin, WriteEvidence, Compare, Stage, Backup, Replace, Rollback,
              Cleanup, EvidenceFails, ReplaceFails, RecoveryFails, Crash, Fault, directory
<1> QED BY <1>1, Invariance, PTL DEF Spec, EvidenceIsImmutable

------------------------------------------------------------------------------
(* A call is all or nothing. *)

Alone(w) == \A v \in Writers : v # w => ~Active(v)

\* The evidence is what the call found, but for what it created where there was nothing.
EvidenceTraced(w) ==
    \A s \in Slugs, k \in Kinds :
        IF s = Slug[doc[w]] /\ k \in created[w]
        THEN before[w].evidence[s][k] = Absent
        ELSE evidence[s][k] = before[w].evidence[s][k]

\* The latest files that hold the text of the call.
Refreshed(w) ==
    IF pc[w] \in {"replace", "rollback"} THEN replaced[w]
    ELSE IF pc[w] = "returned" \/ (pc[w] = "cleanup" /\ exc[w] = "none") THEN Kinds
    ELSE {}

\* The latest files whose backup the call has, and may need.
Saved(w) ==
    IF pc[w] = "replace" THEN Kinds
    ELSE IF pc[w] \in {"stage", "backup"} /\ kind[w] = "md" THEN {"json"}
    ELSE IF pc[w] = "rollback" THEN replaced[w]
    ELSE {}

LatestTraced(w) ==
    \A k \in Kinds :
        /\ latest[k] = IF k \in Refreshed(w) THEN doc[w] ELSE before[w].latest[k]
        /\ k \in Saved(w) => backup[w][k] = before[w].latest[k]

\* How far the call is.
InOrder(w) ==
    /\ pc[w] \in Retaining \cup Replacing => exc[w] = "none"
    /\ pc[w] \in Retaining \cup {"stage", "backup"} => replaced[w] = {}
    /\ pc[w] = "replace" => replaced[w] = IF kind[w] = "md" THEN {"json"} ELSE {}
    /\ pc[w] = "raised" => created[w] = {}
    /\ pc[w] = "returned" => doc[w] \in published

Traced(w) == pc[w] # "idle" => EvidenceTraced(w) /\ LatestTraced(w) /\ InOrder(w)

\* What holds of a call no other overlapped and in which no handler failed.
AtomicOK(w) == clean[w] => Alone(w) /\ Traced(w)

Atomic == \A w \in Writers : AtomicOK(w)

AInv == IInv /\ Atomic

\* The steps of a call concern no other that is clean.
LEMMA AtomicStep ==
    ASSUME AInv, NEW w \in Writers, Active(w), UNCHANGED <<clean, before>>, Traced(w)',
           \A v \in Writers : v # w => pc'[v] = pc[v]
    PROVE  \A v \in Writers : AtomicOK(v)'
<1>1. ASSUME NEW v \in Writers, v # w, clean[v] PROVE FALSE
  BY <1>1 DEF AInv, Atomic, AtomicOK, Alone
<1>2. AtomicOK(w) => AtomicOK(w)'
  BY DEF AtomicOK, Alone, Active
<1> QED BY <1>1, <1>2 DEF AInv, Atomic, AtomicOK

\* The evidence is still traced when neither it nor what the call created changes.
LEMMA EvidenceStays ==
    ASSUME NEW w \in Writers, EvidenceTraced(w), UNCHANGED <<evidence, doc, created, before>>
    PROVE  EvidenceTraced(w)'
BY DEF EvidenceTraced

\* The steps that retain evidence.
LEMMA RetainTraced ==
    ASSUME AInv, TypeOK', NEW w \in Writers, WriteEvidence(w) \/ Link(w) \/ Compare(w),
           Traced(w)
    PROVE  Traced(w)'
<1>0. /\ pc[w] \in Retaining /\ kind[w] \in Kinds /\ doc[w] \in Docs /\ Active(w)
      /\ Slug[doc[w]] \in Slugs
      /\ UNCHANGED <<latest, doc, staged, replaced, backup, history>>
  BY ReportStoreAssumption
     DEF WriteEvidence, Link, Compare, At, Retaining, AInv, IInv, TypeOK, CallOK, Active, Steps,
         directory
<1>1. EvidenceTraced(w) /\ LatestTraced(w) /\ InOrder(w) /\ replaced[w] = {} /\ exc[w] = "none"
  BY <1>0 DEF Traced, Retaining, InOrder
<1>2. \A k \in Kinds : latest[k] = before[w].latest[k]
  BY <1>0, <1>1 DEF LatestTraced, Refreshed, Retaining
<1>3. /\ pc'[w] \in Retaining \cup {"withdraw", "stage"}
      /\ pc'[w] = "stage" => kind'[w] = "json"
      /\ pc'[w] # "withdraw" => exc'[w] = "none"
  <2>1. CASE WriteEvidence(w)
    BY <1>1, <2>1 DEF WriteEvidence, Goto, Retaining, AInv, IInv, TypeOK
  <2>2. CASE Link(w)
    BY <1>1, <2>2 DEF Link, Advance, Goto, Retaining, AInv, IInv, TypeOK
  <2>3. CASE Compare(w)
    BY <1>1, <2>3 DEF Compare, Advance, Goto, Retaining, AInv, IInv, TypeOK
  <2> QED BY <2>1, <2>2, <2>3
<1>4. InOrder(w)' /\ LatestTraced(w)'
  BY <1>0, <1>1, <1>2, <1>3
     DEF InOrder, LatestTraced, Refreshed, Saved, Retaining, Replacing, history
<1>5. EvidenceTraced(w)'
  <2>1. CASE UNCHANGED <<evidence, created>>
    BY <1>0, <1>1, <2>1, EvidenceStays DEF history
  <2>2. CASE ~UNCHANGED <<evidence, created>>
    <3>1. /\ evidence[Slug[doc[w]]][kind[w]] = Absent
          /\ evidence' = [evidence EXCEPT ![Slug[doc[w]]][kind[w]] = doc[w]]
          /\ created' = [created EXCEPT ![w] = @ \cup {kind[w]}]
      BY <2>2 DEF WriteEvidence, Link, Compare, directory
    <3>2. \A t \in Slugs, l \in Kinds :
            t # Slug[doc[w]] \/ l # kind[w] => evidence'[t][l] = evidence[t][l]
      <4>1. evidence \in [Slugs -> Files]
        BY DEF AInv, Atomic, IInv, TypeOK
      <4> QED BY <1>0, <3>1, <4>1, PutEvidence
    <3>3. created'[w] = created[w] \cup {kind[w]}
      BY <3>1 DEF AInv, Atomic, IInv, TypeOK
    <3>4. kind[w] \notin created[w]
      <4>1. \A k \in created[w] : evidence[Slug[doc[w]]][k] = doc[w]
        BY <1>0 DEF AInv, Atomic, IInv, CallOK
      <4> QED BY <1>0, <3>1, <4>1, ReportStoreAssumption
    <3>5. before'[w] = before[w] /\ doc'[w] = doc[w]
      BY <1>0 DEF history
    <3> QED BY <1>0, <1>1, <3>1, <3>2, <3>3, <3>4, <3>5 DEF EvidenceTraced
  <2> QED BY <2>1, <2>2
<1> QED BY <1>1, <1>4, <1>5 DEF Traced

\* The steps that replace the latest files.
LEMMA ReplaceTraced ==
    ASSUME AInv, TypeOK', NEW w \in Writers, Traced(w),
           Stage(w) \/ Backup(w) \/ Replace(w) \/ Rollback(w)
    PROVE  Traced(w)'
<1>0. /\ pc[w] \in Replacing \cup {"rollback"} /\ kind[w] \in Kinds
      /\ UNCHANGED <<evidence, doc, exc, created, history>>
  BY DEF Stage, Backup, Replace, Rollback, At, Replacing, AInv, IInv, TypeOK, directory
<1>1. EvidenceTraced(w) /\ LatestTraced(w) /\ InOrder(w)
  BY <1>0 DEF Traced, Replacing
<1>2. before'[w] = before[w] /\ doc'[w] = doc[w] /\ exc'[w] = exc[w] /\ published' = published
  BY <1>0 DEF history
<1>3. EvidenceTraced(w)'
  BY <1>0, <1>1, EvidenceStays DEF history
<1>4. CASE Stage(w)
  <2>1. /\ pc[w] = "stage" /\ pc'[w] = "backup" /\ kind'[w] = kind[w]
        /\ UNCHANGED <<latest, replaced, backup>>
    BY <1>0, <1>4 DEF Stage, At, Goto, directory, AInv, IInv, TypeOK
  <2>2. LatestTraced(w)' /\ InOrder(w)'
    BY <1>0, <1>1, <1>2, <2>1
       DEF LatestTraced, InOrder, Refreshed, Saved, Retaining, Replacing
  <2> QED BY <1>3, <2>2 DEF Traced
<1>5. CASE Backup(w)
  <2>1. /\ pc[w] = "backup" /\ UNCHANGED <<latest, replaced>>
        /\ kind[w] = "json" => pc'[w] = "stage" /\ kind'[w] = "md"
        /\ kind[w] # "json" => pc'[w] = "replace" /\ kind'[w] = "json"
    BY <1>0, <1>5 DEF Backup, At, Advance, Goto, directory, AInv, IInv, TypeOK
  <2>2. /\ backup'[w][kind[w]] = latest[kind[w]]
        /\ \A k \in Kinds : k # kind[w] => backup'[w][k] = backup[w][k]
    <3>1. backup[w] \in [Kinds -> Docs \cup {Absent}]
      BY DEF AInv, Atomic, IInv, TypeOK, Files
    <3>2. backup' = [backup EXCEPT ![w][kind[w]] = latest[kind[w]]]
      BY <1>5 DEF Backup
    <3>3. backup'[w] = [backup[w] EXCEPT ![kind[w]] = latest[kind[w]]]
      BY <3>2 DEF AInv, Atomic, IInv, TypeOK
    <3> QED BY <1>0, <3>1, <3>3
  <2>3. /\ \A k \in Kinds : latest[k] = before[w].latest[k]
        /\ kind[w] = "md" => backup[w]["json"] = before[w].latest["json"]
    BY <1>1, <2>1 DEF LatestTraced, Refreshed, Saved, Kinds
  <2>4. LatestTraced(w)'
    <3>1. \A k \in Kinds : k \in Saved(w)' => backup'[w][k] = before[w].latest[k]
      BY <1>0, <2>1, <2>2, <2>3 DEF Saved, Kinds
    <3>2. \A k \in Kinds : k \notin Refreshed(w)'
      BY <1>1, <2>1 DEF Refreshed, InOrder
    <3> QED BY <1>2, <2>1, <2>3, <3>1, <3>2 DEF LatestTraced
  <2>5. InOrder(w)'
    BY <1>0, <1>1, <1>2, <2>1 DEF InOrder, Retaining, Replacing, Kinds
  <2> QED BY <1>3, <2>4, <2>5 DEF Traced
<1>6. CASE Replace(w)
  <2>1. /\ pc[w] = "replace" /\ UNCHANGED backup
        /\ kind[w] = "json" => pc'[w] = "replace" /\ kind'[w] = "md"
        /\ kind[w] # "json" => pc'[w] = "cleanup" /\ kind'[w] = "json"
        /\ replaced'[w] = replaced[w] \cup {kind[w]}
    BY <1>0, <1>6 DEF Replace, At, Advance, Goto, AInv, IInv, TypeOK
  <2>2. /\ latest'[kind[w]] = doc[w]
        /\ \A k \in Kinds : k # kind[w] => latest'[k] = latest[k]
    BY <1>0, <1>6 DEF Replace, AInv, IInv, TypeOK, Files
  <2>3. exc[w] = "none" /\ replaced[w] = IF kind[w] = "md" THEN {"json"} ELSE {}
    BY <1>1, <2>1 DEF InOrder, Replacing
  <2>4. \A k \in Kinds : /\ latest[k] = IF k \in replaced[w] THEN doc[w] ELSE before[w].latest[k]
                         /\ backup[w][k] = before[w].latest[k]
    BY <1>1, <2>1 DEF LatestTraced, Refreshed, Saved
  <2>5. Refreshed(w)' = replaced[w] \cup {kind[w]}
    BY <1>0, <1>2, <2>1, <2>3 DEF Refreshed, Kinds
  <2>6. LatestTraced(w)'
    BY <1>0, <1>2, <2>1, <2>2, <2>4, <2>5 DEF LatestTraced
  <2>7. InOrder(w)'
    BY <1>0, <1>2, <2>1, <2>3 DEF InOrder, Retaining, Replacing, Kinds
  <2> QED BY <1>3, <2>6, <2>7 DEF Traced
<1>7. CASE Rollback(w)
  <2>1. /\ pc[w] = "rollback" /\ pc'[w] = "cleanup" /\ exc[w] # "none"
    BY <1>7 DEF Rollback, At, Goto, AInv, IInv, TypeOK, CallOK
  <2>2. \A k \in Kinds : latest'[k] = IF k \in replaced[w] THEN backup[w][k] ELSE latest[k]
    BY <1>7 DEF Rollback
  <2>3. \A k \in Kinds : latest'[k] = before[w].latest[k]
    BY <1>1, <2>1, <2>2 DEF LatestTraced, Refreshed, Saved
  <2>4. LatestTraced(w)' /\ InOrder(w)'
    BY <1>2, <2>1, <2>3 DEF LatestTraced, InOrder, Refreshed, Saved, Retaining, Replacing
  <2> QED BY <1>3, <2>4 DEF Traced
<1> QED BY <1>4, <1>5, <1>6, <1>7

\* Ending a call.
LEMMA CleanupTraced ==
    ASSUME AInv, TypeOK', NEW w \in Writers, Traced(w), Cleanup(w)
    PROVE  Traced(w)'
<1>0. /\ pc[w] = "cleanup"
      /\ UNCHANGED <<latest, evidence, doc, exc, created, replaced, backup, before>>
  BY DEF Cleanup, At, directory
<1>1. EvidenceTraced(w) /\ LatestTraced(w)
  BY <1>0 DEF Traced
<1>2. \/ pc'[w] = "returned" /\ exc[w] = "none" /\ doc[w] \in published'
      \/ pc'[w] \in {"withdraw", "idle"} /\ exc[w] # "none"
  BY DEF Cleanup, Returned, Goto, AInv, IInv, TypeOK
<1>3. EvidenceTraced(w)'
  BY <1>0, <1>1, EvidenceStays
<1>4. LatestTraced(w)' /\ InOrder(w)'
  BY <1>0, <1>1, <1>2 DEF LatestTraced, InOrder, Refreshed, Saved, Retaining, Replacing
<1> QED BY <1>3, <1>4 DEF Traced

\* Withdrawing what a call created puts back what it found.
LEMMA WithdrawTraced ==
    ASSUME AInv, TypeOK', NEW w \in Writers, Traced(w), Withdraw(w)
    PROVE  Traced(w)'
<1>0. /\ pc[w] = "withdraw" /\ doc[w] \in Docs /\ Slug[doc[w]] \in Slugs
      /\ created[w] \subseteq Kinds
      /\ UNCHANGED <<latest, doc, before, published>>
  BY ReportStoreAssumption
     DEF Withdraw, At, AInv, IInv, TypeOK, CallOK, Active, Steps, history
<1>1. EvidenceTraced(w) /\ LatestTraced(w)
  BY <1>0 DEF Traced
<1>2. pc'[w] \in {"withdraw", "raised"} /\ (pc'[w] = "raised" => created'[w] = {})
  BY <1>0 DEF Withdraw, Goto, AInv, IInv, TypeOK
<1>3. LatestTraced(w)' /\ InOrder(w)'
  BY <1>0, <1>1, <1>2 DEF LatestTraced, InOrder, Refreshed, Saved, Retaining, Replacing
<1>4. EvidenceTraced(w)'
  <2>1. CASE UNCHANGED <<evidence, created>>
    BY <1>0, <1>1, <2>1, EvidenceStays
  <2>2. CASE ~UNCHANGED <<evidence, created>>
    <3>1. PICK k \in created[w] :
             /\ evidence' = [evidence EXCEPT ![Slug[doc[w]]][k] = Absent]
             /\ created' = [created EXCEPT ![w] = @ \ {k}]
      BY <2>2 DEF Withdraw
    <3>a. evidence \in [Slugs -> Files] /\ Absent \in Docs \cup {Absent} /\ k \in Kinds
      BY <1>0 DEF AInv, IInv, TypeOK
    <3>b. evidence' = [evidence EXCEPT ![Slug[doc[w]]][k] = Absent]
      BY <3>1
    <3>2. /\ evidence'[Slug[doc[w]]][k] = Absent
          /\ \A t \in Slugs, l \in Kinds :
               t # Slug[doc[w]] \/ l # k => evidence'[t][l] = evidence[t][l]
      <4> DEFINE s == Slug[doc[w]]
      <4>1. s \in Slugs /\ evidence' = [evidence EXCEPT ![s][k] = Absent]
        BY <1>0, <3>b
      <4> HIDE DEF s
      <4>2. \A t \in Slugs, l \in Kinds :
              t # s \/ l # k => evidence'[t][l] = evidence[t][l]
        BY <3>a, <4>1, PutEvidence
      <4>3. evidence'[s][k] = Absent
        BY <3>a, <4>1 DEF Files
      <4> QED BY <4>2, <4>3 DEF s
    <3>3. created'[w] = created[w] \ {k}
      BY <3>1 DEF AInv, Atomic, IInv, TypeOK
    <3> QED BY <1>0, <1>1, <3>2, <3>3 DEF EvidenceTraced
  <2> QED BY <2>1, <2>2
<1> QED BY <1>3, <1>4 DEF Traced

\* Failing, outside of a handler.
LEMMA FailTraced ==
    ASSUME AInv, TypeOK', NEW w \in Writers, Traced(w), EvidenceFails(w) \/ ReplaceFails(w)
    PROVE  Traced(w)'
<1>0. UNCHANGED <<latest, evidence, doc, created, replaced, backup, published, before>>
  BY DEF EvidenceFails, ReplaceFails, Fault, directory
<1>1. pc[w] \in Retaining \cup Replacing
  BY DEF EvidenceFails, ReplaceFails, Fault, Retaining, Replacing
<1>2. EvidenceTraced(w) /\ LatestTraced(w) /\ InOrder(w)
  BY <1>1 DEF Traced, Retaining, Replacing
<1>3. EvidenceTraced(w)'
  BY <1>0, <1>2, EvidenceStays
<1>4. \/ pc[w] \in Retaining /\ pc'[w] \in {"withdraw", "idle"}
      \/ pc[w] \in Replacing /\ pc'[w] = "rollback"
  BY DEF EvidenceFails, ReplaceFails, Fault, Goto, Retaining, Replacing, AInv, IInv, TypeOK
<1>5. LatestTraced(w)'
  <2>1. Saved(w)' \subseteq Saved(w) /\ Refreshed(w)' = Refreshed(w)
    BY <1>0, <1>2, <1>4 DEF InOrder, Saved, Refreshed, Retaining, Replacing, Kinds
  <2> QED BY <1>0, <1>2, <2>1 DEF LatestTraced
<1>6. InOrder(w)'
  BY <1>4 DEF InOrder, Retaining, Replacing
<1> QED BY <1>3, <1>5, <1>6 DEF Traced

\* A new call overlaps every other.
LEMMA BeginAtomic ==
    ASSUME AInv, TypeOK', NEW w \in Writers, Begin(w)
    PROVE  \A v \in Writers : AtomicOK(v)'
<1>1. \A v \in Writers : clean'[v] => v = w /\ \A u \in Writers : ~Active(u)
  BY DEF Begin
<1>2. PICK d \in Docs :
         /\ doc' = [doc EXCEPT ![w] = d]
         /\ Goto(w, IF d \in Retained THEN "write" ELSE "stage", "json")
  BY DEF Begin
<1>3. /\ pc'[w] \in {"write", "stage"} /\ kind'[w] = "json"
      /\ \A v \in Writers : v # w => pc'[v] = pc[v]
  BY <1>2 DEF Goto, AInv, IInv, TypeOK
<1>4. /\ exc'[w] = "none" /\ created'[w] = {} /\ replaced'[w] = {}
      /\ before'[w].latest = latest /\ before'[w].evidence = evidence
      /\ UNCHANGED <<latest, evidence>>
  BY DEF Begin, Blank, directory, AInv, IInv, TypeOK
<1>5. EvidenceTraced(w)'
  BY <1>4 DEF EvidenceTraced
<1>6. LatestTraced(w)' /\ InOrder(w)'
  BY <1>3, <1>4 DEF LatestTraced, InOrder, Refreshed, Saved, Retaining, Replacing
<1>7. (\A u \in Writers : ~Active(u)) => Alone(w)'
  BY <1>3 DEF Alone, Active
<1> QED BY <1>1, <1>5, <1>6, <1>7 DEF AtomicOK, Traced

\* Every step keeps what holds of clean calls.
LEMMA AtomicKept ==
    ASSUME AInv, TypeOK', [Next]_vars
    PROVE  \A w \in Writers : AtomicOK(w)'
<1>1. CASE UNCHANGED vars
  BY <1>1 DEF AInv, Atomic, AtomicOK, Alone, Active, Traced, EvidenceTraced, LatestTraced, InOrder,
              Refreshed, Saved, vars, directory, locals, history
<1>2. ASSUME NEW w \in Writers, Begin(w) PROVE \A v \in Writers : AtomicOK(v)'
  BY <1>2, BeginAtomic
<1>3. ASSUME NEW w \in Writers, Step(w) \/ EvidenceFails(w) \/ ReplaceFails(w)
      PROVE  \A v \in Writers : AtomicOK(v)'
  <2>1. Active(w) /\ UNCHANGED <<clean, before>>
    BY <1>3 DEF Step, WriteEvidence, Link, Compare, Stage, Backup, Replace, Rollback, Cleanup,
                Withdraw, EvidenceFails, ReplaceFails, Fault, At, Active, Steps, history
  <2>2. \A v \in Writers : v # w => pc'[v] = pc[v]
    <3>1. UNCHANGED pc \/ \E step, k : Goto(w, step, k)
      <4>1. CASE Step(w)
        BY <4>1 DEF Step, WriteEvidence, Link, Compare, Stage, Backup, Replace, Rollback,
                    Cleanup, Withdraw, Advance, Returned
      <4>2. CASE EvidenceFails(w) \/ ReplaceFails(w)
        BY <4>2 DEF EvidenceFails, ReplaceFails
      <4> QED BY <1>3, <4>1, <4>2
    <3>2. CASE UNCHANGED pc
      BY <3>2
    <3>3. ASSUME NEW step, NEW k, Goto(w, step, k)
          PROVE  \A v \in Writers : v # w => pc'[v] = pc[v]
      BY <3>3 DEF Goto, AInv, IInv, TypeOK
    <3> QED BY <3>1, <3>2, <3>3
  <2>3. Traced(w) => Traced(w)'
    BY <1>3, RetainTraced, ReplaceTraced, CleanupTraced, WithdrawTraced, FailTraced DEF Step
  <2>4. ASSUME NEW v \in Writers PROVE AtomicOK(v)'
    <3>1. CASE v # w
      BY <2>1, <2>4, <3>1 DEF AInv, Atomic, AtomicOK, Alone
    <3>2. CASE v = w
      BY <2>1, <2>2, <2>3, <3>2 DEF AInv, Atomic, AtomicOK, Alone, Active
    <3> QED BY <3>1, <3>2
  <2> QED BY <2>4
<1>4. ASSUME NEW w \in Writers, RecoveryFails(w) \/ Crash(w)
      PROVE  \A v \in Writers : AtomicOK(v)'
  <2>1. /\ Active(w)
        /\ \A v \in Writers : clean'[v] => clean[v]
        /\ clean'[w] => pc'[w] = "idle"
        /\ \A v \in Writers : v # w => pc'[v] = pc[v]
    <3>1. CASE RecoveryFails(w)
      BY <3>1 DEF RecoveryFails, Fault, Active, Steps, Goto, AInv, IInv, TypeOK
    <3>2. CASE Crash(w)
      BY <3>2 DEF Crash, Active, Goto, AInv, IInv, TypeOK
    <3> QED BY <1>4, <3>1, <3>2
  <2>2. ASSUME NEW v \in Writers PROVE AtomicOK(v)'
    <3>1. CASE v # w
      BY <2>1, <2>2, <3>1 DEF AInv, Atomic, AtomicOK, Alone
    <3>2. CASE v = w
      BY <2>1, <3>2 DEF AInv, Atomic, AtomicOK, Alone, Active, Traced
    <3> QED BY <3>1, <3>2
  <2> QED BY <2>2
<1> QED BY <1>1, <1>2, <1>3, <1>4 DEF Next, Fails

\* A call that raises leaves the directory as it found it, and one that returns has refreshed
\* both latest files and retained what it had to, unless another call overlapped it or undoing
\* failed in its turn.
THEOREM AllOrNothing == Spec => []CallIsAtomic
<1>1. Init => Atomic
  BY DEF Init, Atomic, AtomicOK, Alone, Active, Steps, Traced
<1>2. IInv /\ IInv' /\ Atomic /\ [Next]_vars => Atomic'
  BY AtomicKept DEF AInv, Atomic, IInv
<1>3. IInv /\ Atomic => CallIsAtomic
  <2> SUFFICES ASSUME IInv, NEW w \in Writers, AtomicOK(w), clean[w]
               PROVE  /\ At(w, "raised") => /\ latest = before[w].latest
                                            /\ evidence = before[w].evidence
                      /\ At(w, "returned") =>
                            /\ latest = [k \in Kinds |-> doc[w]]
                            /\ doc[w] \in Retained => evidence[Slug[doc[w]]] = latest
    BY DEF CallIsAtomic, Atomic
  <2>1. /\ latest \in Files /\ before[w].latest \in Files
        /\ evidence \in [Slugs -> Files] /\ before[w].evidence \in [Slugs -> Files]
    BY DEF IInv, TypeOK
  <2>2. CASE At(w, "raised")
    <3>1. EvidenceTraced(w) /\ LatestTraced(w) /\ created[w] = {}
      BY <2>2 DEF AtomicOK, Traced, At, InOrder
    <3>2. \A k \in Kinds : latest[k] = before[w].latest[k]
      BY <2>2, <3>1 DEF LatestTraced, Refreshed, At
    <3>3. \A s \in Slugs : evidence[s] = before[w].evidence[s]
      BY <2>1, <3>1 DEF EvidenceTraced, Files
    <3> QED BY <2>1, <2>2, <3>2, <3>3 DEF Files, At
  <2>3. CASE At(w, "returned")
    <3>1. LatestTraced(w) /\ doc[w] \in published
      BY <2>3 DEF AtomicOK, Traced, At, InOrder
    <3>2. \A k \in Kinds : latest[k] = doc[w]
      BY <2>3, <3>1 DEF LatestTraced, Refreshed, At
    <3>3. latest = [k \in Kinds |-> doc[w]]
      BY <2>1, <3>2 DEF Files
    <3> QED BY <2>3, <3>1, <3>3 DEF IInv, PublishedIsRetained, At
  <2> QED BY <2>2, <2>3 DEF At
<1> QED BY <1>1, <1>2, <1>3, Invariance, PTL DEF Spec
=============================================================================
