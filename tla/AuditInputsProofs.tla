-------------------------- MODULE AuditInputsProofs --------------------------
(***************************************************************************)
(* What an audit starts from.  The search: no match means no match or an   *)
(* entry that could not be read, an answer of OSV is whole, an absence is  *)
(* real, and a failure was earned.  The inventory: a command that is       *)
(* reported with a code of its own was read to its end, and an inventory   *)
(* that calls itself complete misses no package.                           *)
(***************************************************************************)
EXTENDS AuditInputs, ProjectInventory, WellFoundedInduction, FiniteSetTheorems,
        SequenceTheorems, TLAPS

(* A match is only ruled out where there is none, or where a batch had it   *)
(* in an entry that could not be read.                                      *)
Ruled(l) == l.id \notin Holds(l.source) \/ (l.source = "nvd" /\ l.id \in unreadable)

(* What the prefetch has stored as "empty" is so. *)
StoredIsReal ==
    /\ DOMAIN prefetched = Cves
    /\ \A c \in Cves : prefetched[c] = "empty" => c \notin NvdHolds \/ c \in unreadable

IInv == StoredIsReal /\ NoMatchIsReal

LEMMA Starts == Init => IInv
  BY DEF Init, SourcesInit, IInv, StoredIsReal, NoMatchIsReal

(* Nothing that was read or told changes. *)
LEMMA SameKeeps ==
    ASSUME IInv, UNCHANGED <<prefetched, unreadable, lookups>> PROVE IInv'
  BY DEF IInv, StoredIsReal, NoMatchIsReal, Holds

(* A source that holds something of an identifier finds it, unless several  *)
(* of its advisories name it.                                               *)
LEMMA RecordsFound ==
    ASSUME NEW source, NEW id, id \in Holds(source), ~Ambiguous(source, id)
    PROVE  RecordsOf(source, id) # {}
<1>1. CASE source = "github" /\ id \in Cves
  <2>1. id \notin GithubHolds
    BY <1>1, AdvisorySourcesAssumption
  <2>2. PICK g \in Naming(id) : TRUE
    BY <1>1, <2>1 DEF Holds
  <2> QED
    BY <1>1, <2>2 DEF RecordsOf
<1>2. CASE ~(source = "github" /\ id \in Cves)
  BY <1>2 DEF RecordsOf
<1> QED
  BY <1>1, <1>2

(* An answer of "nothing" is right, asked for or stored. *)
LEMMA AnswerIsReal ==
    ASSUME IInv, NEW source, NEW id, NEW r \in Answers(source, id), r.state = "ok", r.records = {}
    PROVE  id \notin Holds(source) \/ (source = "nvd" /\ id \in unreadable)
<1>1. CASE Requests(source, {id})
  <2>1. r \in LookupResults(source, id)
    BY <1>1 DEF Answers
  <2>2. r.state = "ok" => r.records = RecordsOf(source, id) /\ ~Ambiguous(source, id)
    BY <2>1 DEF LookupResults, Normalized, Result
  <2> QED
    BY <2>2, RecordsFound
<1>2. CASE ~Requests(source, {id})
  <2>1. source = "nvd"
    BY <1>2 DEF Requests
  <2>2. r = StoredResult(id)
    BY <1>2 DEF Answers
  <2>3. prefetched[id] = "empty"
    BY <2>2 DEF StoredResult, Result
  <2>4. CASE id \in Cves
    BY <2>1, <2>3, <2>4 DEF IInv, StoredIsReal, Holds
  <2>5. CASE id \notin Cves
    BY <2>1, <2>5, AdvisorySourcesAssumption DEF Holds
  <2> QED
    BY <2>4, <2>5
<1> QED
  BY <1>1, <1>2

(* Telling it keeps the invariant. *)
LEMMA ToldKeeps ==
    ASSUME IInv, NEW source, NEW id, NEW r \in Answers(source, id),
           lookups' = lookups \cup {Told(source, id, r)}, UNCHANGED <<prefetched, unreadable>>
    PROVE  IInv'
<1> DEFINE told == [source |-> source, id |-> id, state |-> r.state, held |-> r.records # {}]
<1>1. lookups' = lookups \cup {told}
  BY DEF Told
<1>2. told.state = "ok" /\ ~told.held => Ruled(told)
  <2> SUFFICES ASSUME r.state = "ok", r.records = {} PROVE Ruled(told)
    OBVIOUS
  <2> QED
    BY AnswerIsReal DEF Ruled
<1>3. \A l \in lookups : l.state = "ok" /\ ~l.held => Ruled(l)
  BY DEF IInv, NoMatchIsReal, Ruled
<1> HIDE DEF told
<1>4. \A l \in lookups' : l.state = "ok" /\ ~l.held => Ruled(l)
  BY <1>1, <1>2, <1>3
<1>5. \A l : Ruled(l)' <=> Ruled(l)
  BY DEF Ruled, Holds
<1> QED
  BY <1>4, <1>5 DEF IInv, StoredIsReal, NoMatchIsReal, Ruled, Holds

LEMMA BatchReadKeeps == ASSUME IInv, BatchRead PROVE IInv'
<1>1. PICK entry \in [Head(batches) \cap NvdHolds -> {"whole", "dented", "torn"}] :
         LET torn == {c \in DOMAIN entry : entry[c] = "torn"}
         IN  /\ prefetched' = [c \in Cves |->
                                 IF c \notin Head(batches) THEN prefetched[c]
                                 ELSE IF c \in DOMAIN entry \ torn THEN entry[c] ELSE "empty"]
             /\ unreadable' = unreadable \cup torn
  BY DEF BatchRead
<1>2. UNCHANGED lookups
  BY DEF BatchRead
<1>3. StoredIsReal'
  BY <1>1 DEF IInv, StoredIsReal
<1>4. unreadable \subseteq unreadable'
  BY <1>1
<1> QED
  BY <1>2, <1>3, <1>4 DEF IInv, NoMatchIsReal, Holds

(* A record is supplemented, or a search asks a source.                     *)
LEMMA EnrichKeeps == ASSUME IInv, NEW record, NEW source, Enrich(record, source) PROVE IInv'
<1>1. UNCHANGED <<prefetched, unreadable>>
  BY DEF Enrich
<1>2. CASE Asked(source, record) = {}
  BY <1>1, <1>2, SameKeeps DEF Enrich
<1>3. CASE Asked(source, record) # {}
  <2> DEFINE id == Min(Asked(source, record))
  <2> HIDE DEF id
  <2>1. PICK r \in Answers(source, id) : lookups' = lookups \cup {Told(source, id, r)}
    BY <1>3 DEF Enrich, id
  <2> QED
    BY <2>1, <1>1, ToldKeeps
<1> QED
  BY <1>2, <1>3

LEMMA LookupKeeps == ASSUME IInv, NEW source, NEW id, Lookup(source, id) PROVE IInv'
<1>1. PICK r \in Answers(source, id) : lookups' = lookups \cup {Told(source, id, r)}
  BY DEF Lookup
<1> QED
  BY <1>1, ToldKeeps DEF Lookup

LEMMA NextKeeps == ASSUME IInv, [Next]_vars PROVE IInv'
<1>1. CASE AskOsv
  BY <1>1, SameKeeps DEF AskOsv
<1>2. CASE OsvStep
  BY <1>2, SameKeeps DEF OsvStep, PageRead, PageFailed, RecordFetched, QueryLost
<1>3. CASE OsvDone
  BY <1>3, SameKeeps DEF OsvDone
<1>4. CASE RunAuditor \/ NativeDone \/ Finish \/ Follow \/ FollowDone
  BY <1>4, SameKeeps
  DEF RunAuditor, NativeDone, Finish, Follow, FollowDone, clientVars, sourceVars
<1>5. CASE AuditKev \/ SearchKev
  BY <1>5, SameKeeps DEF AuditKev, SearchKev, KevRead
<1>6. CASE AskBatches
  BY <1>6, SameKeeps DEF AskBatches
<1>7. CASE PrefetchStep
  <2>1. CASE BatchRead
    BY <2>1, BatchReadKeeps
  <2>2. CASE BatchFailed
    BY <2>2, SameKeeps DEF BatchFailed
  <2> QED
    BY <1>7, <2>1, <2>2 DEF PrefetchStep
<1>8. CASE EnrichStep
  BY <1>8, EnrichKeeps DEF EnrichStep
<1>9. CASE Call
  <2>1. CASE Configured(Head(wanted))
    BY <1>9, <2>1, LookupKeeps DEF Call
  <2>2. CASE ~Configured(Head(wanted))
    BY <1>9, <2>2, SameKeeps DEF Call, clientVars, sourceVars
  <2> QED
    BY <2>1, <2>2
<1>10. CASE FollowStep
  <2>1. CASE Followed(Head(wanted)) = {}
    BY <1>10, <2>1, SameKeeps DEF FollowStep, clientVars, sourceVars
  <2>2. CASE Followed(Head(wanted)) # {}
    BY <1>10, <2>2, LookupKeeps DEF FollowStep
  <2> QED
    BY <2>1, <2>2
<1>11. CASE Retry
  BY <1>11, SameKeeps DEF Retry, Again, sourceVars
<1>12. CASE UNCHANGED vars
  BY <1>12, SameKeeps DEF vars, clientVars, sourceVars
<1> QED
  BY <1>1, <1>2, <1>3, <1>4, <1>5, <1>6, <1>7, <1>8, <1>9, <1>10, <1>11, <1>12
  DEF Next, Advance, Stop

(* A secondary source that is said to have nothing on a record has nothing, *)
(* stored or asked for, but for entries of a batch that could not be read   *)
(* (NvdClient.lookup, GithubClient.lookup).                                 *)
THEOREM NoMatchCorrect == Spec => []NoMatchIsReal
<1>1. IInv => NoMatchIsReal
  BY DEF IInv
<1> QED
  BY Starts, NextKeeps, <1>1, PTL DEF Spec

-----------------------------------------------------------------------------
(* What a task may be doing. *)

TaskInv ==
    /\ task \in Searches \cup {Audit}
    /\ \/ task = Audit /\ phase \in {"osv", "native", "kev", "prefetch", "enrich", "done"}
       \/ task.kind = "package" /\ phase \in {"osv", "enrich", "done"}
       \/ task.kind = "kev" /\ phase \in {"kev", "done"}
       \/ task.kind = "advisory" /\ phase \in {"calls", "follow", "done"}
    /\ packages \subseteq PackagesListed /\ IsFiniteSet(packages)
    /\ task.kind = "package" => packages = {task.package}
    /\ task = Audit => verdict = "none"
    /\ verdict # "none" => phase = "done"

(* A request that failed, or was answered with a damaged value, is earned.  *)
ClientInv == attempt \in 0..MaxAttempts - 1 /\ faults \in Nat /\ earned \in BOOLEAN

-----------------------------------------------------------------------------
(* The query of OSV *)

IdsListed == {l[1] : l \in listed}

IsRecord(r) == r = [source |-> r.source, id |-> r.id, ids |-> r.ids]

RecordsInv == \A r \in found : IsRecord(r)

OsvAsked == active # <<>> \/ page > 0 \/ osv # "not_applicable"

(* The identifiers on a page were listed, or the page is still to be read.  *)
PageIsRead(p, k) ==
    \/ Pages[p][k] \X {p} \subseteq listed
    \/ \E i \in DOMAIN active : active[i].package = p /\ active[i].page <= k

ActiveInv ==
    /\ active \in Seq([package : packages, page : Nat])
    /\ page \in Nat /\ partial \in BOOLEAN /\ osv \in States
    /\ \A i \in DOMAIN active :
          active[i].page = page + 1 /\ page + 1 <= Len(Pages[active[i].package])
    /\ active # <<>> => todo = {} /\ found = {} /\ osv = "not_applicable" /\ page < MaxPages
    /\ active = <<>> /\ page = 0 => listed = {} /\ todo = {} /\ found = {} /\ partial = FALSE

FetchInv ==
    /\ listed \subseteq Pairs
    /\ \A r \in found : r.source = "osv"
    /\ todo # {} => osv = "not_applicable"
    /\ FetchedOf("osv") \cup todo \subseteq IdsListed
    /\ active = <<>> /\ ~partial /\ osv # "unavailable" =>
          IdsListed \subseteq FetchedOf("osv") \cup todo

ReadInv ==
    /\ OsvAsked /\ ~partial /\ osv # "unavailable" =>
          \A p \in packages : \A k \in 1..Len(Pages[p]) : PageIsRead(p, k)
    /\ osv = "ok" => ~partial /\ active = <<>> /\ todo = {}

Beyond == (\E p \in packages : Len(Pages[p]) > MaxPages) \/ (\E l \in Pairs : l[1] \notin OsvHolds)

SoundInv == ~earned /\ ~Beyond => ~partial /\ osv \in {"ok", "not_applicable"}

OsvInv == phase = "osv" => ActiveInv /\ FetchInv /\ ReadInv /\ SoundInv

(* What is left of it afterwards. *)
OsvLeft ==
    phase # "osv" /\ task.kind \in {"audit", "package"} =>
        /\ osv # "not_applicable" /\ osv \in States
        /\ osv = "ok" => {l[1] : l \in Pairs} \subseteq FetchedOf("osv")
        /\ ~earned /\ ~Beyond => osv = "ok"

-----------------------------------------------------------------------------
(* The other sources *)

StoredInv ==
    /\ DOMAIN prefetched = Cves
    /\ ~earned => ~sticky /\ (\A c \in Cves : prefetched[c] \in {"no", "empty", "whole"})
                  /\ (\A l \in lookups : l.state = "ok" \/ Ambiguous(l.source, l.id))

KevInv ==
    task = Audit /\ phase \in {"prefetch", "enrich", "done"} /\ ~earned =>
        kev = [state |-> "ok", ids |-> KevHolds]

SearchedKev ==
    task.kind = "kev" /\ phase = "done" =>
        /\ ~earned => verdict = "complete"
        /\ verdict = "complete" => (member <=> task.id \in KevHolds)

(* A search of an identifier has asked the owner or will, and what a source *)
(* holds of what it was asked for is among the records.                     *)
OwnerTold(l) == l.source = Owner(task.id) /\ l.id = task.id

CallInv ==
    task.kind = "advisory" =>
        /\ ~sticky /\ \A c \in Cves : prefetched[c] = "no"
        /\ phase \in {"calls", "follow"} => wanted \in Seq({"osv", "github", "nvd"})
        /\ phase = "calls" => \A i \in DOMAIN wanted : wanted[i] = "nvd" => task.id \in Cves
        /\ \A l \in lookups : l.state = "ok" /\ l.id \in Holds(l.source) =>
              \E r \in found : r.source = l.source /\ l.id \in r.ids
        /\ Configured(Owner(task.id)) =>
              \/ phase = "calls" /\ \E i \in DOMAIN wanted : wanted[i] = Owner(task.id)
              \/ \E l \in lookups : OwnerTold(l)
        /\ phase = "done" =>
              /\ verdict = "complete" => \E l \in lookups : OwnerTold(l) /\ l.state = "ok"
              /\ ~earned /\ Configured(Owner(task.id)) => verdict = "complete"

(* A search of a package completes on a whole answer of OSV only.           *)
SearchedPackage ==
    task.kind = "package" /\ verdict = "complete" => osv = "ok"

(* All that is known of the sources, in every phase.                        *)
FactsInv ==
    /\ TaskInv /\ ClientInv /\ RecordsInv /\ OsvInv /\ OsvLeft /\ StoredInv /\ KevInv
    /\ SearchedKev /\ CallInv /\ SearchedPackage

-----------------------------------------------------------------------------
(* How requests end. *)

LEMMA SomeLeast ==
    ASSUME NEW S \in SUBSET Nat, S # {}
    PROVE  \E i \in S : \A j \in S : i <= j
<1> DEFINE R == OpToRel(<, Nat)
<1>1. IsWellFoundedOn(R, Nat)
  BY NatLessThanWellFounded
<1>2. \A i, j \in Nat : j < i => <<j, i>> \in R
  BY Zenon DEF OpToRel
<1> HIDE DEF R
<1>3. PICK i \in S : \A j \in S : ~(<<j, i>> \in R)
  BY <1>1, WFMin
<1>4. \A j \in S : ~(j < i)
  BY <1>2, <1>3, Zenon
<1> QED
  BY <1>4

LEMMA LeastIsMember ==
    ASSUME NEW S \in SUBSET Nat, S # {}
    PROVE  Min(S) \in S
  BY SomeLeast DEF Min

(* A fault is never forgotten, and only an honest answer is none.           *)
LEMMA SettleEarns ==
    ASSUME ClientInv, NEW how, Settle(how)
    PROVE  ClientInv' /\ (earned => earned') /\ (~earned' => how = "honest")
<1>0. MaxAttempts \in 1..3 /\ 0 \in 0..MaxAttempts - 1
  BY HttpClientAssumption
<1>1. ASSUME NEW damaged \in BOOLEAN, Answered(damaged)
      PROVE  ClientInv' /\ (earned => earned') /\ (damaged => earned')
  <2>1. attempt' = 0 /\ faults' \in Nat
    BY <1>1 DEF Answered, ClientInv
  <2>2. earned' \in BOOLEAN /\ (earned => earned') /\ (damaged => earned')
    BY <1>1, Zenon DEF Answered, ClientInv
  <2> QED BY <1>0, <2>1, <2>2 DEF ClientInv
<1>2. ASSUME Failed(how) PROVE ClientInv' /\ earned'
  <2>1. attempt + 1 = MaxAttempts \/ how \notin {"busy", "lost"}
    BY <1>0, <1>2 DEF Failed, Transient, ClientInv
  <2>2. attempt' = 0 /\ faults' \in Nat
    BY <1>2 DEF Failed, ClientInv
  <2>3. earned' \in BOOLEAN /\ earned'
    BY <1>2, <2>1, Zenon DEF Failed, ClientInv
  <2> QED BY <1>0, <2>2, <2>3 DEF ClientInv
<1>3. \/ how = "honest" /\ Answered(FALSE)
      \/ how = "damaged" /\ Answered(TRUE)
      \/ Failed(how)
  BY DEF Settle
<1> QED BY <1>1, <1>2, <1>3

LEMMA RepeatKeeps ==
    ASSUME ClientInv, NEW f, Repeat(f)
    PROVE  ClientInv' /\ earned' = earned
BY HttpClientAssumption DEF Repeat, ClientInv

-----------------------------------------------------------------------------
(* The answers to one page. *)

Rows == [ids : SUBSET Ids, sound : BOOLEAN, more : {"yes", "no", "bad"}]

(* What a reply may say: no more than the pages do.                         *)
Said(q, row) ==
    /\ row \in Rows /\ row.ids \subseteq Pages[q.package][q.page]
    /\ row.more = "yes" => q.page < Len(Pages[q.package])

LEMMA RowIsSaid ==
    ASSUME NEW q, q.package \in PackagesListed, q.page \in 1..Len(Pages[q.package])
    PROVE  BatchRow(q) \in Rows /\ Said(q, BatchRow(q))
<1>1. Pages[q.package] \in Seq(SUBSET Ids)
  BY AdvisorySourcesAssumption DEF PackagesListed
<1>2. Pages[q.package][q.page] \in SUBSET Ids
  BY <1>1
<1> QED BY <1>2 DEF BatchRow, Said, Rows

LEMMA DamageIsSaid ==
    ASSUME NEW q, q.package \in PackagesListed, q.page \in 1..Len(Pages[q.package]),
           NEW row \in DamagedRows(q)
    PROVE  Said(q, row) /\ (row.sound => row.more = "bad")
<1>1. BatchRow(q) \in Rows /\ Said(q, BatchRow(q))
  BY RowIsSaid
<1> HIDE DEF BatchRow
<1>2. CASE row = [ids |-> {}, sound |-> FALSE, more |-> "no"]
  BY <1>2 DEF Said, Rows
<1>3. CASE row = [BatchRow(q) EXCEPT !.more = "bad"]
  BY <1>1, <1>3 DEF Said, Rows
<1>4. CASE \E id \in Ids : row = [BatchRow(q) EXCEPT !.ids = @ \ {id}, !.sound = FALSE]
  BY <1>1, <1>4 DEF Said, Rows
<1> QED BY <1>2, <1>3, <1>4 DEF DamagedRows

(* One that is not torn says all of it, as an honest one does.              *)
LEMMA RepliesSay ==
    ASSUME NEW Q \in Seq([package : PackagesListed, page : Nat]), Q # <<>>,
           \A i \in DOMAIN Q : Q[i].page \in 1..Len(Pages[Q[i].package]),
           NEW reply \in BatchReplies(Q)
    PROVE  /\ reply.rows \in Seq(Rows) /\ DOMAIN reply.rows \subseteq DOMAIN Q
           /\ \A i \in DOMAIN reply.rows : Said(Q[i], reply.rows[i])
           /\ ~Torn(reply) => /\ DOMAIN reply.rows = DOMAIN Q
                              /\ \A i \in DOMAIN Q : reply.rows[i] = BatchRow(Q[i])
           /\ reply.how \in {"honest", "damaged"}
           /\ reply.how = "honest" => ~Torn(reply)
<1> DEFINE n == Len(Q)
           honest == HonestRows(Q)
<1>1. n \in Nat /\ n > 0 /\ DOMAIN Q = 1..n
  OBVIOUS
<1>2. \A i \in 1..n : /\ Q[i].package \in PackagesListed
                      /\ Q[i].page \in 1..Len(Pages[Q[i].package])
                      /\ BatchRow(Q[i]) \in Rows /\ Said(Q[i], BatchRow(Q[i]))
  <2> SUFFICES ASSUME NEW i \in 1..n
               PROVE  /\ Q[i].package \in PackagesListed
                      /\ Q[i].page \in 1..Len(Pages[Q[i].package])
                      /\ BatchRow(Q[i]) \in Rows /\ Said(Q[i], BatchRow(Q[i]))
    OBVIOUS
  <2>1. i \in DOMAIN Q
    BY <1>1
  <2>2. Q[i] \in [package : PackagesListed, page : Nat]
    BY ElementOfSeq
  <2>3. Q[i].package \in PackagesListed
    BY <2>2
  <2> QED BY <2>1, <2>3, RowIsSaid
<1>3. honest \in [1..n -> Rows] /\ \A i \in 1..n : honest[i] = BatchRow(Q[i])
  BY <1>2 DEF HonestRows
<1> HIDE DEF honest, n
<1>4. \A answered \in [1..n -> Rows] :
          answered \in Seq(Rows) /\ Len(answered) = n /\ DOMAIN answered = 1..n
  <2> TAKE answered \in [1..n -> Rows]
  <2>1. answered \in Seq(Rows)
    BY <1>1
  <2>2. DOMAIN answered = 1..Len(answered) /\ Len(answered) \in Nat
    BY <2>1
  <2> QED BY <2>1, <2>2, <1>1
<1>5. \A i \in 1..n : BatchRow(Q[i]).sound /\ BatchRow(Q[i]).more # "bad"
  BY DEF BatchRow
<1>6. CASE reply = Reply("honest", honest, n)
  <2>1. Len(honest) = n /\ DOMAIN honest = 1..n /\ honest \in Seq(Rows)
    BY <1>3, <1>4
  <2>2. reply.rows = honest /\ reply.how = "honest"
    BY <1>6 DEF Reply
  <2>3. ~reply.short
    <3>1. ~(Len(honest) < n)
      BY <1>1, <2>1
    <3> QED BY <1>6, <3>1 DEF Reply
  <2>4. ~Torn(reply)
    BY <2>1, <2>2, <2>3, <1>3, <1>5 DEF Torn
  <2> QED BY <2>1, <2>2, <2>4, <1>1, <1>2, <1>3
<1>7. CASE reply = Reply("damaged", SubSeq(honest, 1, n - 1), n)
  <2> DEFINE answered == SubSeq(honest, 1, n - 1)
  <2>1. honest \in Seq(Rows) /\ Len(honest) = n
    BY <1>3, <1>4
  <2>2. /\ answered \in Seq(Rows) /\ Len(answered) = n - 1 /\ DOMAIN answered = 1..n - 1
        /\ \A i \in 1..n - 1 : answered[i] = honest[i]
    BY <1>1, <2>1
  <2>3. reply = Reply("damaged", answered, n)
    BY <1>7
  <2> HIDE DEF answered
  <2>4. reply.rows = answered /\ reply.how = "damaged"
    BY <2>3 DEF Reply
  <2>5. Torn(reply)
    <3>1. Len(answered) < n
      BY <1>1, <2>2
    <3>2. reply.short
      BY <2>3, <3>1 DEF Reply
    <3> QED BY <3>2 DEF Torn
  <2>6. \A i \in 1..n - 1 : i \in 1..n
    BY <1>1
  <2> QED BY <2>2, <2>4, <2>5, <2>6, <1>1, <1>2, <1>3
<1>8. ASSUME NEW i \in 1..n, NEW row \in DamagedRows(Q[i]),
             reply = Reply("damaged", [honest EXCEPT ![i] = row], n)
      PROVE  /\ reply.rows \in [1..n -> Rows]
             /\ \A j \in 1..n : Said(Q[j], reply.rows[j])
             /\ Torn(reply) /\ reply.how = "damaged"
  <2>1. Said(Q[i], row) /\ (row.sound => row.more = "bad")
    BY <1>2, DamageIsSaid
  <2>2. reply.rows = [honest EXCEPT ![i] = row] /\ reply.how = "damaged"
    BY <1>8 DEF Reply
  <2>3. row \in Rows
    BY <2>1 DEF Said
  <2>4. /\ reply.rows \in [1..n -> Rows] /\ reply.rows[i] = row
        /\ \A j \in 1..n : j # i => reply.rows[j] = honest[j]
    BY <1>3, <2>2, <2>3
  <2>5. Torn(reply)
    BY <2>1, <2>4 DEF Torn
  <2> QED BY <2>1, <2>2, <2>4, <2>5, <1>2, <1>3
<1>9. CASE \E i \in 1..n : \E row \in DamagedRows(Q[i]) :
             reply = Reply("damaged", [honest EXCEPT ![i] = row], n)
  <2>1. /\ reply.rows \in [1..n -> Rows]
        /\ \A j \in 1..n : Said(Q[j], reply.rows[j])
        /\ Torn(reply) /\ reply.how = "damaged"
    BY <1>8, <1>9
  <2>2. reply.rows \in Seq(Rows) /\ DOMAIN reply.rows = 1..n
    BY <1>4, <2>1
  <2> QED BY <2>1, <2>2, <1>1
<1> QED BY <1>6, <1>7, <1>9 DEF BatchReplies, honest, n

-----------------------------------------------------------------------------
(* Reading pages.                                                           *)

(* The enumeration of the positions that go on. *)
LEMMA GoingIs ==
    ASSUME NEW n \in Nat, NEW S \in SUBSET (1..n), NEW going \in InOrder(S)
    PROVE  going \in Seq(1..n) /\ {going[k] : k \in DOMAIN going} = S
<1>1. IsFiniteSet(S)
  <2>1. IsFiniteSet(1..n)
    <3>1. 1 \in Int /\ n \in Int
      OBVIOUS
    <3> QED BY <3>1, FS_Interval
  <2> QED BY <2>1, FS_Subset
<1>2. Cardinality(S) \in Nat
  BY <1>1, FS_CardinalityType
<1>3. going \in [1..Cardinality(S) -> S] /\ ToSet(going) = S
  BY DEF InOrder
<1>4. going \in [1..Cardinality(S) -> 1..n]
  BY <1>3
<1>5. ToSet(going) = {going[k] : k \in DOMAIN going}
  BY DEF ToSet
<1>6. going \in Seq(1..n)
  <2> DEFINE c == Cardinality(S)
  <2>1. c \in Nat /\ going \in [1..c -> 1..n]
    BY <1>2, <1>4
  <2> HIDE DEF c
  <2> QED BY <2>1
<1> QED BY <1>3, <1>5, <1>6

(* What a page leads to, with the positions that go on. *)
PageStep(reply, going) ==
    LET next == [k \in DOMAIN going |-> [active[going[k]] EXCEPT !.page = @ + 1]]
        last == next = <<>> \/ page + 1 = MaxPages
    IN  /\ Settle(reply.how)
        /\ page' = page + 1
        /\ listed' = listed \cup UNION {reply.rows[i].ids \X {active[i].package}
                                          : i \in DOMAIN reply.rows}
        /\ partial' = (partial \/ Torn(reply) \/ (last /\ next # <<>>))
        /\ active' = IF last THEN <<>> ELSE next
        /\ todo' = IF last THEN {l[1] : l \in listed'} ELSE {}
        /\ osv' = IF ~last \/ todo' # {} THEN osv ELSE IF partial' THEN "partial" ELSE "ok"

LEMMA PageReadKeeps ==
    ASSUME TaskInv, ClientInv, phase = "osv", OsvInv, RecordsInv, PageRead, UNCHANGED taskVars
    PROVE  ClientInv' /\ OsvInv' /\ RecordsInv' /\ (earned => earned')
<1> DEFINE Queries == [package : packages, page : Nat]
<1> USE AdvisorySourcesAssumption
<1>0. ActiveInv /\ FetchInv /\ ReadInv /\ SoundInv
  BY DEF OsvInv
<1>1. /\ active # <<>> /\ todo = {} /\ found = {} /\ osv = "not_applicable"
      /\ page \in Nat /\ page < MaxPages /\ MaxPages \in Nat
  BY <1>0 DEF PageRead, ActiveInv
<1>2. /\ UNCHANGED <<packages, phase, task, found>> /\ Pairs' = Pairs /\ Beyond' = Beyond
      /\ FetchedOf("osv") = {} /\ FetchedOf("osv")' = {}
  BY <1>1 DEF PageRead, taskVars, Pairs, Beyond, FetchedOf
<1>a. PICK reply \in BatchReplies(active) :
         \E going \in InOrder(Going(reply)) : PageStep(reply, going)
  BY DEF PageRead, PageStep
<1>3. PICK going \in InOrder(Going(reply)) : PageStep(reply, going)
  BY <1>a
<1> DEFINE next == [k \in DOMAIN going |-> [active[going[k]] EXCEPT !.page = @ + 1]]
           last == next = <<>> \/ page + 1 = MaxPages
           n == Len(active)
           answered == reply.rows
<1>4. /\ active \in Seq(Queries) /\ n \in Nat /\ DOMAIN active = 1..n
      /\ \A i \in 1..n : /\ active[i].package \in packages /\ active[i].page \in Nat
                         /\ active[i] = [package |-> active[i].package, page |-> active[i].page]
                         /\ active[i].page = page + 1
                         /\ page + 1 <= Len(Pages[active[i].package])
  <2>1. active \in Seq(Queries)
    BY <1>0 DEF ActiveInv
  <2>2. \A i \in 1..n : active[i] \in Queries
    BY <2>1, ElementOfSeq
  <2>3. n \in Nat /\ DOMAIN active = 1..n
    BY <2>1
  <2> QED BY <2>1, <2>2, <2>3, <1>0 DEF ActiveInv
<1>5. /\ answered \in Seq(Rows) /\ DOMAIN answered \subseteq 1..n
      /\ \A i \in DOMAIN answered : Said(active[i], answered[i])
      /\ ~Torn(reply) => /\ DOMAIN answered = 1..n
                         /\ \A i \in 1..n : answered[i] = BatchRow(active[i])
      /\ reply.how \in {"honest", "damaged"}
      /\ reply.how = "honest" => ~Torn(reply)
  <2>1. active \in Seq([package : PackagesListed, page : Nat])
    <3> DEFINE Listed == [package : PackagesListed, page : Nat]
    <3>1. Queries \subseteq Listed
      BY DEF TaskInv
    <3>2. active \in Seq(Queries)
      BY <1>4
    <3> HIDE DEF Queries, Listed
    <3>3. active \in Seq(Listed)
      BY <3>1, <3>2, SeqMonotonic
    <3> QED BY <3>3 DEF Listed
  <2>2. \A i \in DOMAIN active : active[i].page \in 1..Len(Pages[active[i].package])
    <3>1. \A p \in packages : Len(Pages[p]) \in Nat
      BY DEF TaskInv, PackagesListed
    <3> QED BY <1>1, <1>4, <3>1
  <2> HIDE DEF Queries, answered, n
  <2>3. /\ reply.rows \in Seq(Rows) /\ DOMAIN reply.rows \subseteq DOMAIN active
        /\ \A i \in DOMAIN reply.rows : Said(active[i], reply.rows[i])
        /\ ~Torn(reply) => /\ DOMAIN reply.rows = DOMAIN active
                           /\ \A i \in DOMAIN active : reply.rows[i] = BatchRow(active[i])
        /\ reply.how \in {"honest", "damaged"}
        /\ reply.how = "honest" => ~Torn(reply)
    BY <1>1, <2>1, <2>2, RepliesSay
  <2>4. DOMAIN active = 1..n
    BY <1>4
  <2> QED BY <2>3, <2>4 DEF answered
<1>6. going \in Seq(1..n) /\ {going[k] : k \in DOMAIN going} = Going(reply)
  <2>1. Going(reply) \in SUBSET (1..n)
    BY <1>5 DEF Going
  <2> QED BY <1>4, <2>1, GoingIs
<1>7. /\ next \in Seq(Queries) /\ DOMAIN next = DOMAIN going
      /\ \A k \in DOMAIN next : /\ next[k].package = active[going[k]].package
                                /\ next[k].page = page + 2
                                /\ page + 2 <= Len(Pages[next[k].package])
  <2>1. Len(going) \in Nat /\ DOMAIN going = 1..Len(going)
    BY <1>6
  <2>2. \A k \in DOMAIN going : going[k] \in 1..n /\ going[k] \in Going(reply)
    BY <1>6
  <2>3. ASSUME NEW k \in DOMAIN going
        PROVE  /\ next[k] \in Queries /\ next[k].package = active[going[k]].package
               /\ next[k].page = page + 2
               /\ page + 2 <= Len(Pages[next[k].package])
    <3>1. next[k] = [package |-> active[going[k]].package, page |-> active[going[k]].page + 1]
      BY <1>4, <2>2
    <3>2. active[going[k]].page < Len(Pages[active[going[k]].package])
      BY <1>5, <2>2 DEF Going, Said
    <3>3. active[going[k]].package \in packages /\ Len(Pages[active[going[k]].package]) \in Nat
      BY <1>4, <2>2 DEF TaskInv, PackagesListed
    <3>4. active[going[k]].page = page + 1
      BY <1>4, <2>2
    <3> QED BY <1>1, <3>1, <3>2, <3>3, <3>4
  <2>4. next \in [1..Len(going) -> Queries]
    BY <2>1, <2>3
  <2> QED BY <2>1, <2>3, <2>4
<1>8. next # <<>> => \E k : k \in DOMAIN next
  BY <1>7
<1> HIDE DEF next
<1>9. /\ Settle(reply.how) /\ page' = page + 1
      /\ listed' = listed \cup UNION {answered[i].ids \X {active[i].package}
                                          : i \in DOMAIN answered}
      /\ partial' = (partial \/ Torn(reply) \/ (last /\ next # <<>>))
      /\ active' = IF last THEN <<>> ELSE next
      /\ todo' = IF last THEN IdsListed' ELSE {}
      /\ osv' = IF ~last \/ todo' # {} THEN osv ELSE IF partial' THEN "partial" ELSE "ok"
  BY <1>3 DEF PageStep, next, IdsListed
<1> HIDE DEF answered
<1>10. ClientInv' /\ (earned => earned') /\ (~earned' => reply.how = "honest")
  BY <1>9, SettleEarns
<1>11. partial' \in BOOLEAN /\ osv' \in {"not_applicable", "partial", "ok"}
  <2>1. partial' \in BOOLEAN
    BY <1>0, <1>9, Zenon DEF ActiveInv
  <2> QED BY <1>1, <1>9, <2>1
<1>12. listed' \subseteq Pairs
  <2>1. ASSUME NEW i \in DOMAIN answered, NEW l \in answered[i].ids \X {active[i].package}
        PROVE  l \in Pairs
    <3>1. i \in 1..n /\ Said(active[i], answered[i]) /\ active[i].package \in packages
      BY <1>4, <1>5 DEF answered
    <3>2. answered[i].ids \subseteq Ids
      BY <3>1 DEF Said, Rows
    <3>3. l \in Ids \X packages /\ l[2] = active[i].package
          /\ l[1] \in Pages[active[i].package][active[i].page]
      BY <2>1, <3>1, <3>2 DEF Said
    <3>4. active[i].page \in DOMAIN Pages[active[i].package]
      <4>1. Pages[active[i].package] \in Seq(SUBSET Ids)
        BY <3>1 DEF TaskInv, PackagesListed
      <4> QED BY <1>1, <1>4, <3>1, <4>1
    <3> QED BY <3>3, <3>4 DEF Pairs
  <2>2. listed \subseteq Pairs
    BY <1>0 DEF FetchInv
  <2> QED BY <1>9, <2>1, <2>2
<1>13. ActiveInv'
  <2>1. active' \in Seq(Queries) /\ page' \in Nat
    BY <1>1, <1>7, <1>9
  <2>2. \A i \in DOMAIN active' :
           active'[i].page = page' + 1 /\ page' + 1 <= Len(Pages[active'[i].package])
    <3>1. active' # <<>> => active' = next
      BY <1>9
    <3>2. CASE active' = next
      BY <1>1, <1>7, <1>9, <3>2
    <3>3. CASE active' = <<>>
      BY <3>3
    <3> QED BY <3>1, <3>2, <3>3
  <2>3. active' # <<>> => todo' = {} /\ found' = {} /\ osv' = "not_applicable" /\ page' < MaxPages
    <3> SUFFICES ASSUME active' # <<>>
                 PROVE  todo' = {} /\ osv' = "not_applicable" /\ page' < MaxPages
      BY <1>1, <1>2
    <3>1. ~last
      BY <1>9
    <3>2. page + 1 # MaxPages
      BY <3>1
    <3> QED BY <1>1, <1>9, <3>1, <3>2
  <2>4. page' # 0
    BY <1>1, <1>9
  <2>5. osv' \in States
    BY <1>11 DEF States
  <2> QED BY <1>2, <1>11, <2>1, <2>2, <2>3, <2>4, <2>5 DEF ActiveInv
<1>14. FetchInv'
  <2>1. todo' \subseteq IdsListed'
    BY <1>9
  <2>2. active' = <<>> => last
    BY <1>7, <1>9
  <2>3. \A r \in found' : r.source = "osv"
    BY <1>1, <1>2
  <2>4. todo' # {} => osv' = "not_applicable"
    BY <1>1, <1>9
  <2> QED BY <1>2, <1>9, <1>12, <2>1, <2>2, <2>3, <2>4 DEF FetchInv
<1>15. ReadInv'
  <2>1. ~partial' => ~partial /\ ~Torn(reply) /\ (last => next = <<>>)
    BY <1>0, <1>9, <1>11, Zenon
  <2>2. ASSUME ~partial', NEW p \in packages, NEW k \in 1..Len(Pages[p])
        PROVE  PageIsRead(p, k)'
    <3>1. DOMAIN answered = 1..n /\ \A i \in 1..n : answered[i] = BatchRow(active[i])
      BY <1>5, <2>1, <2>2 DEF answered
    <3>2. OsvAsked
      BY <1>1 DEF OsvAsked
    <3>3. PageIsRead(p, k)
      BY <1>0, <1>1, <2>1, <2>2, <3>2 DEF ReadInv
    <3>4. listed \subseteq listed'
      BY <1>9
    <3>5. CASE Pages[p][k] \X {p} \subseteq listed
      BY <3>4, <3>5 DEF PageIsRead
    <3>6. CASE \E i \in DOMAIN active : active[i].package = p /\ active[i].page <= k
      <4>1. PICK i \in 1..n : active[i].package = p /\ active[i].page <= k
        BY <1>4, <3>6
      <4>2. active[i].page = page + 1 /\ Len(Pages[p]) \in Nat /\ k \in Nat
        BY <1>4, <4>1 DEF TaskInv, PackagesListed
      <4>3. CASE k = page + 1
        <5>1. answered[i].ids = Pages[p][k]
          BY <3>1, <4>1, <4>2, <4>3 DEF BatchRow
        <5>2. answered[i].ids \X {active[i].package} \subseteq listed'
          BY <1>9, <3>1
        <5> QED BY <4>1, <5>1, <5>2 DEF PageIsRead
      <4>4. CASE k # page + 1
        <5>1. page + 2 <= k /\ page + 1 < Len(Pages[p])
          BY <1>1, <4>1, <4>2, <4>4
        <5>2. answered[i].more = "yes"
          BY <3>1, <4>1, <4>2, <5>1 DEF BatchRow
        <5>3. i \in Going(reply)
          BY <3>1, <5>2 DEF Going, answered
        <5>4. PICK m \in DOMAIN going : going[m] = i
          BY <1>6, <5>3
        <5>5. next # <<>> /\ m \in DOMAIN next
          BY <1>7, <5>4
        <5>6. active' = next
          BY <1>9, <2>1, <2>2, <5>5
        <5>7. next[m].package = p /\ next[m].page <= k
          BY <1>7, <4>1, <5>1, <5>4, <5>5
        <5> QED BY <5>5, <5>6, <5>7 DEF PageIsRead
      <4> QED BY <4>3, <4>4
    <3> QED BY <3>3, <3>5, <3>6 DEF PageIsRead
  <2>3. osv' = "ok" => last /\ ~partial' /\ todo' = {}
    BY <1>1, <1>9
  <2>4. last => active' = <<>>
    BY <1>9
  <2> QED BY <1>2, <2>2, <2>3, <2>4 DEF ReadInv
<1>16. SoundInv'
  <2> SUFFICES ASSUME ~earned', ~Beyond PROVE ~partial' /\ osv' \in {"ok", "not_applicable"}
    BY <1>2 DEF SoundInv
  <2>1. ~Torn(reply) /\ ~partial
    BY <1>0, <1>5, <1>10 DEF SoundInv
  <2>2. ~(last /\ next # <<>>)
    <3> SUFFICES ASSUME last, next # <<>> PROVE FALSE
      OBVIOUS
    <3>1. PICK k \in DOMAIN next : TRUE
      BY <1>8
    <3>2. /\ next[k].package \in packages /\ page + 2 <= Len(Pages[next[k].package])
          /\ page + 1 = MaxPages
      <4>1. next[k].package = active[going[k]].package /\ going[k] \in 1..n
        <5>1. k \in DOMAIN going
          BY <1>7, <3>1
        <5>2. going[k] \in 1..n
          BY <1>6, <5>1
        <5> QED BY <1>7, <3>1, <5>2
      <4> QED BY <1>4, <1>7, <3>1, <4>1
    <3>3. Len(Pages[next[k].package]) \in Nat
      BY <3>2 DEF TaskInv, PackagesListed
    <3>4. Len(Pages[next[k].package]) > MaxPages
      BY <1>1, <3>2, <3>3
    <3> QED BY <3>2, <3>4 DEF Beyond
  <2>3. ~partial'
    BY <1>9, <2>1, <2>2, Zenon
  <2> QED BY <1>1, <1>9, <2>3
<1>17. RecordsInv'
  BY <1>1, <1>2 DEF RecordsInv
<1> QED BY <1>10, <1>13, <1>14, <1>15, <1>16, <1>17 DEF OsvInv

LEMMA PageFailedKeeps ==
    ASSUME TaskInv, ClientInv, phase = "osv", OsvInv, RecordsInv, PageFailed, UNCHANGED taskVars
    PROVE  ClientInv' /\ OsvInv' /\ RecordsInv' /\ (earned => earned')
<1>0. ActiveInv /\ FetchInv /\ ReadInv /\ SoundInv
  BY DEF OsvInv
<1>1. /\ active # <<>> /\ todo = {} /\ found = {} /\ osv = "not_applicable"
      /\ page \in Nat /\ active' = <<>> /\ page' = page + 1 /\ page' # 0
  BY <1>0 DEF PageFailed, ActiveInv
<1>2. /\ UNCHANGED <<packages, phase, task, found, listed>> /\ Pairs' = Pairs /\ Beyond' = Beyond
      /\ FetchedOf("osv") = {} /\ FetchedOf("osv")' = {} /\ IdsListed' = IdsListed
  BY <1>1 DEF PageFailed, taskVars, Pairs, Beyond, FetchedOf, IdsListed
<1>3. PICK how \in (Failures \ {"escaped"}) \cup {"damaged"} :
         /\ Settle(how)
         /\ \/ osv' = "unavailable" /\ UNCHANGED <<partial, todo>>
            \/ /\ partial' = TRUE /\ todo' = IdsListed
               /\ osv' = IF todo' = {} THEN "partial" ELSE osv
  BY DEF PageFailed, IdsListed
<1>4. ClientInv' /\ earned'
  <2>1. how # "honest"
    BY DEF Failures
  <2> QED BY <1>3, <2>1, SettleEarns
<1>5. todo' \subseteq IdsListed' /\ (todo' # {} => osv' = "not_applicable") /\ partial' \in BOOLEAN
  BY <1>0, <1>1, <1>2, <1>3 DEF ActiveInv
<1>6. (partial' \/ osv' = "unavailable") /\ osv' \in States /\ osv' # "ok"
  BY <1>1, <1>3 DEF States
<1>7. ActiveInv'
  BY <1>1, <1>2, <1>5, <1>6 DEF ActiveInv
<1>8. FetchInv'
  <2>1. listed' \subseteq Pairs' /\ \A r \in found' : r.source = "osv"
    BY <1>0, <1>1, <1>2 DEF FetchInv
  <2> QED BY <1>2, <1>5, <1>6, <2>1 DEF FetchInv
<1>9. ReadInv' /\ SoundInv'
  BY <1>4, <1>6 DEF ReadInv, SoundInv
<1>10. RecordsInv'
  BY <1>1, <1>2 DEF RecordsInv
<1> QED BY <1>4, <1>7, <1>8, <1>9, <1>10 DEF OsvInv

-----------------------------------------------------------------------------
(* Lookups. *)

(* A record is the source's own and says what it was asked for.             *)
LEMMA RecordSays ==
    ASSUME NEW source, NEW id, NEW k \in RecordsOf(source, id)
    PROVE  /\ IsRecord(k) /\ k.source = source /\ id \in k.ids
           /\ source = "osv" => k = Record("osv", id) /\ k.id = id
<1>1. \A i : /\ IsRecord(Record(source, i)) /\ Record(source, i).source = source
             /\ Record(source, i).id = i /\ i \in Record(source, i).ids
             /\ Names[i] \subseteq Record(source, i).ids
  BY DEF Record, IsRecord
<1>2. \/ source # "osv" /\ \E g \in Naming(id) : k = Record(source, g)
      \/ k = Record(source, id)
  BY DEF RecordsOf
<1>3. \A g \in Naming(id) : id \in Names[g]
  BY DEF Naming
<1> QED BY <1>1, <1>2, <1>3

(* Only an honest answer is whole, and it is what the source holds; an      *)
(* honest answer that is not names several advisories.                      *)
LEMMA LookupSays ==
    ASSUME NEW source, NEW id, NEW r \in LookupResults(source, id)
    PROVE  /\ r.records \subseteq RecordsOf(source, id)
           /\ r.how = "honest" => r.state = "ok" \/ Ambiguous(source, id)
           /\ r.state = "ok" => r.records = RecordsOf(source, id) /\ ~Ambiguous(source, id)
           /\ r.how # "stored"
<1> DEFINE kept == RecordsOf(source, id)
           state == IF Ambiguous(source, id) THEN "partial" ELSE "ok"
<1>1. \/ r = Result("honest", state, kept)
      \/ r \in {Result("damaged", "partial", {}), Result("damaged", "partial", kept)}
      \/ \E f \in Failures : r = Result(f, "unavailable", {})
  BY DEF LookupResults, Normalized
<1> HIDE DEF kept
<1>2. CASE r = Result("honest", state, kept)
  BY <1>2 DEF Result, kept
<1>3. CASE r \in {Result("damaged", "partial", {}), Result("damaged", "partial", kept)}
  BY <1>3 DEF Result, kept
<1>4. CASE \E f \in Failures : r = Result(f, "unavailable", {})
  BY <1>4 DEF Result, Failures
<1> QED BY <1>1, <1>2, <1>3, <1>4

(* A CVE of which OSV or NVD is asked, or a GHSA, is never ambiguous; so    *)
(* the owner of an identifier always says whether it has it.                *)
LEMMA OwnerIsClear == ASSUME NEW id PROVE ~Ambiguous(Owner(id), id)
  BY AdvisorySourcesAssumption DEF Ambiguous, Owner

LEMMA RecordFetchedKeeps ==
    ASSUME TaskInv, ClientInv, phase = "osv", OsvInv, RecordsInv, RecordFetched,
           UNCHANGED taskVars
    PROVE  ClientInv' /\ OsvInv' /\ RecordsInv' /\ (earned => earned')
<1>0. ActiveInv /\ FetchInv /\ ReadInv /\ SoundInv
  BY DEF OsvInv
<1>1. /\ active = <<>> /\ todo # {} /\ osv = "not_applicable" /\ page # 0
      /\ todo \subseteq IdsListed /\ IdsListed \subseteq Ids
  <2>1. todo \subseteq IdsListed /\ listed \subseteq Pairs
    BY <1>0 DEF FetchInv
  <2>2. IdsListed \subseteq Ids
    BY <2>1 DEF IdsListed, Pairs
  <2> QED BY <1>0, <2>1, <2>2 DEF RecordFetched, ActiveInv, FetchInv
<1>2. /\ UNCHANGED <<packages, phase, task, listed, active, page>>
      /\ Pairs' = Pairs /\ Beyond' = Beyond /\ IdsListed' = IdsListed
  BY DEF RecordFetched, taskVars, Pairs, Beyond, IdsListed
<1> DEFINE id == Min(todo)
<1>3. id \in todo
  BY <1>1, LeastIsMember, AdvisorySourcesAssumption
<1>4. PICK r \in LookupResults("osv", id) :
         /\ Settle(r.how) /\ r.how # "escaped"
         /\ found' = found \cup r.records
         /\ todo' = todo \ {id}
         /\ partial' = (partial \/ r.state # "ok" \/ r.records = {})
         /\ osv' = IF todo' # {} THEN osv ELSE IF partial' THEN "partial" ELSE "ok"
  BY DEF RecordFetched
<1> HIDE DEF id
<1> DEFINE kept == Record("osv", id)
<1>5. /\ r.records \subseteq {kept} /\ (r.how = "honest" => r.state = "ok")
      /\ r.state = "ok" => r.records = IF id \in Holds("osv") THEN {kept} ELSE {}
  <2>1. ~Ambiguous("osv", id)
    BY DEF Ambiguous
  <2>2. RecordsOf("osv", id) = IF id \in Holds("osv") THEN {kept} ELSE {}
    BY <2>1 DEF RecordsOf
  <2> HIDE DEF kept
  <2> QED BY <1>4, <2>1, <2>2, LookupSays
<1>6. IsRecord(kept) /\ kept.source = "osv" /\ kept.id = id
  BY DEF Record, IsRecord
<1> HIDE DEF kept
<1>7. ClientInv' /\ (earned => earned') /\ (~earned' => r.how = "honest")
  BY <1>4, SettleEarns
<1>8. /\ partial' \in BOOLEAN /\ (partial => partial')
      /\ (~partial' => r.state = "ok" /\ r.records = {kept})
  <2>1. partial' \in BOOLEAN /\ (partial => partial')
    BY <1>0, <1>4, Zenon DEF ActiveInv
  <2>2. ~partial' => r.state = "ok" /\ r.records # {}
    BY <1>4, Zenon
  <2> QED BY <1>5, <2>1, <2>2
<1>9. /\ osv' \in States /\ osv' # "unavailable" /\ (todo' # {} => osv' = "not_applicable")
      /\ (osv' = "ok" => ~partial' /\ todo' = {})
  BY <1>1, <1>4 DEF States
<1>10. /\ FetchedOf("osv") \subseteq FetchedOf("osv")'
       /\ FetchedOf("osv")' \subseteq FetchedOf("osv") \cup {id}
       /\ (~partial' => id \in FetchedOf("osv")')
  <2>1. FetchedOf("osv") = {k.id : k \in {f \in found : f.source = "osv"}}
    BY DEF FetchedOf
  <2>2. FetchedOf("osv")' = {k.id : k \in {f \in found' : f.source = "osv"}}
    BY DEF FetchedOf
  <2>3. FetchedOf("osv") \subseteq FetchedOf("osv")'
    BY <1>4, <2>1, <2>2
  <2>4. FetchedOf("osv")' \subseteq FetchedOf("osv") \cup {id}
    BY <1>4, <1>5, <1>6, <2>1, <2>2
  <2>5. ~partial' => kept \in found'
    BY <1>4, <1>8
  <2> QED BY <1>6, <2>2, <2>3, <2>4, <2>5
<1>11. ActiveInv'
  BY <1>0, <1>1, <1>2, <1>8, <1>9 DEF ActiveInv
<1>12. FetchInv'
  <2>1. \A f \in found' : f.source = "osv"
    BY <1>0, <1>4, <1>5, <1>6 DEF FetchInv
  <2>2. FetchedOf("osv")' \cup todo' \subseteq IdsListed'
    BY <1>0, <1>1, <1>2, <1>3, <1>4, <1>10 DEF FetchInv
  <2>3. ~partial' => IdsListed' \subseteq FetchedOf("osv")' \cup todo'
    BY <1>0, <1>1, <1>2, <1>4, <1>8, <1>10 DEF FetchInv
  <2>4. listed' \subseteq Pairs'
    BY <1>0, <1>2 DEF FetchInv
  <2> QED BY <1>9, <2>1, <2>2, <2>3, <2>4 DEF FetchInv
<1>13. ReadInv'
  <2>1. OsvAsked
    BY <1>0, <1>1 DEF OsvAsked, ActiveInv
  <2>2. \A p, k : PageIsRead(p, k) => PageIsRead(p, k)'
    BY <1>2 DEF PageIsRead
  <2> QED BY <1>0, <1>1, <1>2, <1>8, <1>9, <2>1, <2>2 DEF ReadInv
<1>14. SoundInv'
  <2> SUFFICES ASSUME ~earned', ~Beyond PROVE ~partial' /\ osv' \in {"ok", "not_applicable"}
    BY <1>2 DEF SoundInv
  <2>1. ~partial /\ r.state = "ok"
    BY <1>0, <1>5, <1>7 DEF SoundInv
  <2>2. id \in OsvHolds
    <3>1. PICK l \in listed : l[1] = id
      BY <1>1, <1>3 DEF IdsListed
    <3> QED BY <1>0, <3>1 DEF Beyond, FetchInv
  <2>3. r.records = {kept}
    BY <1>5, <2>1, <2>2 DEF Holds
  <2>4. ~partial'
    BY <1>4, <2>1, <2>3
  <2> QED BY <1>1, <1>4, <2>4
<1>15. RecordsInv'
  BY <1>4, <1>5, <1>6 DEF RecordsInv
<1> QED BY <1>7, <1>11, <1>12, <1>13, <1>14, <1>15 DEF OsvInv

LEMMA QueryLostKeeps ==
    ASSUME TaskInv, ClientInv, phase = "osv", OsvInv, RecordsInv, QueryLost, UNCHANGED taskVars
    PROVE  ClientInv' /\ OsvInv' /\ RecordsInv' /\ (earned => earned')
<1>1. /\ active' = <<>> /\ page' = 0 /\ listed' = {} /\ partial' = FALSE /\ todo' = {}
      /\ found' = {} /\ osv' = "unavailable" /\ packages' = packages
  BY DEF QueryLost, taskVars
<1>2. ClientInv' /\ earned'
  BY SettleEarns DEF QueryLost
<1>3. ActiveInv'
  <2>1. active' \in Seq([package : packages, page : Nat]) /\ DOMAIN active' = {}
    BY <1>1
  <2>2. osv' \in States
    BY <1>1 DEF States
  <2> QED BY <1>1, <2>1, <2>2 DEF ActiveInv
<1>4. FetchInv'
  BY <1>1 DEF FetchInv, FetchedOf, IdsListed
<1>5. ReadInv' /\ SoundInv' /\ RecordsInv'
  BY <1>1, <1>2 DEF ReadInv, SoundInv, RecordsInv
<1> QED BY <1>2, <1>3, <1>4, <1>5 DEF OsvInv

-----------------------------------------------------------------------------
(* Asking OSV, and what is left of its answer. *)

(* A finite set becomes a sequence of its members.                          *)
LEMMA SeqOfSet ==
    ASSUME NEW S, IsFiniteSet(S)
    PROVE  /\ SetToSeq(S) \in Seq(S)
           /\ \A x \in S : \E i \in DOMAIN SetToSeq(S) : SetToSeq(S)[i] = x
<1> DEFINE c == Cardinality(S)
           s == SetToSeq(S)
<1>1. c \in Nat /\ ExistsBijection(1..c, S)
  BY FS_CardinalityType
<1>2. \E f \in [1..c -> S] : IsInjective(f)
  BY <1>1 DEF ExistsBijection, Bijection, Injection
<1>3. s \in [1..c -> S] /\ IsInjective(s)
  BY <1>2 DEF SetToSeq
<1> HIDE DEF s
<1>4. IsFiniteSet(1..c) /\ Cardinality(1..c) = c
  <2> HIDE DEF c
  <2>1. 1 \in Int /\ c \in Int /\ ~(1 > c /\ c # 0) /\ c - 1 + 1 = c
    BY <1>1
  <2>2. IsFiniteSet(1..c) /\ Cardinality(1..c) = IF 1 > c THEN 0 ELSE c - 1 + 1
    BY <2>1, FS_Interval
  <2> QED BY <2>1, <2>2
<1>5. s \in Injection(1..c, S)
  BY <1>3 DEF Injection
<1>6. s \in Surjection(1..c, S)
  BY <1>4, <1>5, FS_Injection
<1>7. s \in Seq(S) /\ DOMAIN s = 1..c
  <2> HIDE DEF c
  <2> QED BY <1>1, <1>3
<1>8. \A x \in S : \E i \in 1..c : s[i] = x
  BY <1>6 DEF Surjection
<1> QED BY <1>7, <1>8 DEF s

LEMMA AskOsvKeeps ==
    ASSUME TaskInv, ClientInv, phase = "osv", OsvInv, RecordsInv, AskOsv
    PROVE  ClientInv' /\ OsvInv' /\ RecordsInv' /\ (earned => earned')
<1> DEFINE Queries == {[package |-> p, page |-> 1] : p \in packages}
           asking == SetToSeq(Queries)
<1>0. ActiveInv /\ FetchInv /\ ReadInv /\ SoundInv
  BY DEF OsvInv
<1>1. /\ active = <<>> /\ page = 0 /\ osv = "not_applicable" /\ todo = {} /\ found = {}
      /\ UNCHANGED <<packages, phase, task, found, todo>> /\ active' = asking /\ page' = 0
      /\ listed' = {} /\ partial' = FALSE /\ osv' = IF packages = {} THEN "ok" ELSE osv
      /\ ClientInv' /\ earned' = earned
  BY <1>0 DEF AskOsv, QueryOsv, ActiveInv, taskVars, httpVars, ClientInv
<1>2. Pairs' = Pairs /\ Beyond' = Beyond /\ FetchedOf("osv")' = {} /\ IdsListed' = {}
  BY <1>1 DEF Pairs, Beyond, FetchedOf, IdsListed
<1>3. IsFiniteSet(Queries)
  <2> DEFINE f == [p \in packages |-> [package |-> p, page |-> 1]]
  <2>1. f \in Surjection(packages, Queries)
    BY DEF Surjection
  <2>2. IsFiniteSet(packages)
    BY DEF TaskInv
  <2> HIDE DEF f, Queries
  <2> QED BY <2>1, <2>2, FS_Surjection
<1>4. asking \in Seq(Queries) /\ \A q \in Queries : \E i \in DOMAIN asking : asking[i] = q
  <2> HIDE DEF Queries
  <2> QED BY <1>3, SeqOfSet
<1> HIDE DEF asking
<1>5. \A i \in DOMAIN asking : asking[i] \in Queries
  <2> HIDE DEF Queries
  <2>1. DOMAIN asking = 1..Len(asking)
    BY <1>4
  <2> QED BY <1>4, <2>1, ElementOfSeq
<1>6. \A i \in DOMAIN asking : asking[i].page = 1 /\ asking[i].package \in packages
  BY <1>5
<1>7. asking \in Seq([package : packages, page : Nat])
  <2> DEFINE Listed == [package : packages, page : Nat]
  <2>1. Queries \subseteq Listed
    OBVIOUS
  <2> HIDE DEF Queries, Listed
  <2>2. asking \in Seq(Listed)
    BY <1>4, <2>1, SeqMonotonic
  <2> QED BY <2>2 DEF Listed
<1>8. \A p \in packages : Len(Pages[p]) \in Nat /\ 1 <= Len(Pages[p])
  BY AdvisorySourcesAssumption DEF TaskInv, PackagesListed
<1>9. asking # <<>> => packages # {}
  <2> SUFFICES ASSUME asking # <<>> PROVE packages # {}
    OBVIOUS
  <2>1. 1 \in DOMAIN asking
    <3> HIDE DEF Queries
    <3> QED BY <1>4
  <2> QED BY <1>6, <2>1
<1>10. ActiveInv'
  <2>1. \A i \in DOMAIN asking : asking[i].page = 0 + 1 /\ 0 + 1 <= Len(Pages[asking[i].package])
    BY <1>6, <1>8
  <2>2. 0 < MaxPages
    BY AdvisorySourcesAssumption
  <2>3. osv' \in States /\ (asking # <<>> => osv' = "not_applicable")
    BY <1>1, <1>9 DEF States
  <2>4. page' \in Nat /\ partial' \in BOOLEAN
    BY <1>1
  <2> QED BY <1>1, <1>7, <2>1, <2>2, <2>3, <2>4 DEF ActiveInv
<1>11. FetchInv'
  BY <1>1, <1>2 DEF FetchInv
<1>12. ReadInv'
  <2>1. ASSUME NEW p \in packages, NEW k \in 1..Len(Pages[p]) PROVE PageIsRead(p, k)'
    <3>1. PICK i \in DOMAIN asking : asking[i] = [package |-> p, page |-> 1]
      BY <1>4
    <3>2. asking[i].package = p /\ asking[i].page <= k
      BY <1>8, <3>1
    <3> QED BY <1>1, <3>2 DEF PageIsRead
  <2>2. osv' = "ok" => packages = {}
    BY <1>1
  <2> QED BY <1>1, <1>9, <2>1, <2>2 DEF ReadInv
<1>13. SoundInv' /\ RecordsInv'
  BY <1>1 DEF SoundInv, RecordsInv
<1> QED BY <1>1, <1>10, <1>11, <1>12, <1>13 DEF OsvInv

(* Every page was read and every record is there, if OSV is said to be whole. *)
LEMMA OsvEnds ==
    ASSUME TaskInv, OsvInv, phase = "osv", active = <<>>, todo = {}, osv # "not_applicable"
    PROVE  /\ listed \subseteq Pairs /\ osv \in States
           /\ osv = "ok" => listed = Pairs /\ FetchedOf("osv") = IdsListed
           /\ ~earned /\ ~Beyond => osv = "ok"
<1>0. ActiveInv /\ FetchInv /\ ReadInv /\ SoundInv
  BY DEF OsvInv
<1>1. listed \subseteq Pairs
  BY <1>0 DEF FetchInv
<1>2. ASSUME osv = "ok" PROVE listed = Pairs /\ FetchedOf("osv") = IdsListed
  <2>1. ~partial /\ OsvAsked
    BY <1>0, <1>2 DEF ReadInv, OsvAsked
  <2>2. \A p \in packages : \A k \in 1..Len(Pages[p]) : Pages[p][k] \X {p} \subseteq listed
    BY <1>0, <1>2, <2>1 DEF ReadInv, PageIsRead
  <2>3. ASSUME NEW l \in Pairs PROVE l \in listed
    <3>1. l \in Ids \X packages
      BY DEF Pairs
    <3>2. PICK k \in DOMAIN Pages[l[2]] : l[1] \in Pages[l[2]][k]
      BY DEF Pairs
    <3>3. l = <<l[1], l[2]>> /\ l[2] \in packages
      BY <3>1
    <3>4. k \in 1..Len(Pages[l[2]])
      BY <3>2, <3>3, AdvisorySourcesAssumption DEF TaskInv, PackagesListed
    <3>5. l \in Pages[l[2]][k] \X {l[2]}
      BY <3>2, <3>3
    <3> QED BY <2>2, <3>3, <3>4, <3>5
  <2>4. FetchedOf("osv") = IdsListed
    BY <1>0, <1>2, <2>1 DEF FetchInv
  <2> QED BY <1>1, <2>3, <2>4
<1>3. osv \in States /\ (~earned /\ ~Beyond => osv = "ok")
  BY <1>0 DEF SoundInv, ActiveInv
<1> QED BY <1>1, <1>2, <1>3

-----------------------------------------------------------------------------
(* The other sources. *)

LEMMA TookEarns ==
    ASSUME ClientInv, NEW how, Took(how)
    PROVE  ClientInv' /\ (earned => earned') /\ (~earned' => how \in {"honest", "stored"})
<1>1. CASE how = "stored"
  BY <1>1 DEF Took, ClientInv, httpVars
<1>2. CASE how # "stored"
  BY <1>2, SettleEarns DEF Took
<1> QED BY <1>1, <1>2

(* Without a fault every source answers; and a source that was not answered *)
(* for from a batch says what it holds.                                     *)
LEMMA AnswerSays ==
    ASSUME StoredInv, NEW source, NEW id \in Nat, source = "nvd" => id \in Cves,
           NEW r \in Answers(source, id)
    PROVE  /\ ~earned /\ r.how \in {"honest", "stored"} =>
                 r.state = "ok" \/ Ambiguous(source, id)
           /\ ~sticky /\ (\A c \in Cves : prefetched[c] = "no") /\ r.state = "ok"
                /\ id \in Holds(source) =>
                 \E k \in r.records : k.source = source /\ id \in k.ids
           /\ \A k \in r.records : IsRecord(k)
<1>1. CASE Requests(source, {id})
  <2>1. r \in LookupResults(source, id)
    BY <1>1 DEF Answers
  <2>2. /\ r.records \subseteq RecordsOf(source, id)
        /\ r.how = "honest" => r.state = "ok" \/ Ambiguous(source, id)
        /\ r.state = "ok" => r.records = RecordsOf(source, id) /\ ~Ambiguous(source, id)
        /\ r.how # "stored"
    BY <2>1, LookupSays
  <2>3. \A k \in RecordsOf(source, id) : IsRecord(k) /\ k.source = source /\ id \in k.ids
    BY RecordSays
  <2>4. id \in Holds(source) /\ ~Ambiguous(source, id) => RecordsOf(source, id) # {}
    BY RecordsFound
  <2> QED BY <2>2, <2>3, <2>4
<1>2. CASE ~Requests(source, {id})
  <2>1. Min({id}) = id
    BY DEF Min
  <2>2. source = "nvd" /\ id \in Cves /\ (prefetched[id] # "no" \/ sticky)
    BY <1>2, <2>1 DEF Requests
  <2>3. r = StoredResult(id)
    BY <1>2 DEF Answers
  <2>4. ~earned => prefetched[id] \in {"empty", "whole"}
    BY <2>2 DEF StoredInv
  <2>5. ~earned => r.state = "ok"
    BY <2>3, <2>4 DEF StoredResult, Result
  <2>6. \A k \in r.records : IsRecord(k)
    <3>1. r.records \subseteq {Record("nvd", id)}
      BY <2>3 DEF StoredResult, Result
    <3> QED BY <3>1 DEF Record, IsRecord
  <2> QED BY <2>2, <2>5, <2>6
<1> QED BY <1>1, <1>2

LEMMA OsvLeftKept ==
    ASSUME OsvLeft, phase # "osv", UNCHANGED <<task, packages, osv>>, earned => earned',
           FetchedOf("osv") \subseteq FetchedOf("osv")'
    PROVE  OsvLeft'
<1>1. Pairs' = Pairs /\ Beyond' = Beyond
  BY DEF Pairs, Beyond
<1>2. \/ task.kind \notin {"audit", "package"}
      \/ /\ osv # "not_applicable" /\ osv \in States
         /\ osv = "ok" => {l[1] : l \in Pairs} \subseteq FetchedOf("osv")
         /\ ~earned /\ ~Beyond => osv = "ok"
  BY DEF OsvLeft
<1>3. {l[1] : l \in Pairs}' = {l[1] : l \in Pairs}
  BY <1>1
<1> QED BY <1>1, <1>2, <1>3 DEF OsvLeft

(* What a lookup adds, and that it is told of. *)
LEMMA LookupFacts ==
    ASSUME ClientInv, RecordsInv, StoredInv, NEW source, NEW id \in Nat,
           source = "nvd" => id \in Cves, Lookup(source, id)
    PROVE  /\ ClientInv' /\ RecordsInv' /\ StoredInv' /\ (earned => earned')
           /\ UNCHANGED <<osv, kev, prefetched, sticky>>
           /\ found \subseteq found' /\ lookups \subseteq lookups'
           /\ \E l \in lookups' : l.source = source /\ l.id = id
           /\ ~sticky /\ (\A c \in Cves : prefetched[c] = "no")
                /\ source \in {"osv", "github", "nvd"} =>
                 \A l \in lookups' \ lookups :
                    l.state = "ok" /\ l.id \in Holds(l.source) =>
                        \E k \in found' : k.source = l.source /\ l.id \in k.ids
<1>1. PICK r \in Answers(source, id) :
         /\ Took(r.how)
         /\ lookups' = lookups \cup {Told(source, id, r)}
         /\ found' = found \cup r.records
  BY DEF Lookup
<1>2. UNCHANGED <<osv, kev, prefetched, sticky>>
  BY DEF Lookup
<1>3. ClientInv' /\ (earned => earned') /\ (~earned' => r.how \in {"honest", "stored"})
  BY <1>1, TookEarns
<1>4. /\ ~earned /\ r.how \in {"honest", "stored"} => r.state = "ok" \/ Ambiguous(source, id)
      /\ ~sticky /\ (\A c \in Cves : prefetched[c] = "no") /\ r.state = "ok"
           /\ id \in Holds(source) => \E k \in r.records : k.source = source /\ id \in k.ids
      /\ \A k \in r.records : IsRecord(k)
  BY <1>1, AnswerSays
<1> DEFINE told == Told(source, id, r)
<1>5. told.source = source /\ told.id = id /\ told.state = r.state
  BY DEF Told
<1> HIDE DEF told
<1>6. lookups' = lookups \cup {told}
  BY <1>1 DEF told
<1>7. RecordsInv'
  BY <1>1, <1>4 DEF RecordsInv
<1>8. StoredInv'
  <2>1. ~earned' => told.state = "ok" \/ Ambiguous(told.source, told.id)
    BY <1>3, <1>4, <1>5
  <2>2. ~earned' => ~earned
    BY <1>3
  <2>3. ~earned' => \A l \in lookups' : l.state = "ok" \/ Ambiguous(l.source, l.id)
    BY <1>6, <2>1, <2>2 DEF StoredInv
  <2> QED BY <1>2, <2>2, <2>3 DEF StoredInv
<1>9. ASSUME ~sticky, \A c \in Cves : prefetched[c] = "no", source \in {"osv", "github", "nvd"},
             NEW l \in lookups' \ lookups, l.state = "ok", l.id \in Holds(l.source)
      PROVE  \E k \in found' : k.source = l.source /\ l.id \in k.ids
  <2>1. l = told
    BY <1>6, <1>9
  <2>2. r.state = "ok" /\ id \in Holds(source) /\ l.source = source /\ l.id = id
    BY <1>5, <1>9, <2>1
  <2>3. PICK k \in r.records : k.source = source /\ id \in k.ids
    BY <1>4, <1>9, <2>2
  <2> QED BY <1>1, <2>2, <2>3
<1>10. \E l \in lookups' : l.source = source /\ l.id = id
  BY <1>5, <1>6
<1> QED BY <1>1, <1>2, <1>3, <1>6, <1>7, <1>8, <1>9, <1>10

(* A record keeps its source and identifier when it is supplemented.        *)
LEMMA EnrichFacts ==
    ASSUME ClientInv, RecordsInv, StoredInv, NEW record \in found, NEW source,
           Enrich(record, source)
    PROVE  /\ ClientInv' /\ RecordsInv' /\ StoredInv' /\ (earned => earned')
           /\ UNCHANGED <<osv, kev>> /\ FetchedOf("osv") \subseteq FetchedOf("osv")'
<1> DEFINE asking == Asked(source, record)
           id == Min(asking)
<1>1. UNCHANGED <<osv, kev, prefetched, sticky>>
  BY DEF Enrich
<1>2. CASE asking = {}
  <2>1. UNCHANGED <<httpVars, found, lookups>>
    BY <1>2 DEF Enrich
  <2> QED BY <1>1, <2>1 DEF ClientInv, RecordsInv, StoredInv, httpVars, FetchedOf
<1>3. CASE asking # {}
  <2>1. asking \subseteq Nat /\ (source = "nvd" => asking \subseteq Cves)
    BY AdvisorySourcesAssumption DEF Asked
  <2>2. id \in asking
    BY <1>3, <2>1, LeastIsMember
  <2>3. PICK r \in Answers(source, id) :
           /\ Took(r.how)
           /\ lookups' = lookups \cup {Told(source, id, r)}
           /\ found' = (found \ {record}) \cup
                       {[record EXCEPT !.ids = @ \cup UNION {k.ids : k \in r.records}]}
    BY <1>3 DEF Enrich
  <2> HIDE DEF id, asking
  <2>4. ClientInv' /\ (earned => earned') /\ (~earned' => r.how \in {"honest", "stored"})
    BY <2>3, TookEarns
  <2>5. ~earned /\ r.how \in {"honest", "stored"} => r.state = "ok" \/ Ambiguous(source, id)
    BY <2>1, <2>2, <2>3, AnswerSays
  <2> DEFINE told == Told(source, id, r)
             more == UNION {k.ids : k \in r.records}
             fuller == [record EXCEPT !.ids = @ \cup more]
  <2>6. told.state = r.state /\ told.source = source /\ told.id = id
    BY DEF Told
  <2>7. /\ IsRecord(fuller) /\ fuller.source = record.source /\ fuller.id = record.id
    <3> HIDE DEF more
    <3>1. record = [source |-> record.source, id |-> record.id, ids |-> record.ids]
      BY DEF RecordsInv, IsRecord
    <3>2. fuller = [source |-> record.source, id |-> record.id, ids |-> record.ids \cup more]
      BY <3>1
    <3> HIDE DEF fuller
    <3> QED BY <3>2 DEF IsRecord
  <2>8. found' = (found \ {record}) \cup {fuller} /\ lookups' = lookups \cup {told}
    BY <2>3
  <2> HIDE DEF told, fuller
  <2>9. RecordsInv'
    BY <2>7, <2>8 DEF RecordsInv
  <2>10. StoredInv'
    <3>1. ~earned' => ~earned /\ (told.state = "ok" \/ Ambiguous(told.source, told.id))
      BY <2>4, <2>5, <2>6
    <3>2. ~earned' => \A l \in lookups' : l.state = "ok" \/ Ambiguous(l.source, l.id)
      BY <2>8, <3>1 DEF StoredInv
    <3> QED BY <1>1, <3>1, <3>2 DEF StoredInv
  <2>11. FetchedOf("osv") \subseteq FetchedOf("osv")'
    <3>1. ASSUME NEW k \in found, k.source = "osv"
          PROVE  \E f \in found' : f.source = "osv" /\ f.id = k.id
      BY <2>7, <2>8, <3>1
    <3> QED BY <3>1 DEF FetchedOf
  <2> QED BY <1>1, <2>4, <2>9, <2>10, <2>11
<1> QED BY <1>2, <1>3

-----------------------------------------------------------------------------
(* The steps of a task. *)

LEMMA AuditKind == Audit.kind = "audit"
  BY DEF Audit

(* Short sequences are joined to the longer one. *)
LEMMA JoinedIs ==
    ASSUME NEW T, NEW a \in T, NEW b \in T, NEW c \in T
    PROVE  /\ <<a>> \o <<b>> \o <<>> = <<a, b>>
           /\ <<a>> \o <<b>> \o <<c>> = <<a, b, c>>
<1>1. <<a>> \o <<b>> = <<a, b>>
  <2> DEFINE s == <<a>> \o <<b>>
             t == <<a, b>>
  <2>1. s \in Seq(T) /\ Len(s) = 2 /\ \A i \in 1..2 : s[i] = IF i <= 1 THEN a ELSE b
    <3>1. <<a>> \in Seq(T) /\ Len(<<a>>) = 1 /\ <<b>> \in Seq(T) /\ Len(<<b>>) = 1
      OBVIOUS
    <3> QED BY <3>1, ConcatProperties
  <2>2. t \in Seq(T) /\ Len(t) = 2 /\ t[1] = a /\ t[2] = b
    OBVIOUS
  <2> HIDE DEF s, t
  <2>3. \A i \in 1..2 : s[i] = t[i]
    BY <2>1, <2>2
  <2>4. s = t
    BY <2>1, <2>2, <2>3, SeqEqual
  <2> QED BY <2>4 DEF s, t
<1>2. <<a, b>> \o <<c>> = <<a, b, c>>
  <2> DEFINE r == <<a, b>>
             s == r \o <<c>>
             t == <<a, b, c>>
  <2>1. r \in Seq(T) /\ Len(r) = 2 /\ <<c>> \in Seq(T) /\ Len(<<c>>) = 1 /\ r[1] = a /\ r[2] = b
    OBVIOUS
  <2>2. t \in Seq(T) /\ Len(t) = 3 /\ t[1] = a /\ t[2] = b /\ t[3] = c
    OBVIOUS
  <2> HIDE DEF r, t
  <2>3. s \in Seq(T) /\ Len(s) = 3 /\ \A i \in 1..3 : s[i] = IF i <= 2 THEN r[i] ELSE c
    BY <2>1, ConcatProperties
  <2> HIDE DEF s
  <2>4. \A i \in 1..3 : s[i] = t[i]
    BY <2>1, <2>2, <2>3
  <2>5. s = t
    BY <2>2, <2>3, <2>4, SeqEqual
  <2> QED BY <2>5 DEF r, s, t
<1>3. <<a, b>> \o <<>> = <<a, b>>
  OBVIOUS
<1> QED BY <1>1, <1>2, <1>3

LEMMA FactsStart == Init => FactsInv
<1> SUFFICES ASSUME Init PROVE FactsInv
  OBVIOUS
<1>1. /\ task \in Searches \cup {Audit} /\ phase = First(task) /\ verdict = "none"
      /\ packages \in IF task = Audit THEN Inventories ELSE {{task.package} \ {""}}
      /\ wanted = IF task.kind = "advisory" THEN Calls(task.id) ELSE <<>>
  BY DEF Init
<1>a. attempt = 0 /\ faults = 0 /\ earned = FALSE
  BY DEF Init, HttpInit
<1>b. /\ active = <<>> /\ page = 0 /\ listed = {} /\ partial = FALSE /\ todo = {} /\ found = {}
      /\ osv = "not_applicable" /\ prefetched = [c \in Cves |-> "no"] /\ sticky = FALSE
      /\ lookups = {}
  BY DEF Init, SourcesInit
<1>2. \/ task = Audit /\ task.kind = "audit" /\ phase = "osv"
      \/ /\ task.kind = "package" /\ phase = "osv" /\ task.package \in PackagesListed
         /\ packages = {task.package}
      \/ task.kind = "kev" /\ phase = "kev" /\ packages = {}
      \/ task.kind = "advisory" /\ phase = "calls" /\ packages = {} /\ task.id \in Ids
  <2>1. CASE task = Audit
    BY <1>1, <2>1, AuditKind DEF First
  <2>2. CASE task # Audit
    <3>1. task \in Searches /\ packages = {task.package} \ {""}
      BY <1>1, <2>2
    <3>2. CASE task.kind = "package" /\ task.package \in PackagesListed \ {""}
      BY <1>1, <3>1, <3>2 DEF First
    <3>3. CASE task.kind = "kev" /\ task.package = ""
      BY <1>1, <3>1, <3>3 DEF First
    <3>4. CASE task.kind = "advisory" /\ task.id \in Ids /\ task.package = ""
      BY <1>1, <3>1, <3>4 DEF First
    <3> QED BY <3>1, <3>2, <3>3, <3>4, AuditInputsAssumption
  <2> QED BY <2>1, <2>2
<1>3. IsFiniteSet(packages) /\ packages \subseteq PackagesListed
  <2>1. CASE task = Audit
    BY <1>1, <2>1, AuditInputsAssumption
  <2>2. CASE task # Audit
    <3>1. IsFiniteSet({task.package}) /\ packages \subseteq {task.package}
      BY <1>1, <2>2, FS_Singleton
    <3>2. IsFiniteSet(packages)
      BY <3>1, FS_Subset
    <3> QED BY <1>2, <2>2, <3>2
  <2> QED BY <2>1, <2>2
<1>4. TaskInv
  <2>1. task.kind = "package" => packages = {task.package}
    BY <1>2
  <2> QED BY <1>1, <1>2, <1>3, <2>1 DEF TaskInv
<1>5. ClientInv /\ RecordsInv
  <2>1. 0 \in 0..MaxAttempts - 1
    BY HttpClientAssumption
  <2> QED BY <1>a, <1>b, <2>1 DEF ClientInv, RecordsInv
<1>6. OsvInv
  <2>1. active \in Seq([package : packages, page : Nat])
    <3>1. active = <<>>
      BY <1>b
    <3> QED BY <3>1
  <2>2. ActiveInv
    <3>1. DOMAIN active = {}
      BY <1>b
    <3>2. osv \in States
      BY <1>b DEF States
    <3> QED BY <1>b, <2>1, <3>1, <3>2 DEF ActiveInv
  <2>3. FetchInv /\ ReadInv /\ SoundInv
    BY <1>b DEF FetchInv, ReadInv, SoundInv, FetchedOf, IdsListed, OsvAsked
  <2> QED BY <2>2, <2>3 DEF OsvInv
<1>7. OsvLeft /\ KevInv /\ SearchedKev /\ SearchedPackage
  BY <1>1, <1>2 DEF OsvLeft, KevInv, SearchedKev, SearchedPackage
<1>8. StoredInv
  BY <1>b DEF StoredInv
<1>9. CallInv
  <2> SUFFICES ASSUME task.kind = "advisory"
               PROVE  /\ wanted \in Seq({"osv", "github", "nvd"})
                      /\ \A i \in DOMAIN wanted : wanted[i] = "nvd" => task.id \in Cves
                      /\ \E i \in DOMAIN wanted : wanted[i] = Owner(task.id)
    BY <1>1, <1>2, <1>b DEF CallInv
  <2>1. wanted = Calls(task.id)
    BY <1>1
  <2>2. CASE task.id \in Cves
    <3>1. task.id \notin Ghsa
      BY <2>2, AdvisorySourcesAssumption
    <3>2. wanted = <<"osv", "github", "nvd">> /\ Owner(task.id) = "nvd"
      <4>1. Owner(task.id) = "nvd"
        BY <2>2, <3>1 DEF Owner
      <4>2. Calls(task.id) = <<"osv", "github", "nvd">>
        <5>1. Calls(task.id) = <<"osv">> \o <<"github">> \o <<"nvd">>
          BY <2>2, <3>1 DEF Calls
        <5>2. <<"osv">> \o <<"github">> \o <<"nvd">> = <<"osv", "github", "nvd">>
          <6> DEFINE T == {"osv", "github", "nvd"}
          <6>1. "osv" \in T /\ "github" \in T /\ "nvd" \in T
            OBVIOUS
          <6> HIDE DEF T
          <6> QED BY <6>1, JoinedIs
        <5> QED BY <5>1, <5>2
      <4> QED BY <2>1, <4>1, <4>2
    <3> QED BY <2>2, <3>2
  <2>3. CASE task.id \in Ghsa
    <3>1. task.id \notin Cves
      BY <2>3, AdvisorySourcesAssumption
    <3>2. wanted = <<"osv", "github">> /\ Owner(task.id) = "github"
      <4>1. Owner(task.id) = "github"
        BY <2>3, <3>1 DEF Owner
      <4>2. Calls(task.id) = <<"osv", "github">>
        <5>1. Calls(task.id) = <<"osv">> \o <<"github">> \o <<>>
          BY <2>3, <3>1 DEF Calls
        <5>2. <<"osv">> \o <<"github">> \o <<>> = <<"osv", "github">>
          <6> DEFINE T == {"osv", "github", "nvd"}
          <6>1. "osv" \in T /\ "github" \in T /\ "nvd" \in T
            OBVIOUS
          <6> HIDE DEF T
          <6> QED BY <6>1, JoinedIs
        <5> QED BY <5>1, <5>2
      <4> QED BY <2>1, <4>1, <4>2
    <3> QED BY <3>2
  <2>4. CASE task.id \notin Ghsa \cup Cves
    <3>1. wanted = <<"osv">> /\ Owner(task.id) = "osv"
      <4>1. Owner(task.id) = "osv"
        BY <2>4 DEF Owner
      <4>2. Calls(task.id) = <<"osv">>
        <5>1. Calls(task.id) = <<"osv">> \o <<>> \o <<>>
          BY <2>4 DEF Calls
        <5>2. <<"osv">> \o <<>> \o <<>> = <<"osv">>
          OBVIOUS
        <5> QED BY <5>1, <5>2
      <4> QED BY <2>1, <4>1, <4>2
    <3> QED BY <3>1
  <2> QED BY <2>2, <2>3, <2>4
<1> QED BY <1>4, <1>5, <1>6, <1>7, <1>8, <1>9 DEF FactsInv

(* As long as OSV is asked, no other source has been.                       *)
LEMMA OsvPhaseKeeps ==
    ASSUME FactsInv, phase = "osv", UNCHANGED taskVars,
           UNCHANGED <<kev, batches, prefetched, sticky, unreadable, lookups>>,
           ClientInv', OsvInv', RecordsInv', earned => earned'
    PROVE  FactsInv'
<1>1. TaskInv'
  BY DEF FactsInv, TaskInv, taskVars
<1>2. StoredInv'
  BY DEF FactsInv, StoredInv
<1>3. OsvLeft' /\ KevInv'
  BY DEF OsvLeft, KevInv, taskVars
<1>4. verdict = "none" /\ task.kind \notin {"kev", "advisory"}
  BY AuditKind DEF FactsInv, TaskInv
<1>5. SearchedKev' /\ CallInv' /\ SearchedPackage'
  BY <1>4 DEF SearchedKev, CallInv, SearchedPackage, taskVars
<1> QED BY <1>1, <1>2, <1>3, <1>5 DEF FactsInv

LEMMA OsvDoneKeeps == ASSUME FactsInv, OsvDone PROVE FactsInv'
<1> USE DEF FactsInv
<1>1. /\ phase = "osv" /\ active = <<>> /\ todo = {} /\ osv # "not_applicable"
      /\ phase' = IF task = Audit THEN "native" ELSE "enrich"
      /\ UNCHANGED <<task, packages, verdict, httpVars, found, osv, kev, prefetched, sticky,
                     lookups>>
  BY DEF OsvDone
<1>2. \/ task = Audit /\ task.kind = "audit"
      \/ task # Audit /\ task.kind = "package"
  BY <1>1, AuditKind DEF TaskInv
<1>3. TaskInv'
  BY <1>1, <1>2 DEF TaskInv
<1>4. ClientInv' /\ RecordsInv' /\ StoredInv'
  BY <1>1 DEF ClientInv, RecordsInv, StoredInv, httpVars
<1>5. OsvInv' /\ KevInv' /\ SearchedKev' /\ CallInv'
  BY <1>1, <1>2 DEF OsvInv, KevInv, SearchedKev, CallInv
<1>6. OsvLeft'
  <2>1. /\ osv \in States /\ (osv = "ok" => listed = Pairs /\ FetchedOf("osv") = IdsListed)
        /\ (~earned /\ ~Beyond => osv = "ok")
    BY <1>1, OsvEnds
  <2>2. UNCHANGED <<Pairs, Beyond, FetchedOf("osv"), earned>>
    BY <1>1 DEF Pairs, Beyond, FetchedOf, httpVars
  <2>3. osv = "ok" => {l[1] : l \in Pairs} \subseteq FetchedOf("osv")
    BY <2>1 DEF IdsListed
  <2>4. {l[1] : l \in Pairs}' = {l[1] : l \in Pairs}
    BY <2>2
  <2> QED BY <1>1, <2>1, <2>2, <2>3, <2>4 DEF OsvLeft
<1>7. SearchedPackage'
  BY <1>1 DEF SearchedPackage, TaskInv
<1> QED BY <1>3, <1>4, <1>5, <1>6, <1>7

(* Steps that ask nothing, between phases. *)
LEMMA QuietKeeps ==
    ASSUME FactsInv, UNCHANGED clientVars, UNCHANGED <<task, packages, verdict>>,
           phase = "native", phase' \in {"native", "kev"}
    PROVE  FactsInv'
<1> USE DEF FactsInv
<1>1. task = Audit /\ task.kind = "audit" /\ verdict = "none"
  BY AuditKind DEF TaskInv
<1>2. TaskInv'
  BY <1>1 DEF TaskInv
<1>3. ClientInv' /\ RecordsInv' /\ StoredInv'
  BY DEF ClientInv, RecordsInv, StoredInv, clientVars, httpVars, sourceVars
<1>4. OsvInv' /\ KevInv' /\ SearchedKev' /\ CallInv' /\ SearchedPackage'
  BY <1>1 DEF OsvInv, KevInv, SearchedKev, CallInv, SearchedPackage
<1>5. OsvLeft'
  BY OsvLeftKept DEF clientVars, httpVars, sourceVars, FetchedOf
<1> QED BY <1>2, <1>3, <1>4, <1>5

LEMMA KevReadFacts ==
    ASSUME ClientInv, KevRead
    PROVE  /\ ClientInv' /\ (earned => earned')
           /\ (~earned' => kev' = [state |-> "ok", ids |-> KevHolds])
           /\ (kev'.state = "ok" => kev'.ids = KevHolds)
           /\ UNCHANGED <<active, page, listed, partial, todo, found, osv, prefetched, sticky,
                          lookups>>
<1>1. CASE Settle("honest") /\ kev' = [state |-> "ok", ids |-> KevHolds]
  <2>1. ClientInv' /\ (earned => earned')
    BY <1>1, SettleEarns
  <2> QED BY <1>1, <2>1 DEF KevRead
<1>2. CASE \E part \in SUBSET KevHolds :
              Settle("damaged") /\ kev' = [state |-> "partial", ids |-> part]
  <2>1. ClientInv' /\ (earned => earned') /\ earned'
    BY <1>2, SettleEarns
  <2> QED BY <1>2, <2>1 DEF KevRead
<1>3. CASE \E f \in Failures : Settle(f) /\ kev' = [state |-> "unavailable", ids |-> {}]
  <2>1. PICK f \in Failures : Settle(f)
    BY <1>3
  <2>2. f # "honest"
    BY DEF Failures
  <2>3. ClientInv' /\ (earned => earned') /\ earned'
    BY <2>1, <2>2, SettleEarns
  <2> QED BY <1>3, <2>3 DEF KevRead
<1> QED BY <1>1, <1>2, <1>3 DEF KevRead

LEMMA AuditKevKeeps == ASSUME FactsInv, AuditKev PROVE FactsInv'
<1> USE DEF FactsInv
<1>1. /\ phase = "kev" /\ task = Audit /\ task.kind = "audit" /\ verdict = "none"
      /\ phase' = "prefetch" /\ UNCHANGED <<task, packages, verdict>>
  BY AuditKind DEF AuditKev, TaskInv
<1>2. /\ ClientInv' /\ (earned => earned')
      /\ (~earned' => kev' = [state |-> "ok", ids |-> KevHolds])
      /\ UNCHANGED <<found, osv, prefetched, sticky, lookups>>
  BY KevReadFacts DEF AuditKev
<1>3. TaskInv'
  BY <1>1 DEF TaskInv
<1>4. RecordsInv' /\ StoredInv'
  BY <1>2 DEF RecordsInv, StoredInv
<1>5. OsvInv' /\ KevInv' /\ SearchedKev' /\ CallInv' /\ SearchedPackage'
  BY <1>1, <1>2 DEF OsvInv, KevInv, SearchedKev, CallInv, SearchedPackage
<1>6. OsvLeft'
  <2>1. FetchedOf("osv")' = FetchedOf("osv")
    BY <1>2 DEF FetchedOf
  <2> QED BY <1>1, <1>2, <2>1, OsvLeftKept
<1> QED BY <1>2, <1>3, <1>4, <1>5, <1>6

LEMMA SearchKevKeeps == ASSUME FactsInv, SearchKev PROVE FactsInv'
<1> USE DEF FactsInv
<1>1. /\ phase = "kev" /\ task.kind = "kev" /\ phase' = "done" /\ verdict' = Verdict(kev'.state)
      /\ member' = (Completes(kev'.state) /\ task.id \in kev'.ids)
      /\ UNCHANGED <<task, packages>>
  BY DEF SearchKev
<1>2. /\ ClientInv' /\ (earned => earned')
      /\ (~earned' => kev' = [state |-> "ok", ids |-> KevHolds])
      /\ (kev'.state = "ok" => kev'.ids = KevHolds)
      /\ UNCHANGED <<found, prefetched, sticky, lookups>>
  BY KevReadFacts DEF SearchKev
<1>3. task # Audit
  BY <1>1, AuditKind
<1>4. TaskInv'
  BY <1>1, <1>3 DEF TaskInv
<1>5. RecordsInv' /\ StoredInv'
  BY <1>2 DEF RecordsInv, StoredInv
<1>6. OsvInv' /\ OsvLeft' /\ KevInv' /\ CallInv' /\ SearchedPackage'
  BY <1>1, <1>3 DEF OsvInv, OsvLeft, KevInv, CallInv, SearchedPackage
<1>7. SearchedKev'
  <2>1. verdict' = "complete" <=> kev'.state = "ok"
    BY <1>1 DEF Verdict, Completes
  <2>2. kev'.state = "ok" => (member' <=> task.id \in KevHolds)
    BY <1>1, <1>2 DEF Completes
  <2>3. ~earned' => kev'.state = "ok"
    BY <1>2
  <2> QED BY <1>1, <2>1, <2>2, <2>3 DEF SearchedKev
<1> QED BY <1>2, <1>4, <1>5, <1>6, <1>7

(* The phases in which records are supplemented. *)
LEMMA EnrichPhaseKeeps ==
    ASSUME FactsInv, phase = "prefetch" \/ phase = "enrich", phase' = "enrich",
           UNCHANGED <<task, packages, verdict, osv, kev>>, earned => earned',
           ClientInv', RecordsInv', StoredInv', FetchedOf("osv") \subseteq FetchedOf("osv")'
    PROVE  FactsInv'
<1> USE DEF FactsInv
<1>1. \/ task = Audit /\ task.kind = "audit"
      \/ task.kind = "package" /\ task # Audit /\ phase = "enrich"
  BY AuditKind DEF TaskInv
<1>2. verdict = "none"
  BY DEF TaskInv
<1>3. TaskInv'
  BY <1>1, <1>2 DEF TaskInv
<1>4. OsvLeft'
  BY OsvLeftKept
<1>5. KevInv'
  BY DEF KevInv
<1>6. OsvInv' /\ SearchedKev' /\ CallInv' /\ SearchedPackage'
  BY <1>1, <1>2 DEF OsvInv, SearchedKev, CallInv, SearchedPackage
<1> QED BY <1>3, <1>4, <1>5, <1>6

LEMMA AskBatchesKeeps == ASSUME FactsInv, AskBatches PROVE FactsInv'
<1>1. /\ phase = "prefetch" /\ phase' = "enrich"
      /\ UNCHANGED <<task, packages, verdict, httpVars, found, osv, kev, prefetched, sticky,
                     lookups>>
  BY DEF AskBatches
<1>2. ClientInv' /\ RecordsInv' /\ StoredInv' /\ (earned => earned')
  BY <1>1 DEF FactsInv, ClientInv, RecordsInv, StoredInv, httpVars
<1>3. FetchedOf("osv")' = FetchedOf("osv")
  BY <1>1 DEF FetchedOf
<1> QED BY <1>1, <1>2, <1>3, EnrichPhaseKeeps

LEMMA PrefetchStepKeeps == ASSUME FactsInv, PrefetchStep PROVE FactsInv'
<1> USE DEF FactsInv
<1>1. /\ phase = "enrich" /\ phase' = "enrich"
      /\ UNCHANGED <<task, packages, verdict, found, osv, kev, lookups>>
  BY DEF PrefetchStep, BatchRead, BatchFailed, taskVars
<1>2. FetchedOf("osv")' = FetchedOf("osv") /\ RecordsInv'
  BY <1>1 DEF FetchedOf, RecordsInv
<1>3. CASE BatchRead
  <2>1. PICK entry \in [Head(batches) \cap NvdHolds -> {"whole", "dented", "torn"}] :
           /\ Settle(IF \A c \in DOMAIN entry : entry[c] = "whole" THEN "honest" ELSE "damaged")
           /\ prefetched' = [c \in Cves |->
                               IF c \notin Head(batches) THEN prefetched[c]
                               ELSE IF c \in DOMAIN entry \ {k \in DOMAIN entry : entry[k] = "torn"}
                                    THEN entry[c] ELSE "empty"]
    BY <1>3 DEF BatchRead
  <2> DEFINE how == IF \A c \in DOMAIN entry : entry[c] = "whole" THEN "honest" ELSE "damaged"
  <2>2. ClientInv' /\ (earned => earned') /\ (~earned' => how = "honest")
    <3>1. Settle(how)
      BY <2>1
    <3> HIDE DEF how
    <3> QED BY <3>1, SettleEarns
  <2>3. ~earned' => \A c \in DOMAIN entry : entry[c] = "whole"
    BY <2>2
  <2>4. ~earned' => \A c \in Cves : prefetched'[c] \in {"no", "empty", "whole"}
    BY <2>1, <2>2, <2>3 DEF StoredInv
  <2>5. sticky' = sticky /\ DOMAIN prefetched' = Cves
    BY <1>3, <2>1 DEF BatchRead
  <2>6. StoredInv'
    BY <1>1, <2>2, <2>4, <2>5 DEF StoredInv
  <2> QED BY <1>1, <1>2, <2>2, <2>6, EnrichPhaseKeeps
<1>4. CASE BatchFailed
  <2>1. PICK how \in Failures \cup {"damaged"} : Settle(how)
    BY <1>4 DEF BatchFailed
  <2>2. how # "honest"
    BY DEF Failures
  <2>3. ClientInv' /\ (earned => earned') /\ earned'
    BY <2>1, <2>2, SettleEarns
  <2>4. StoredInv'
    BY <1>4, <2>3 DEF StoredInv, BatchFailed
  <2> QED BY <1>1, <1>2, <2>3, <2>4, EnrichPhaseKeeps
<1> QED BY <1>3, <1>4 DEF PrefetchStep

LEMMA EnrichStepKeeps == ASSUME FactsInv, EnrichStep PROVE FactsInv'
<1>1. /\ phase = "enrich" /\ phase' = "enrich" /\ UNCHANGED <<task, packages, verdict>>
  BY DEF EnrichStep
<1>2. PICK r \in found : Enrich(r, Head(wanted)[2])
  BY DEF EnrichStep
<1>3. /\ ClientInv' /\ RecordsInv' /\ StoredInv' /\ (earned => earned')
      /\ UNCHANGED <<osv, kev>> /\ FetchedOf("osv") \subseteq FetchedOf("osv")'
  BY <1>2, EnrichFacts DEF FactsInv
<1> QED BY <1>1, <1>3, EnrichPhaseKeeps

LEMMA FinishKeeps == ASSUME FactsInv, Finish PROVE FactsInv'
<1> USE DEF FactsInv
<1>1. /\ phase = "enrich" /\ phase' = "done" /\ UNCHANGED <<task, packages, clientVars>>
      /\ verdict' = IF task = Audit THEN verdict ELSE Verdict(osv)
  BY DEF Finish
<1>2. \/ task = Audit /\ task.kind = "audit" /\ verdict = "none"
      \/ task.kind = "package" /\ task # Audit
  BY <1>1, AuditKind DEF TaskInv
<1>3. TaskInv'
  BY <1>1, <1>2 DEF TaskInv
<1>4. ClientInv' /\ RecordsInv' /\ StoredInv'
  BY <1>1 DEF ClientInv, RecordsInv, StoredInv, clientVars, httpVars, sourceVars
<1>5. OsvInv' /\ SearchedKev' /\ CallInv'
  BY <1>1, <1>2 DEF OsvInv, SearchedKev, CallInv
<1>6. KevInv'
  BY <1>1 DEF KevInv, clientVars, httpVars, sourceVars
<1>7. OsvLeft'
  BY <1>1, OsvLeftKept DEF clientVars, httpVars, sourceVars, FetchedOf
<1>8. SearchedPackage'
  <2>1. verdict' = "complete" => osv = "ok" \/ task = Audit
    BY <1>1, <1>2 DEF Verdict, Completes
  <2>2. osv' = osv
    BY <1>1 DEF clientVars, sourceVars
  <2> QED BY <1>1, <1>2, <2>1, <2>2 DEF SearchedPackage
<1> QED BY <1>3, <1>4, <1>5, <1>6, <1>7, <1>8

(* The phases of a search by identifier. *)
LEMMA SearchPhaseKeeps ==
    ASSUME FactsInv, task.kind = "advisory", UNCHANGED <<task, packages>>,
           phase' \in {"calls", "follow", "done"}, verdict' # "none" => phase' = "done",
           ClientInv', RecordsInv', StoredInv', CallInv'
    PROVE  FactsInv'
<1> USE DEF FactsInv
<1>1. task # Audit
  BY AuditKind
<1>2. TaskInv'
  BY <1>1 DEF TaskInv
<1>3. OsvInv' /\ OsvLeft' /\ KevInv' /\ SearchedKev' /\ SearchedPackage'
  BY <1>1 DEF OsvInv, OsvLeft, KevInv, SearchedKev, SearchedPackage
<1> QED BY <1>2, <1>3

(* Who calls or follows is searching for an identifier. *)
LEMMA SearchedId ==
    ASSUME TaskInv, phase \in {"calls", "follow"}
    PROVE  /\ task.kind = "advisory" /\ verdict = "none"
           /\ task.id \in Ids /\ task.id \in Nat
<1>1. task.kind = "advisory" /\ verdict = "none" /\ task \in Searches \cup {Audit}
  BY DEF TaskInv
<1>2. task \in Searches
  BY <1>1, AuditKind
<1> QED BY <1>1, <1>2, AuditInputsAssumption, AdvisorySourcesAssumption

(* What sources hold of what was asked for stays found. *)
HeldIsFound ==
    \A l \in lookups : l.state = "ok" /\ l.id \in Holds(l.source) =>
        \E r \in found : r.source = l.source /\ l.id \in r.ids

LEMMA HeldKeeps ==
    ASSUME HeldIsFound, found \subseteq found',
           \A l \in lookups' \ lookups : l.state = "ok" /\ l.id \in Holds(l.source) =>
               \E k \in found' : k.source = l.source /\ l.id \in k.ids
    PROVE  HeldIsFound'
<1>1. \A l \in lookups' : l.state = "ok" /\ l.id \in Holds(l.source) =>
         \E r \in found' : r.source = l.source /\ l.id \in r.ids
  BY DEF HeldIsFound
<1>2. \A x : Holds(x)' = Holds(x)
  BY DEF Holds
<1> QED BY <1>1, <1>2 DEF HeldIsFound

LEMMA CallKeeps == ASSUME FactsInv, Call PROVE FactsInv'
<1> DEFINE source == Head(wanted)
           S == {"osv", "github", "nvd"}
<1> USE DEF FactsInv
<1>1. /\ phase = "calls" /\ phase' = "calls" /\ wanted # <<>> /\ wanted' = Tail(wanted)
      /\ UNCHANGED <<task, packages, services, verdict>>
  BY DEF Call
<1>2. task.kind = "advisory" /\ verdict = "none" /\ task.id \in Nat
  BY <1>1, SearchedId
<1>3. /\ ~sticky /\ (\A c \in Cves : prefetched[c] = "no") /\ HeldIsFound
      /\ wanted \in Seq(S) /\ \A i \in DOMAIN wanted : wanted[i] = "nvd" => task.id \in Cves
      /\ Configured(Owner(task.id)) =>
              \/ \E i \in DOMAIN wanted : wanted[i] = Owner(task.id)
              \/ \E l \in lookups : OwnerTold(l)
  BY <1>1, <1>2 DEF CallInv, HeldIsFound
<1> HIDE DEF S
<1>4. /\ wanted' \in Seq(S) /\ source \in S /\ source = wanted[1] /\ 1 \in DOMAIN wanted
      /\ \A i \in DOMAIN wanted' : i + 1 \in DOMAIN wanted /\ wanted'[i] = wanted[i + 1]
      /\ \A i \in DOMAIN wanted : i # 1 => i - 1 \in DOMAIN wanted' /\ wanted'[i - 1] = wanted[i]
  <2>1. /\ Tail(wanted) \in Seq(S) /\ Len(Tail(wanted)) = Len(wanted) - 1
        /\ \A i \in 1..Len(Tail(wanted)) : Tail(wanted)[i] = wanted[i + 1]
    BY <1>1, <1>3, HeadTailProperties
  <2>2. Len(wanted) \in Nat /\ Len(wanted) # 0 /\ DOMAIN wanted = 1..Len(wanted)
        /\ DOMAIN wanted' = 1..Len(wanted) - 1
    BY <1>1, <1>3, <2>1
  <2>3. source \in S /\ source = wanted[1]
    BY <1>1, <1>3
  <2> HIDE DEF source
  <2>4. \A i \in DOMAIN wanted' : i + 1 \in DOMAIN wanted /\ wanted'[i] = wanted[i + 1]
    BY <1>1, <2>1, <2>2
  <2>5. ASSUME NEW i \in DOMAIN wanted, i # 1
        PROVE  i - 1 \in DOMAIN wanted' /\ wanted'[i - 1] = wanted[i]
    <3>1. i \in Nat /\ i - 1 \in DOMAIN wanted' /\ (i - 1) + 1 = i
      BY <2>2, <2>5
    <3> QED BY <2>4, <3>1
  <2>6. 1 \in DOMAIN wanted
    BY <2>2
  <2> QED BY <1>1, <2>1, <2>3, <2>4, <2>5, <2>6
<1> HIDE DEF source
<1>5. source \in {"osv", "github", "nvd"} /\ (source = "nvd" => task.id \in Cves)
  BY <1>3, <1>4 DEF S
<1>6. /\ ClientInv' /\ RecordsInv' /\ StoredInv' /\ HeldIsFound'
      /\ UNCHANGED <<prefetched, sticky>> /\ lookups \subseteq lookups'
      /\ Configured(source) => \E l \in lookups' : l.source = source /\ l.id = task.id
  <2>1. CASE Configured(source)
    <3>1. Lookup(source, task.id)
      BY <2>1 DEF Call, source
    <3>2. /\ ClientInv' /\ RecordsInv' /\ StoredInv'
          /\ UNCHANGED <<prefetched, sticky>>
          /\ lookups \subseteq lookups' /\ found \subseteq found'
          /\ \E l \in lookups' : l.source = source /\ l.id = task.id
          /\ \A l \in lookups' \ lookups :
                l.state = "ok" /\ l.id \in Holds(l.source) =>
                    \E k \in found' : k.source = l.source /\ l.id \in k.ids
      BY <1>2, <1>3, <1>5, <3>1, LookupFacts
    <3>3. HeldIsFound'
      BY <1>3, <3>2, HeldKeeps
    <3> QED BY <3>2, <3>3
  <2>2. CASE ~Configured(source)
    <3>1. UNCHANGED clientVars
      BY <2>2 DEF Call, source
    <3>2. UNCHANGED <<found, lookups, prefetched, sticky, attempt, faults, earned>>
      BY <3>1 DEF clientVars, httpVars, sourceVars
    <3>3. ClientInv' /\ RecordsInv' /\ StoredInv' /\ HeldIsFound'
      BY <1>3, <3>2 DEF ClientInv, RecordsInv, StoredInv, HeldIsFound, Holds
    <3> QED BY <2>2, <3>2, <3>3
  <2> QED BY <2>1, <2>2
<1>7. CallInv'
  <2>1. \A i \in DOMAIN wanted' : wanted'[i] = "nvd" => task.id \in Cves
    BY <1>3, <1>4
  <2>2. wanted' \in Seq({"osv", "github", "nvd"})
    BY <1>4 DEF S
  <2>3. Configured(Owner(task.id)) => \/ \E i \in DOMAIN wanted' : wanted'[i] = Owner(task.id)
                                      \/ \E l \in lookups' : OwnerTold(l)
    <3> SUFFICES ASSUME Configured(Owner(task.id)), ~\E l \in lookups : OwnerTold(l)
                 PROVE  \/ \E i \in DOMAIN wanted' : wanted'[i] = Owner(task.id)
                        \/ \E l \in lookups' : OwnerTold(l)
      BY <1>6
    <3>1. PICK i \in DOMAIN wanted : wanted[i] = Owner(task.id)
      BY <1>3
    <3>2. CASE i = 1
      BY <1>4, <1>6, <3>1, <3>2 DEF OwnerTold
    <3>3. CASE i # 1
      BY <1>4, <3>1, <3>3
    <3> QED BY <3>2, <3>3
  <2>4. /\ Configured(Owner(task.id))' <=> Configured(Owner(task.id))
        /\ Owner(task.id)' = Owner(task.id) /\ \A l : OwnerTold(l)' <=> OwnerTold(l)
    BY <1>1 DEF Configured, Owner, OwnerTold
  <2>5. /\ ~sticky' /\ \A c \in Cves : prefetched'[c] = "no"
    BY <1>3, <1>6
  <2> HIDE DEF Configured, Owner, OwnerTold
  <2> QED BY <1>1, <1>6, <2>1, <2>2, <2>3, <2>4, <2>5 DEF CallInv, HeldIsFound
<1> QED BY <1>1, <1>2, <1>6, <1>7, SearchPhaseKeeps

LEMMA FollowKeeps == ASSUME FactsInv, Follow PROVE FactsInv'
<1> USE DEF FactsInv
<1>1. /\ phase = "calls" /\ wanted = <<>> /\ phase' = "follow"
      /\ UNCHANGED <<task, packages, services, verdict>>
      /\ UNCHANGED <<found, lookups, prefetched, sticky, attempt, faults, earned>>
  BY DEF Follow, clientVars, httpVars, sourceVars
<1>2. task.kind = "advisory" /\ verdict = "none"
  BY <1>1, SearchedId
<1>3. ClientInv' /\ RecordsInv' /\ StoredInv'
  BY <1>1 DEF ClientInv, RecordsInv, StoredInv
<1>4. DOMAIN wanted = {} /\ wanted' \in Seq({"osv", "github", "nvd"})
  <2> DEFINE T == {"osv", "github", "nvd"}
             a == IF "github" \in services \ Called THEN <<"github">> ELSE <<>>
             b == IF "nvd" \in services \ Called THEN <<"nvd">> ELSE <<>>
  <2>1. a \in Seq(T) /\ b \in Seq(T)
    <3>1. <<"github">> \in Seq(T) /\ <<"nvd">> \in Seq(T) /\ <<>> \in Seq(T)
      OBVIOUS
    <3> HIDE DEF T
    <3> QED BY <3>1
  <2>2. wanted' = a \o b
    BY DEF Follow, Secondary
  <2> HIDE DEF a, b, T
  <2>3. a \o b \in Seq(T)
    BY <2>1, ConcatProperties
  <2> QED BY <1>1, <2>2, <2>3 DEF T
<1>5. CallInv'
  BY <1>1, <1>2, <1>4 DEF CallInv, Configured, Owner, OwnerTold, Holds
<1> QED BY <1>1, <1>2, <1>3, <1>5, SearchPhaseKeeps

LEMMA FollowStepKeeps == ASSUME FactsInv, FollowStep PROVE FactsInv'
<1> DEFINE source == Head(wanted)
           ids == Followed(source)
           id == Min(ids)
<1> USE DEF FactsInv
<1>1. /\ phase = "follow" /\ phase' = "follow" /\ wanted # <<>> /\ wanted' = Tail(wanted)
      /\ UNCHANGED <<task, packages, services, verdict>>
  BY DEF FollowStep
<1>2. task.kind = "advisory" /\ verdict = "none"
  BY <1>1, SearchedId
<1>3. /\ ~sticky /\ (\A c \in Cves : prefetched[c] = "no") /\ HeldIsFound
      /\ Configured(Owner(task.id)) => \E l \in lookups : OwnerTold(l)
      /\ wanted \in Seq({"osv", "github", "nvd"})
  BY <1>1, <1>2 DEF CallInv, HeldIsFound
<1>a. source \in {"osv", "github", "nvd"} /\ wanted' \in Seq({"osv", "github", "nvd"})
  <2> DEFINE T == {"osv", "github", "nvd"}
  <2>1. wanted \in Seq(T) /\ wanted # <<>>
    BY <1>1, <1>3
  <2> HIDE DEF T
  <2>2. Head(wanted) \in T /\ Tail(wanted) \in Seq(T)
    BY <2>1, HeadTailProperties
  <2> QED BY <1>1, <2>2 DEF T
<1>4. /\ ClientInv' /\ RecordsInv' /\ StoredInv' /\ HeldIsFound'
      /\ UNCHANGED <<prefetched, sticky>> /\ lookups \subseteq lookups'
  <2>1. CASE ids = {}
    <3>1. UNCHANGED <<found, lookups, prefetched, sticky, attempt, faults, earned>>
      BY <2>1 DEF FollowStep, clientVars, httpVars, sourceVars
    <3> QED BY <1>3, <3>1 DEF ClientInv, RecordsInv, StoredInv, HeldIsFound, Holds
  <2>2. CASE ids # {}
    <3>1. Lookup(source, id)
      BY <2>2 DEF FollowStep
    <3>2. ids \subseteq Nat /\ (source = "nvd" => ids \subseteq Cves)
      BY AdvisorySourcesAssumption DEF Followed
    <3>3. id \in ids
      BY <2>2, <3>2, LeastIsMember
    <3>a. source \in {"osv", "github", "nvd"}
      BY <1>a
    <3> HIDE DEF id, ids, source
    <3>4. /\ ClientInv' /\ RecordsInv' /\ StoredInv'
          /\ UNCHANGED <<prefetched, sticky>>
          /\ lookups \subseteq lookups' /\ found \subseteq found'
      BY <3>1, <3>2, <3>3, LookupFacts
    <3>5. ASSUME NEW l \in lookups' \ lookups, l.state = "ok", l.id \in Holds(l.source)
          PROVE  \E k \in found' : k.source = l.source /\ l.id \in k.ids
      BY <1>3, <3>a, <3>1, <3>2, <3>3, <3>5, LookupFacts
    <3>6. HeldIsFound'
      BY <1>3, <3>4, <3>5, HeldKeeps
    <3> QED BY <3>4, <3>6
  <2> QED BY <2>1, <2>2
<1>5. CallInv'
  <2>1. Configured(Owner(task.id))' => \E l \in lookups' : OwnerTold(l)'
    BY <1>1, <1>3, <1>4 DEF Configured, Owner, OwnerTold
  <2>2. /\ ~sticky' /\ \A c \in Cves : prefetched'[c] = "no"
    BY <1>3, <1>4
  <2> QED BY <1>1, <1>a, <1>4, <2>1, <2>2 DEF CallInv, HeldIsFound
<1> QED BY <1>1, <1>2, <1>4, <1>5, SearchPhaseKeeps

LEMMA FollowDoneKeeps == ASSUME FactsInv, FollowDone PROVE FactsInv'
<1> USE DEF FactsInv
<1>1. /\ phase = "follow" /\ phase' = "done" /\ verdict' = Verdict(OwnerState)
      /\ UNCHANGED <<task, packages, services>>
      /\ UNCHANGED <<found, lookups, prefetched, sticky, attempt, faults, earned>>
  BY DEF FollowDone, clientVars, httpVars, sourceVars
<1>2. task.kind = "advisory" /\ verdict = "none"
  BY <1>1, SearchedId
<1>3. ClientInv' /\ RecordsInv' /\ StoredInv'
  BY <1>1 DEF ClientInv, RecordsInv, StoredInv
<1>4. /\ ~sticky /\ (\A c \in Cves : prefetched[c] = "no") /\ HeldIsFound
      /\ Configured(Owner(task.id)) => \E l \in lookups : OwnerTold(l)
  BY <1>1, <1>2 DEF CallInv, HeldIsFound
<1>5. verdict' = "complete" <=> OwnerState = "ok"
  BY <1>1 DEF Verdict, Completes
<1>6. OwnerState = "ok" => \E l \in lookups : OwnerTold(l) /\ l.state = "ok"
  <2> DEFINE said == {l.state : l \in {k \in lookups : k.source = Owner(task.id)
                                                     /\ k.id = task.id}}
  <2>1. OwnerState = IF said = {} THEN "unavailable" ELSE CHOOSE s \in said : TRUE
    BY DEF OwnerState
  <2>2. OwnerState = "ok" => "ok" \in said
    <3> HIDE DEF said
    <3> QED BY <2>1
  <2> QED BY <2>2 DEF OwnerTold
<1>7. ~earned /\ (\E l \in lookups : OwnerTold(l)) => OwnerState = "ok"
  <2> DEFINE said == {l.state : l \in {k \in lookups : k.source = Owner(task.id)
                                                     /\ k.id = task.id}}
  <2> SUFFICES ASSUME ~earned, NEW l \in lookups, OwnerTold(l) PROVE OwnerState = "ok"
    OBVIOUS
  <2>1. l.state \in said /\ \A s \in said : s = "ok"
    BY OwnerIsClear DEF OwnerTold, StoredInv
  <2>2. OwnerState = IF said = {} THEN "unavailable" ELSE CHOOSE s \in said : TRUE
    BY DEF OwnerState
  <2> HIDE DEF said
  <2> QED BY <2>1, <2>2
<1>8. CallInv'
  <2>1. /\ Configured(Owner(task.id))' <=> Configured(Owner(task.id))
        /\ Owner(task.id)' = Owner(task.id) /\ \A l : OwnerTold(l)' <=> OwnerTold(l)
        /\ \A x : Holds(x)' = Holds(x)
    BY <1>1 DEF Configured, Owner, OwnerTold, Holds
  <2> HIDE DEF Configured, Owner, OwnerTold, Holds, OwnerState
  <2> QED BY <1>1, <1>4, <1>5, <1>6, <1>7, <2>1 DEF CallInv, HeldIsFound
<1> QED BY <1>1, <1>2, <1>3, <1>8, SearchPhaseKeeps

LEMMA StillFacts ==
    ASSUME FactsInv, UNCHANGED taskVars, UNCHANGED sourceVars, ClientInv', earned' = earned
    PROVE  FactsInv'
<1> USE DEF FactsInv
<1>1. /\ UNCHANGED <<task, packages, services, phase, wanted, verdict, member>>
      /\ UNCHANGED <<active, page, listed, partial, todo, found, osv, kev, prefetched, sticky,
                     lookups, earned>>
  BY DEF taskVars, sourceVars
<1>2. TaskInv' /\ RecordsInv' /\ StoredInv' /\ KevInv' /\ SearchedKev' /\ SearchedPackage'
  BY <1>1 DEF TaskInv, RecordsInv, StoredInv, KevInv, SearchedKev, SearchedPackage
<1>3. /\ Pairs' = Pairs /\ (Beyond' <=> Beyond) /\ IdsListed' = IdsListed
      /\ FetchedOf("osv")' = FetchedOf("osv") /\ (OsvAsked' <=> OsvAsked)
      /\ \A p, k : PageIsRead(p, k)' <=> PageIsRead(p, k)
  BY <1>1 DEF Pairs, Beyond, IdsListed, FetchedOf, OsvAsked, PageIsRead
<1>4. OsvInv'
  <2> SUFFICES ASSUME phase = "osv", ActiveInv, FetchInv, ReadInv, SoundInv PROVE OsvInv'
    BY <1>1 DEF OsvInv
  <2>1. ActiveInv'
    BY <1>1 DEF ActiveInv
  <2>2. FetchInv'
    BY <1>1, <1>3 DEF FetchInv
  <2>3. ReadInv'
    BY <1>1, <1>3 DEF ReadInv
  <2>4. SoundInv'
    BY <1>1, <1>3 DEF SoundInv
  <2> QED BY <2>1, <2>2, <2>3, <2>4 DEF OsvInv
<1>5. OsvLeft'
  BY <1>1, <1>3, OsvLeftKept DEF OsvLeft
<1>6. CallInv'
  <2>1. /\ Configured(Owner(task.id))' <=> Configured(Owner(task.id))
        /\ Owner(task.id)' = Owner(task.id) /\ \A l : OwnerTold(l)' <=> OwnerTold(l)
        /\ \A x : Holds(x)' = Holds(x)
    BY <1>1 DEF Configured, Owner, OwnerTold, Holds
  <2> HIDE DEF Configured, Owner, OwnerTold, Holds
  <2> QED BY <1>1, <2>1 DEF CallInv
<1> QED BY <1>2, <1>4, <1>5, <1>6

LEMMA FactsKeep == ASSUME FactsInv, [Next]_vars PROVE FactsInv'
<1> USE DEF FactsInv
<1>1. CASE AskOsv
  <2>1. ClientInv' /\ OsvInv' /\ RecordsInv' /\ (earned => earned')
    BY <1>1, AskOsvKeeps DEF AskOsv
  <2> QED BY <1>1, <2>1, OsvPhaseKeeps DEF AskOsv
<1>2. CASE OsvStep
  <2>1. phase = "osv" /\ UNCHANGED taskVars
    BY <1>2 DEF OsvStep
  <2>2. UNCHANGED <<kev, batches, prefetched, sticky, unreadable, lookups>>
    BY <1>2 DEF OsvStep, PageRead, PageFailed, RecordFetched, QueryLost
  <2>3. ClientInv' /\ OsvInv' /\ RecordsInv' /\ (earned => earned')
    BY <1>2, <2>1, PageReadKeeps, PageFailedKeeps, RecordFetchedKeeps, QueryLostKeeps
    DEF OsvStep
  <2> QED BY <2>1, <2>2, <2>3, OsvPhaseKeeps
<1>3. CASE RunAuditor \/ NativeDone
  BY <1>3, QuietKeeps DEF RunAuditor, NativeDone
<1>4. CASE Retry
  <2>1. ClientInv' /\ earned' = earned
    BY <1>4, RepeatKeeps DEF Retry, Again
  <2> QED BY <1>4, <2>1, StillFacts DEF Retry, Again
<1>5. CASE UNCHANGED vars
  <2>1. UNCHANGED taskVars /\ UNCHANGED sourceVars /\ UNCHANGED httpVars
    BY <1>5 DEF vars, clientVars
  <2>2. ClientInv' /\ earned' = earned
    BY <2>1 DEF ClientInv, httpVars
  <2> QED BY <2>1, <2>2, StillFacts
<1>6. CASE OsvDone \/ AuditKev \/ AskBatches \/ PrefetchStep \/ EnrichStep \/ Finish
  BY <1>6, OsvDoneKeeps, AuditKevKeeps, AskBatchesKeeps, PrefetchStepKeeps, EnrichStepKeeps,
     FinishKeeps
<1>7. CASE SearchKev \/ Call \/ Follow \/ FollowStep \/ FollowDone
  BY <1>7, SearchKevKeeps, CallKeeps, FollowKeeps, FollowStepKeeps, FollowDoneKeeps
<1> QED BY <1>1, <1>2, <1>3, <1>4, <1>5, <1>6, <1>7 DEF Next, Advance, Stop

-----------------------------------------------------------------------------
(* What the answers are worth. *)

(* FactsInv ties what was read, told and concluded to what the sources hold *)
(* and to the faults that happened, in every phase of an audit or a search. *)
THEOREM FactsInvariant == Spec => []FactsInv
BY FactsStart, FactsKeep, PTL DEF Spec

(* OSV counts as answered only when every page of every package was read    *)
(* and every record on them is there; nothing is tied to a package it was   *)
(* not listed for (OsvClient.query).                                        *)
THEOREM WholeAnswer == Spec => []OsvAnswerIsWhole
<1>1. FactsInv => OsvAnswerIsWhole
  <2> SUFFICES ASSUME FactsInv, OsvIsOver
               PROVE  /\ listed \subseteq Pairs
                      /\ osv = "ok" => /\ listed = Pairs
                                       /\ FetchedOf("osv") = {l[1] : l \in listed}
    BY DEF OsvAnswerIsWhole
  <2> QED BY OsvEnds DEF FactsInv, OsvIsOver, IdsListed
<1> QED BY FactsInvariant, <1>1, PTL

(* A search that completes with nothing means that there is nothing         *)
(* (search_package, search_advisory and search_kev).                        *)
THEOREM AbsenceProved == Spec => []AbsenceIsReal
<1>1. FactsInv => AbsenceIsReal
  <2> SUFFICES ASSUME FactsInv, verdict = "complete" PROVE AbsenceIsReal
    BY DEF AbsenceIsReal
  <2> USE DEF FactsInv
  <2>1. phase = "done" /\ task # Audit
    BY DEF TaskInv
  <2>2. CASE task.kind = "advisory"
    <3>1. PICK l \in lookups : OwnerTold(l) /\ l.state = "ok"
      BY <2>1, <2>2 DEF CallInv
    <3>2. task.id \in Holds(Owner(task.id)) =>
             \E r \in found : r.source = Owner(task.id) /\ task.id \in r.ids
      BY <2>2, <3>1 DEF CallInv, OwnerTold
    <3> QED BY <2>2, <3>2 DEF AbsenceIsReal
  <2>3. CASE task.kind = "kev"
    BY <2>1, <2>3 DEF SearchedKev, AbsenceIsReal
  <2>4. CASE task.kind = "package"
    BY <2>1, <2>4 DEF SearchedPackage, OsvLeft, AbsenceIsReal
  <2> QED BY <2>1, <2>2, <2>3, <2>4 DEF TaskInv
<1> QED BY FactsInvariant, <1>1, PTL

(* Where no request failed for good and no answer was damaged, every source *)
(* is answered, but for a CVE that several advisories of GitHub name, and   *)
(* every search completes.                                                  *)
THEOREM FailureEarned == Spec => []FailureIsEarned
<1>1. FactsInv => FailureIsEarned
  <2> SUFFICES ASSUME FactsInv, phase = "done", ~earned PROVE FailureIsEarned
    BY DEF FailureIsEarned
  <2> USE DEF FactsInv
  <2>1. \A l \in lookups : l.state = "ok" \/ Ambiguous(l.source, l.id)
    BY DEF StoredInv
  <2>2. task.kind \in {"audit", "package"} =>
              \/ osv = "ok"
              \/ \E p \in packages : Len(Pages[p]) > MaxPages
              \/ \E l \in Pairs : l[1] \notin OsvHolds
    BY DEF OsvLeft, Beyond
  <2>3. task.kind = "kev" => verdict = "complete"
    BY DEF SearchedKev
  <2>4. task.kind = "advisory" => verdict = "complete" \/ ~Configured(Owner(task.id))
    BY DEF CallInv
  <2>5. task = Audit => kev = [state |-> "ok", ids |-> KevHolds]
    BY DEF KevInv
  <2> QED BY <2>1, <2>2, <2>3, <2>4, <2>5 DEF FailureIsEarned
<1> QED BY FactsInvariant, <1>1, PTL

-----------------------------------------------------------------------------
(* The types of what an audit or a search was told.  While OSV is asked,    *)
(* FactsInv has them; the rest is changed by few steps.                     *)

(* No more goes wrong than the bound allows. *)
LEMMA SettleCounts ==
    ASSUME faults \in 0..MaxFaults, NEW how, Settle(how) PROVE faults' \in 0..MaxFaults
<1>1. \/ how = "honest" /\ Answered(FALSE)
      \/ how = "damaged" /\ Answered(TRUE)
      \/ Failed(how)
  BY DEF Settle
<1>2. faults' = faults \/ (faults < MaxFaults /\ faults' = faults + 1)
  BY <1>1 DEF Answered, Failed
<1> QED
  BY <1>2, HttpClientAssumption

LEMMA TookCounts ==
    ASSUME faults \in 0..MaxFaults, NEW how, Took(how) PROVE faults' \in 0..MaxFaults
  BY SettleCounts DEF Took, httpVars

LEMMA LookupCounts ==
    ASSUME faults \in 0..MaxFaults, NEW source, NEW id, Lookup(source, id)
    PROVE  faults' \in 0..MaxFaults
  BY TookCounts DEF Lookup

LEMMA EnrichCounts ==
    ASSUME faults \in 0..MaxFaults, NEW source, NEW record, Enrich(record, source)
    PROVE  faults' \in 0..MaxFaults
  BY TookCounts DEF Enrich, httpVars

LEMMA FaultsCounted ==
    ASSUME faults \in 0..MaxFaults, [Next]_vars PROVE faults' \in 0..MaxFaults
<1>1. CASE UNCHANGED httpVars
  BY <1>1 DEF httpVars
<1>2. CASE OsvStep
  <2>1. \E how : Settle(how)
    BY <1>2 DEF OsvStep, PageRead, PageFailed, RecordFetched, QueryLost
  <2> QED
    BY <2>1, SettleCounts
<1>3. CASE AuditKev \/ SearchKev
  <2>1. \E how : Settle(how)
    BY <1>3 DEF AuditKev, SearchKev, KevRead
  <2> QED
    BY <2>1, SettleCounts
<1>4. CASE PrefetchStep
  <2>1. \E how : Settle(how)
    BY <1>4 DEF PrefetchStep, BatchRead, BatchFailed
  <2> QED
    BY <2>1, SettleCounts
<1>5. CASE EnrichStep
  BY <1>5, EnrichCounts DEF EnrichStep
<1>6. CASE Call \/ FollowStep
  BY <1>1, <1>6, LookupCounts DEF Call, FollowStep, clientVars
<1>7. CASE Retry
  BY <1>7 DEF Retry, Again, Repeat
<1>8. CASE AskOsv \/ OsvDone \/ RunAuditor \/ NativeDone \/ AskBatches \/ Finish \/ Follow
           \/ FollowDone \/ Stop \/ UNCHANGED vars
  BY <1>1, <1>8 DEF AskOsv, OsvDone, RunAuditor, NativeDone, AskBatches, Finish, Follow,
                    FollowDone, Stop, clientVars, vars
<1> QED
  BY <1>2, <1>3, <1>4, <1>5, <1>6, <1>7, <1>8 DEF Next, Advance

(* Which steps change what was told. *)
LEMMA OsvIsLeft ==
    ASSUME [Next]_vars
    PROVE  \/ OsvDone
           \/ phase = "osv" /\ phase' = "osv"
           \/ phase' # "osv" /\ UNCHANGED <<osv, partial, listed, todo>>
<1>1. CASE AskOsv \/ OsvStep
  BY <1>1 DEF AskOsv, OsvStep, taskVars
<1>2. CASE RunAuditor \/ NativeDone \/ Finish \/ Follow \/ FollowDone
  BY <1>2 DEF RunAuditor, NativeDone, Finish, Follow, FollowDone, clientVars, sourceVars
<1>3. CASE AuditKev \/ SearchKev \/ AskBatches
  BY <1>3 DEF AuditKev, SearchKev, AskBatches, KevRead
<1>4. CASE PrefetchStep \/ EnrichStep
  BY <1>4 DEF PrefetchStep, EnrichStep, BatchRead, BatchFailed, Enrich, taskVars
<1>5. CASE Call \/ FollowStep
  BY <1>5 DEF Call, FollowStep, Lookup, clientVars, sourceVars
<1>6. CASE Retry \/ Stop \/ UNCHANGED vars
  BY <1>6 DEF Retry, Again, Stop, vars, taskVars, clientVars, sourceVars
<1> QED
  BY <1>1, <1>2, <1>3, <1>4, <1>5, <1>6 DEF Next, Advance

LEMMA StoredIsLeft ==
    ASSUME [Next]_vars
    PROVE  /\ kev' = kev \/ KevRead
           /\ BatchRead \/ prefetched' = prefetched
           /\ BatchFailed \/ sticky' = sticky
<1>1. CASE AskOsv \/ OsvStep \/ OsvDone
  BY <1>1 DEF AskOsv, OsvStep, OsvDone, PageRead, PageFailed, RecordFetched, QueryLost
<1>2. CASE RunAuditor \/ NativeDone \/ Finish \/ Follow \/ FollowDone
  BY <1>2 DEF RunAuditor, NativeDone, Finish, Follow, FollowDone, clientVars, sourceVars
<1>3. CASE AuditKev \/ SearchKev \/ AskBatches
  BY <1>3 DEF AuditKev, SearchKev, AskBatches, KevRead
<1>4. CASE PrefetchStep \/ EnrichStep
  BY <1>4 DEF PrefetchStep, EnrichStep, BatchRead, BatchFailed, Enrich
<1>5. CASE Call \/ FollowStep
  BY <1>5 DEF Call, FollowStep, Lookup, clientVars, sourceVars
<1>6. CASE Retry \/ Stop \/ UNCHANGED vars
  BY <1>6 DEF Retry, Again, Stop, vars, clientVars, sourceVars
<1> QED
  BY <1>1, <1>2, <1>3, <1>4, <1>5, <1>6 DEF Next, Advance

LEMMA TaskIsLeft ==
    ASSUME [Next]_vars
    PROVE  /\ native' = native \/ RunAuditor
           /\ verdict' \in {verdict, "complete", "unavailable"}
<1> USE DEF Verdict
<1>1. CASE AskOsv \/ OsvStep \/ OsvDone
  BY <1>1 DEF AskOsv, OsvStep, OsvDone, taskVars
<1>2. CASE RunAuditor \/ NativeDone \/ Finish \/ Follow \/ FollowDone
  BY <1>2 DEF RunAuditor, NativeDone, Finish, Follow, FollowDone
<1>3. CASE AuditKev \/ SearchKev \/ AskBatches
  BY <1>3 DEF AuditKev, SearchKev, AskBatches
<1>4. CASE PrefetchStep \/ EnrichStep
  BY <1>4 DEF PrefetchStep, EnrichStep, taskVars
<1>5. CASE Call \/ FollowStep
  BY <1>5 DEF Call, FollowStep
<1>6. CASE Retry \/ Stop \/ UNCHANGED vars
  BY <1>6 DEF Retry, Stop, vars, taskVars
<1> QED
  BY <1>1, <1>2, <1>3, <1>4, <1>5, <1>6 DEF Next, Advance

ToldTypes ==
    /\ faults \in 0..MaxFaults /\ partial \in BOOLEAN /\ sticky \in BOOLEAN
    /\ osv \in States /\ kev.state \in States /\ kev.ids \subseteq Cves
    /\ listed \subseteq Ids \X DOMAIN Pages /\ todo \subseteq Ids
    /\ prefetched \in [Cves -> {"no", "empty", "dented", "whole"}]
    /\ native \in [Auditors -> States]
    /\ verdict \in {"none", "complete", "unavailable"}

LEMMA ToldTypesStart == Init => ToldTypes
<1> SUFFICES ASSUME Init PROVE ToldTypes
  OBVIOUS
<1>1. /\ faults = 0 /\ partial = FALSE /\ sticky = FALSE /\ osv = "not_applicable"
      /\ kev = [state |-> "not_applicable", ids |-> {}] /\ listed = {} /\ todo = {}
      /\ prefetched = [c \in Cves |-> "no"]
      /\ native = [a \in Auditors |-> "not_applicable"] /\ verdict = "none"
  BY DEF Init, HttpInit, SourcesInit
<1>2. faults \in 0..MaxFaults
  BY <1>1, HttpClientAssumption
<1>3. "not_applicable" \in States
  BY DEF States
<1>4. partial \in BOOLEAN /\ sticky \in BOOLEAN
  BY <1>1
<1> QED
  BY <1>1, <1>2, <1>3, <1>4 DEF ToldTypes

LEMMA ToldTypesKept == ASSUME FactsInv, FactsInv', ToldTypes, [Next]_vars PROVE ToldTypes'
<1> USE DEF ToldTypes
<1>1. faults' \in 0..MaxFaults
  BY FaultsCounted
<1>2. /\ partial' \in BOOLEAN /\ osv' \in States
      /\ listed' \subseteq Ids \X DOMAIN Pages /\ todo' \subseteq Ids
  \* While OSV is asked, what was listed and is to be fetched is on its pages.
  <2>1. CASE OsvDone
    BY <2>1 DEF OsvDone
  <2>2. CASE phase' = "osv"
    <3>1. /\ partial' \in BOOLEAN /\ osv' \in States
          /\ listed' \subseteq Pairs' /\ todo' \subseteq IdsListed'
          /\ packages' \subseteq PackagesListed
      BY <2>2 DEF FactsInv, TaskInv, OsvInv, ActiveInv, FetchInv
    <3>2. Pairs' \subseteq Ids \X DOMAIN Pages
      BY <3>1 DEF Pairs, PackagesListed
    <3>3. IdsListed' \subseteq Ids
      BY <3>1, <3>2 DEF IdsListed
    <3> QED
      BY <3>1, <3>2, <3>3
  <2>3. CASE UNCHANGED <<osv, partial, listed, todo>>
    BY <2>3
  <2> QED
    BY <2>1, <2>2, <2>3, OsvIsLeft
<1>3. kev'.state \in States /\ kev'.ids \subseteq Cves
  <2>1. CASE KevRead
    BY <2>1, AdvisorySourcesAssumption DEF KevRead, States
  <2> QED
    BY <2>1, StoredIsLeft
<1>4. prefetched' \in [Cves -> {"no", "empty", "dented", "whole"}]
  <2>1. CASE BatchRead
    BY <2>1 DEF BatchRead
  <2> QED
    BY <2>1, StoredIsLeft
<1>5. sticky' \in BOOLEAN
  <2>1. CASE BatchFailed
    BY <2>1 DEF BatchFailed
  <2> QED
    BY <2>1, StoredIsLeft
<1>6. native' \in [Auditors -> States]
  <2>1. CASE RunAuditor
    <3>1. \E s \in States : native' = [native EXCEPT ![Head(wanted)] = s]
      BY <2>1 DEF RunAuditor, States
    <3> QED
      BY <3>1
  <2> QED
    BY <2>1, TaskIsLeft
<1>7. verdict' \in {"none", "complete", "unavailable"}
  BY TaskIsLeft
<1> QED
  BY <1>1, <1>2, <1>3, <1>4, <1>5, <1>6, <1>7

(* Every variable of the inputs stays in its set (runner.py, search.py,     *)
(* sources.py): every state is one of the four, and only identifiers of the *)
(* right family are stored.                                                 *)
THEOREM InputsTypes == Spec => []TypeOK
<1>1. FactsInv /\ ToldTypes => TypeOK
  <2> SUFFICES ASSUME FactsInv, ToldTypes PROVE TypeOK
    OBVIOUS
  <2>1. HttpTypeOK
    BY DEF FactsInv, ClientInv, ToldTypes, HttpTypeOK
  <2>2. task \in Searches \cup {Audit} /\ phase \in Phases /\ packages \subseteq PackagesListed
    BY DEF FactsInv, TaskInv, Phases
  <2> QED
    BY <2>1, <2>2 DEF ToldTypes, TypeOK
<1>2. FactsInv /\ FactsInv' /\ ToldTypes /\ [Next]_vars => ToldTypes'
  BY ToldTypesKept
<1> QED
  BY <1>1, <1>2, ToldTypesStart, FactsInvariant, PTL DEF Spec

------------------------------------------------------------------------------
(* The inventory. *)

(* What a reader has not kept is in its pipe, until it gives up; a reader   *)
(* that ended without giving up has seen the end of a pipe that nobody can  *)
(* write to any more.                                                       *)
ReaderInv(s) ==
    /\ captured[s] + pipe[s] <= written[s] /\ written[s] + left[s] <= MaxOutput
    /\ reader[s] = "read" => captured[s] + pipe[s] = written[s]
    /\ reader[s] = "stop" => exceeded
    /\ reader[s] = "done" => exceeded \/ (~Held /\ captured[s] = written[s])

(* What of CaptureTypeOK it takes. *)
CountsOK ==
    /\ left \in [Streams -> 0..MaxOutput] /\ pipe \in [Streams -> 0..MaxOutput]
    /\ captured \in [Streams -> 0..MaxOutput] /\ written \in [Streams -> 0..MaxOutput]
    /\ reader \in [Streams -> {"read", "flag", "stop", "done"}]

(* What holds of a command and both its readers.                            *)
CaptureInv == CountsOK /\ \A s \in Streams : ReaderInv(s)

(* Before the first command there is nothing to lose. *)
LEMMA CaptureStarts == CaptureInit => CaptureInv
  BY CommandCaptureAssumption DEF CaptureInit, CaptureInv, CountsOK, ReaderInv, Each, Held

(* A command is started with fresh readers. *)
LEMMA LaunchKeeps ==
    ASSUME NEW v \in Volumes, NEW forks, CaptureInv, Launch(v, forks)
    PROVE  CaptureInv'
<1>1. v \in [Streams -> 0..MaxOutput]
  BY ProjectInventoryAssumption
<1> QED
  BY <1>1, CommandCaptureAssumption DEF Launch, CaptureInv, CountsOK, ReaderInv, Each

(* Its outcome put together, nothing of it is left. *)
LEMMA InventoryQuietKeeps == ASSUME NEW lastCode, Quiet(lastCode) PROVE CaptureInv'
  BY CommandCaptureAssumption DEF Quiet, CaptureInv, CountsOK, ReaderInv, Each, Held

(* The command, what it left behind, the readers, the clock and the waiter. *)
LEMMA CaptureStepKeeps == ASSUME CaptureInv, CaptureStep PROVE CaptureInv'
<1> USE CommandCaptureAssumption DEF CaptureInv, CountsOK, ReaderInv, Held
<1>1. ASSUME NEW s \in Streams, Emit(s) PROVE CaptureInv'
  BY <1>1 DEF Emit
<1>2. ASSUME NEW s \in Streams, Read(s) PROVE CaptureInv'
  BY <1>2 DEF Read
<1>3. ASSUME NEW s \in Streams, EndOfFile(s) PROVE CaptureInv'
  BY <1>3 DEF EndOfFile
<1>4. ASSUME NEW s \in Streams, Flag(s) PROVE CaptureInv'
  BY <1>4 DEF Flag
<1>5. ASSUME NEW s \in Streams, StopOverflow(s) PROVE CaptureInv'
  BY <1>5 DEF StopOverflow
<1>6. ASSUME NEW c \in OwnCodes, Exit(c) PROVE CaptureInv'
  BY <1>6 DEF Exit
<1>7. CASE Obey \/ HeirExits
  BY <1>7 DEF Obey, HeirExits
<1>8. CASE Clock
  BY <1>8 DEF Clock
<1>9. CASE WaiterStep
  BY <1>9 DEF WaiterStep, Poll, Due, Reap
<1> QED
  BY <1>1, <1>2, <1>3, <1>4, <1>5, <1>6, <1>7, <1>8, <1>9 DEF CaptureStep, ReaderStep

(* Whatever collect_inventory does with a command. *)
LEMMA NextKeepsCapture == ASSUME CaptureInv, [InventoryNext]_collectVars PROVE CaptureInv'
<1> USE DEF CaptureInv
<1>1. CASE UNCHANGED captureVars
  BY <1>1 DEF captureVars, CountsOK, ReaderInv, Held
<1>2. CASE Collect
  <2>1. CASE StartCommand
    BY <1>1, <2>1, LaunchKeeps DEF StartCommand
  <2>2. CASE FinishCommand
    BY <2>2, InventoryQuietKeeps DEF FinishCommand
  <2> QED
    BY <1>1, <1>2, <2>1, <2>2 DEF Collect
<1>3. CASE Run
  BY <1>3, CaptureStepKeeps DEF Run
<1> QED
  BY <1>1, <1>2, <1>3 DEF InventoryNext, InventoryStop, collectVars

(* A return code of the command's own is reported only when all that it     *)
(* wrote was kept, for every limit and every pipe.                          *)
THEOREM CaptureCorrect == InventorySpec => []CapturedIsWhole
<1>1. InventoryInit => CaptureInv
  BY CaptureStarts DEF InventoryInit
<1>2. CaptureInv /\ [InventoryNext]_collectVars => CaptureInv'
  BY NextKeepsCapture
<1>3. CaptureInv => CapturedIsWhole
  BY DEF CaptureInv, ReaderInv, CapturedIsWhole, Returns, Joined, Outcome, OwnCodes, OverLimit
<1> QED
  BY <1>1, <1>2, <1>3, PTL DEF InventorySpec

(* What else there is to the types of a command. *)
FlagsOK ==
    /\ child \in {"none", "running", "exited"} /\ code \in OwnCodes \cup {Killed}
    /\ heir \in BOOLEAN /\ asked \in BOOLEAN
    /\ exceeded \in BOOLEAN /\ expired \in BOOLEAN /\ timedOut \in BOOLEAN
    /\ waiter \in {"idle", "poll", "due", "reap", "join"}
    /\ ended \in OwnCodes \cup {Killed, OverLimit, OverTime}

LEMMA OutcomeCode == ASSUME FlagsOK PROVE Outcome \in OwnCodes \cup {Killed, OverLimit, OverTime}
  BY DEF FlagsOK, Outcome

LEMMA FlagsKept == ASSUME FlagsOK, [InventoryNext]_collectVars PROVE FlagsOK'
<1> USE DEF FlagsOK
<1>1. CASE UNCHANGED captureVars
  BY <1>1 DEF captureVars
<1>2. CASE StartCommand
  <2>1. 0 \in OwnCodes
    BY DEF OwnCodes
  <2>2. ASSUME NEW v \in Volumes, NEW forks \in BOOLEAN, Launch(v, forks) PROVE FlagsOK'
    BY <2>1, <2>2 DEF Launch
  <2> QED
    BY <1>1, <1>2, <2>2 DEF StartCommand
<1>3. CASE FinishCommand
  <2>1. 0 \in OwnCodes
    BY DEF OwnCodes
  <2> QED
    BY <1>3, <2>1, OutcomeCode DEF FinishCommand, Quiet
<1>4. CASE CaptureStep
  <2>1. ASSUME NEW s \in Streams, Emit(s) PROVE FlagsOK'
    BY <2>1 DEF Emit
  <2>2. ASSUME NEW s \in Streams, ReaderStep(s) PROVE FlagsOK'
    <3>1. CASE Read(s) \/ EndOfFile(s)
      BY <3>1 DEF Read, EndOfFile
    <3>2. CASE Flag(s)
      BY <3>2 DEF Flag
    <3>3. CASE StopOverflow(s)
      BY <3>3 DEF StopOverflow
    <3> QED
      BY <2>2, <3>1, <3>2, <3>3 DEF ReaderStep
  <2>3. ASSUME NEW c \in OwnCodes, Exit(c) PROVE FlagsOK'
    BY <2>3 DEF Exit
  <2>4. CASE Obey
    BY <2>4 DEF Obey
  <2>5. CASE HeirExits \/ Clock
    BY <2>5 DEF HeirExits, Clock
  <2>6. CASE Poll
    BY <2>6 DEF Poll
  <2>7. CASE Due
    BY <2>7 DEF Due
  <2>8. CASE Reap
    BY <2>8 DEF Reap
  <2> QED
    BY <1>4, <2>1, <2>2, <2>3, <2>4, <2>5, <2>6, <2>7, <2>8 DEF CaptureStep, WaiterStep
<1> QED
  BY <1>1, <1>2, <1>3, <1>4 DEF InventoryNext, Collect, Run, InventoryStop, collectVars

(* Every variable of a command stays in its set (run_command): its pipes    *)
(* and buffers never hold more than it wrote, and the code it is reported   *)
(* with is its own or says that it was killed, cut off or out of time.      *)
THEOREM CaptureTypes == InventorySpec => []CaptureTypeOK
<1>1. InventoryInit => CaptureInv /\ FlagsOK
  <2>1. ASSUME CaptureInit PROVE FlagsOK
    BY <2>1 DEF CaptureInit, FlagsOK, OwnCodes
  <2> QED
    BY <2>1, CaptureStarts DEF InventoryInit
<1>2. CaptureInv /\ FlagsOK /\ [InventoryNext]_collectVars => (CaptureInv /\ FlagsOK)'
  BY NextKeepsCapture, FlagsKept
<1>3. CaptureInv /\ FlagsOK => CaptureTypeOK
  BY DEF CaptureInv, CountsOK, FlagsOK, CaptureTypeOK
<1> QED
  BY <1>1, <1>2, <1>3, PTL DEF InventorySpec

-----------------------------------------------------------------------------
(* Merging: the result depends on the strongest rows alone.                 *)

IsRows(R) == \A r \in R : r = Row(r.pkg, r.scope) /\ r.scope \in Scopes

Strongest(R) == {r \in R : \A q \in R : q.pkg = r.pkg => q.scope <= r.scope}

(* Every row is outdone by a strongest one. *)
LEMMA StrongestExists ==
    ASSUME NEW R, IsRows(R), NEW r \in R
    PROVE  \E t \in Strongest(R) : t.pkg = r.pkg /\ r.scope <= t.scope
<1>1. CASE \E t \in R : t.pkg = r.pkg /\ t.scope = 2
  BY <1>1 DEF IsRows, Strongest, Scopes, Unknown, Development, Runtime
<1>2. CASE /\ ~\E t \in R : t.pkg = r.pkg /\ t.scope = 2
           /\ \E t \in R : t.pkg = r.pkg /\ t.scope = 1
  BY <1>2 DEF IsRows, Strongest, Scopes, Unknown, Development, Runtime
<1>3. CASE ~\E t \in R : t.pkg = r.pkg /\ t.scope \in {1, 2}
  BY <1>3 DEF IsRows, Strongest, Scopes, Unknown, Development, Runtime
<1> QED
  BY <1>1, <1>2, <1>3

LEMMA MergedIsStrongest == ASSUME NEW R, IsRows(R) PROVE Merged(R) = Strongest(R)
<1> DEFINE Best(p, r) == r.pkg = p /\ \A q \in R : q.pkg = p => q.scope <= r.scope
           Pick(p) == CHOOSE r \in R : Best(p, r)
<1>1. Merged(R) = {Pick(p) : p \in PackagesOf(R)}
  BY Zenon DEF Merged
<1>2. ASSUME NEW p \in PackagesOf(R) PROVE Pick(p) \in R /\ Best(p, Pick(p))
  <2>1. PICK r \in R : r.pkg = p
    BY DEF PackagesOf
  <2>2. \E t \in R : Best(p, t)
    BY <2>1, StrongestExists DEF Strongest
  <2> QED
    BY <2>2
<1>3. ASSUME NEW r \in Strongest(R) PROVE Pick(r.pkg) = r
  <2>1. r \in R /\ r.pkg \in PackagesOf(R)
    BY DEF Strongest, PackagesOf
  <2> DEFINE t == Pick(r.pkg)
  <2>2. t \in R /\ Best(r.pkg, t)
    BY <1>2, <2>1
  <2> HIDE DEF t
  <2>3. t.pkg = r.pkg /\ t.scope = r.scope
    BY <2>1, <2>2 DEF Strongest, IsRows, Scopes, Unknown, Development, Runtime
  <2> QED
    BY <2>1, <2>2, <2>3 DEF IsRows, t
<1>4. Strongest(R) \subseteq Merged(R)
  <2> SUFFICES ASSUME NEW r \in Strongest(R) PROVE r \in Merged(R)
    OBVIOUS
  <2>1. r.pkg \in PackagesOf(R)
    BY DEF Strongest, PackagesOf
  <2> HIDE DEF Pick
  <2> QED
    BY <1>1, <1>3, <2>1
<1>5. Merged(R) \subseteq Strongest(R)
  BY <1>1, <1>2 DEF Strongest
<1> QED
  BY <1>4, <1>5

(* What is merged already may be merged again with the rest. *)
LEMMA MergeAgain ==
    ASSUME NEW R, NEW H, NEW G, IsRows(H), IsRows(G), IsRows(R), Merged(R) = Merged(H)
    PROVE  IsRows(R \cup Merged(G)) /\ Merged(R \cup Merged(G)) = Merged(H \cup G)
<1>1. Merged(G) = Strongest(G) /\ Strongest(R) = Strongest(H)
  BY MergedIsStrongest
<1>2. IsRows(R \cup Strongest(G)) /\ IsRows(H \cup G)
  BY DEF IsRows, Strongest
<1>3. ASSUME NEW r \in Strongest(R \cup Strongest(G)) PROVE r \in Strongest(H \cup G)
  <2>1. r \in H \cup G
    BY <1>1 DEF Strongest
  <2>2. ASSUME NEW q \in H \cup G, q.pkg = r.pkg PROVE q.scope <= r.scope
    <3>1. PICK t \in Strongest(H) \cup Strongest(G) : t.pkg = q.pkg /\ q.scope <= t.scope
      BY StrongestExists
    <3>2. t \in R \cup Strongest(G)
      BY <1>1 DEF Strongest
    <3>3. t.scope <= r.scope
      BY <2>2, <3>1, <3>2 DEF Strongest
    <3> QED
      BY <1>2, <2>1, <3>1, <3>2, <3>3 DEF IsRows, Scopes, Unknown, Development, Runtime
  <2> QED
    BY <2>1, <2>2 DEF Strongest
<1>4. ASSUME NEW r \in Strongest(H \cup G) PROVE r \in Strongest(R \cup Strongest(G))
  <2>1. r \in Strongest(H) \/ r \in Strongest(G)
    BY DEF Strongest
  <2>2. r \in R \cup Strongest(G)
    BY <1>1, <2>1 DEF Strongest
  <2>3. ASSUME NEW q \in R \cup Strongest(G), q.pkg = r.pkg PROVE q.scope <= r.scope
    <3>1. PICK t \in Strongest(R) \cup Strongest(G) : t.pkg = q.pkg /\ q.scope <= t.scope
      BY StrongestExists DEF IsRows, Strongest, Scopes, Unknown, Development, Runtime
    <3>2. t \in H \cup G
      BY <1>1 DEF Strongest
    <3>3. t.scope <= r.scope
      BY <2>3, <3>1, <3>2 DEF Strongest
    <3> QED
      BY <1>2, <2>2, <3>1, <3>2, <3>3 DEF IsRows, Scopes, Unknown, Development, Runtime
  <2> QED
    BY <2>2, <2>3 DEF Strongest
<1>5. Strongest(R \cup Strongest(G)) = Strongest(H \cup G)
  BY <1>3, <1>4
<1> QED
  BY <1>1, <1>2, <1>5, MergedIsStrongest

-----------------------------------------------------------------------------
(* What a reading says of itself is true: a complete one has every package  *)
(* of its document, merged.                                                 *)

Truthful(r) ==
    r.complete =>
        /\ IsRows(r.holds) /\ IsRows(r.hides)
        /\ \E seen \in SUBSET r.hides : r.rows = Merged(r.holds \cup seen)

(* Where nothing is hidden. *)
LEMMA WholeIsTruthful ==
    ASSUME NEW r, r.hides = {}, r.complete => IsRows(r.holds) /\ r.rows = Merged(r.holds)
    PROVE  Truthful(r)
<1>1. IsRows({}) /\ r.holds \cup {} = r.holds /\ {} \in SUBSET r.hides
  BY DEF IsRows
<1> HIDE DEF IsRows
<1> QED
  BY <1>1 DEF Truthful

(* What the documents of npm are like. *)
NpmTree(d) ==
    /\ DOMAIN d \subseteq Nat \ {0} /\ InDocumentOrder(d)
    /\ \A n \in DOMAIN d : d[n].parent \in {0} \cup DOMAIN d /\ d[n].scope \in Scopes

(* A parent comes before its children, and what is beneath it is beneath    *)
(* what it is beneath.                                                      *)
LEMMA BeneathParent ==
    ASSUME NEW d, NpmTree(d), NEW n \in DOMAIN d, d[n].parent # 0
    PROVE  /\ d[n].parent \in DOMAIN d /\ d[n].parent < n
           /\ n \in Beneath(d, d[n].parent)
           /\ \A q \in DOMAIN d : d[n].parent \in Beneath(d, q) => n \in Beneath(d, q)
<1> DEFINE p == d[n].parent
<1>1. p \in DOMAIN d /\ n \in Beneath(d, p)
  BY DEF NpmTree, InDocumentOrder
<1>2. /\ n \in Nat /\ p \in Nat /\ p < n
      /\ \A i \in DOMAIN d : i \in Nat /\ d[i].parent \in Nat
      /\ \A i \in DOMAIN d : p < i /\ i <= n => d[i].parent >= p
  BY <1>1 DEF NpmTree, Beneath
<1> HIDE DEF p
<1>3. ASSUME NEW q \in DOMAIN d, p \in Beneath(d, q) PROVE n \in Beneath(d, q)
  <2>1. /\ q \in Nat /\ q < p
        /\ \A i \in DOMAIN d : q < i /\ i <= p => d[i].parent >= q
    BY <1>2, <1>3 DEF Beneath
  <2>2. ASSUME NEW i \in DOMAIN d, q < i, i <= n PROVE d[i].parent >= q
    BY <1>2, <2>1, <2>2
  <2> QED
    BY <1>2, <2>1, <2>2 DEF Beneath
<1> QED
  BY <1>1, <1>2, <1>3 DEF p

(* The walk is determined: whether it comes to a node depends on earlier    *)
(* nodes alone.                                                             *)
LEMMA OneWalk ==
    ASSUME NEW d, NpmTree(d), NEW met \in Walks(d), NEW other \in Walks(d)
    PROVE  met = other
<1> DEFINE Differ == {n \in DOMAIN d : ~(n \in met <=> n \in other)}
<1>1. met \subseteq DOMAIN d /\ other \subseteq DOMAIN d /\ DOMAIN d \subseteq Nat
  BY DEF Walks, NpmTree
<1> SUFFICES ASSUME Differ # {} PROVE FALSE
  BY <1>1
<1>2. PICK n \in Differ : \A k \in Differ : n <= k
  BY <1>1, SomeLeast
<1> DEFINE p == d[n].parent
<1>3. /\ n \in met <=> p = 0 \/ Descends(d, met, p)
      /\ n \in other <=> p = 0 \/ Descends(d, other, p)
  BY <1>2 DEF Walks
<1>4. p # 0 /\ ~(Descends(d, met, p) <=> Descends(d, other, p))
  BY <1>2, <1>3
<1>5. p \in DOMAIN d /\ p < n
  BY <1>2, <1>4, BeneathParent
<1> HIDE DEF p
<1>6. ASSUME NEW k \in DOMAIN d, k <= p PROVE k \in met <=> k \in other
  <2>1. k \in Nat /\ p \in Nat /\ n \in Nat
    BY <1>1, <1>2, <1>5
  <2> QED
    BY <1>2, <1>5, <1>6, <2>1
<1>7. /\ p \in met <=> p \in other
      /\ \A k \in DOMAIN d : k < p => (k \in met <=> k \in other)
  BY <1>1, <1>5, <1>6
<1>8. Descends(d, met, p) <=> Descends(d, other, p)
  BY <1>1, <1>7 DEF Descends
<1> QED
  BY <1>4, <1>8

(* Where the versions of all nodes it comes to are exact, the walk of       *)
(* parse_npm_list comes to all nodes but those beneath a repeated one.      *)
THEOREM WalkMeets ==
    ASSUME NEW d, NpmTree(d), NEW met \in Walks(d), \A n \in met : d[n].exact
    PROVE  DOMAIN d \ Hidden(d) \subseteq met
<1> DEFINE Missed == (DOMAIN d \ Hidden(d)) \ met
<1> SUFFICES ASSUME Missed # {} PROVE FALSE
  OBVIOUS
<1>1. Missed \in SUBSET Nat
  BY DEF NpmTree
<1>2. PICK n \in Missed : \A k \in Missed : n <= k
  BY <1>1, SomeLeast
<1>3. /\ met \subseteq DOMAIN d
      /\ \A k \in DOMAIN d : d[k].parent = 0 \/ Descends(d, met, d[k].parent) => k \in met
  BY DEF Walks
<1> DEFINE p == d[n].parent
<1>4. n \in DOMAIN d /\ n \notin Hidden(d) /\ n \notin met /\ p # 0 /\ ~Descends(d, met, p)
  BY <1>2, <1>3
<1>5. /\ p \in DOMAIN d /\ p < n /\ n \in Beneath(d, p)
      /\ \A q \in DOMAIN d : p \in Beneath(d, q) => n \in Beneath(d, q)
  BY <1>4, BeneathParent
<1> HIDE DEF p
<1>6. p \notin Hidden(d)
  BY <1>4, <1>5 DEF Hidden
<1>7. p \in met
  <2>1. n \in Nat /\ p \in Nat
    BY <1>4, <1>5 DEF NpmTree
  <2> QED
    BY <1>2, <1>5, <1>6, <2>1
<1>8. PICK m \in met : m < p /\ SameKey(d, m, p)
  BY <1>4, <1>7 DEF Descends
<1>9. n \in Hidden(d)
  BY <1>3, <1>5, <1>8 DEF Hidden
<1> QED
  BY <1>4, <1>9

LEMMA NpmIsTruthful == ASSUME NEW r \in NpmReadings PROVE Truthful(r)
<1>0. PICK d \in NpmDocs :
        \E w \in Walks(d) : r = Reading(ParseNpm(d, w), NpmHolds(d), NpmHides(d))
  BY DEF NpmReadings
<1>1. PICK met \in Walks(d) : r = Reading(ParseNpm(d, met), NpmHolds(d), NpmHides(d))
  BY <1>0
<1>2. NpmTree(d)
  BY DocumentsAssumption DEF NpmTree
<1>3. met \subseteq DOMAIN d /\ Hidden(d) \subseteq DOMAIN d
  BY DEF Walks, Hidden, Beneath
<1> DEFINE row(n) == Row(d[n].pkg, d[n].scope)
           seen == {row(n) : n \in met \cap Hidden(d)}
<1>4. r.holds = {row(n) : n \in DOMAIN d \ Hidden(d)} /\ r.hides = {row(n) : n \in Hidden(d)}
  BY <1>1 DEF Reading, NpmHolds, NpmHides
<1>5. IsRows(r.holds) /\ IsRows(r.hides)
  <2> SUFFICES ASSUME NEW q \in r.holds \cup r.hides
               PROVE  q = Row(q.pkg, q.scope) /\ q.scope \in Scopes
    BY DEF IsRows
  <2>1. PICK n \in DOMAIN d : q = Row(d[n].pkg, d[n].scope)
    BY <1>3, <1>4
  <2> QED
    BY <1>2, <2>1 DEF Row, NpmTree
<1>6. seen \in SUBSET r.hides
  BY <1>4
<1>7. ASSUME r.complete PROVE r.rows = Merged(r.holds \cup seen)
  <2>1. r.rows = Merged({row(n) : n \in {k \in met : d[k].exact}})
        /\ (r.complete => {k \in met : d[k].exact} = met)
    BY <1>1 DEF Reading, ParseNpm, Build
  <2>2. {k \in met : d[k].exact} = met
    BY <1>7, <2>1
  <2>3. DOMAIN d \ Hidden(d) \subseteq met
    BY <1>2, <2>2, WalkMeets
  <2>4. met = (DOMAIN d \ Hidden(d)) \cup (met \cap Hidden(d))
    BY <1>3, <2>3
  <2>5. {row(n) : n \in met} = r.holds \cup seen
    BY <1>4, <2>4
  <2> HIDE DEF row, seen
  <2> QED
    BY <2>1, <2>2, <2>5
<1> HIDE DEF IsRows, seen
<1> QED
  BY <1>5, <1>6, <1>7 DEF Truthful

LEMMA PipIsTruthful == ASSUME NEW r \in PipReadings PROVE Truthful(r)
<1>1. PICK d \in PipDocs : r = Reading(ParsePip(d), PipHolds(d), {})
  BY DEF PipReadings
<1>2. IsRows(PipHolds(d))
  BY DEF PipHolds, IsRows, Row, Scopes
<1>3. ASSUME r.complete PROVE {j \in d : j.exact} = d
  BY <1>1, <1>3 DEF Reading, ParsePip, Build
<1>4. ASSUME r.complete PROVE r.rows = Merged(PipHolds(d))
  BY <1>1, <1>3, <1>4 DEF Reading, ParsePip, Build, PipHolds
<1> QED
  BY <1>1, <1>2, <1>4, WholeIsTruthful DEF Reading

(* Of the kinds of a dependency there is a strongest one. *)
LEMMA DirectScopes ==
    ASSUME NEW doc \in CargoDocs, NEW i PROVE DirectScope(doc, i) \in Scopes
<1> DEFINE kinds == {d.scope : d \in {e \in doc.direct : e.id = i}}
<1>1. kinds \subseteq {0, 1, 2}
  BY DocumentsAssumption DEF Scopes, Unknown, Development, Runtime
<1>2. DirectScope(doc, i) =
        IF kinds = {} THEN Unknown ELSE CHOOSE k \in kinds : \A j \in kinds : j <= k
  BY DEF DirectScope
<1> HIDE DEF kinds
<1>3. kinds # {} => \E k \in kinds : \A j \in kinds : j <= k
  <2> SUFFICES ASSUME NEW i0 \in kinds PROVE \E k \in kinds : \A j \in kinds : j <= k
    OBVIOUS
  <2>1. CASE 2 \in kinds
    BY <1>1, <2>1
  <2>2. CASE 2 \notin kinds /\ 1 \in kinds
    BY <1>1, <2>2
  <2>3. CASE 2 \notin kinds /\ 1 \notin kinds
    BY <1>1, <2>3
  <2> QED
    BY <2>1, <2>2, <2>3
<1> QED
  BY <1>1, <1>2, <1>3 DEF Scopes, Unknown, Development, Runtime

LEMMA CargoIsTruthful == ASSUME NEW r \in CargoReadings PROVE Truthful(r)
<1>1. PICK d \in CargoDocs : r = Reading(ParseCargo(d), CargoHolds(d), {})
  BY DEF CargoReadings
<1>2. IsRows(CargoHolds(d))
  BY <1>1, DirectScopes DEF CargoHolds, IsRows, Row
<1> DEFINE others == DOMAIN d.pkg \ {d.root}
           kept == {i \in others : d.exact[i]}
<1>3. r.rows = Merged({Row(d.pkg[i], DirectScope(d, i)) : i \in kept})
  BY <1>1 DEF Reading, ParseCargo, Build
<1>4. r.complete => kept = others
  BY <1>1 DEF Reading, ParseCargo, Build
<1>5. r.holds = {Row(d.pkg[i], DirectScope(d, i)) : i \in others}
  BY <1>1 DEF Reading, CargoHolds
<1>6. r.holds = CargoHolds(d) /\ r.hides = {}
  BY <1>1 DEF Reading
<1> HIDE DEF kept, others
<1> QED
  BY <1>2, <1>3, <1>4, <1>5, <1>6, WholeIsTruthful

LEMMA GoIsTruthful ==
    ASSUME NEW g \in BOOLEAN, NEW r \in GoReadings[g] PROVE Truthful(r)
<1>1. PICK d \in GoDocs : r = Reading(ParseGo(d), GoHolds(d), {})
  BY DEF GoReadings
<1>2. IsRows(GoHolds(d))
  BY DEF GoHolds, IsRows, Row, Scopes
<1> DEFINE kept == {m \in d.modules : m.exact}
<1>3. r.rows = Merged({Row(m.pkg, Unknown) : m \in kept})
  BY <1>1 DEF Reading, ParseGo, Build
<1>4. r.complete => kept = d.modules
  BY <1>1 DEF Reading, ParseGo, Build
<1>5. r.holds = GoHolds(d) /\ r.hides = {}
  BY <1>1 DEF Reading
<1> HIDE DEF kept
<1> QED
  BY <1>2, <1>3, <1>4, <1>5, WholeIsTruthful DEF GoHolds

LEMMA SbomIsTruthful == ASSUME NEW r \in SbomReadings PROVE Truthful(r)
<1>1. PICK d \in SbomDocs : r = Reading(ParseSbom(d), SbomHolds(d), {})
  BY DEF SbomReadings
<1>2. IsRows(SbomHolds(d))
  BY <1>1, DocumentsAssumption DEF SbomHolds, IsRows, Row
<1> DEFINE kept == {c \in d.components : c.exact /\ c.ref # 0}
<1>3. r.rows = Merged({Row(c.pkg, c.scope) : c \in kept})
  BY <1>1 DEF Reading, ParseSbom, Build
<1>4. r.complete => kept = d.components
  BY <1>1 DEF Reading, ParseSbom, Build
<1>5. r.holds = SbomHolds(d) /\ r.hides = {}
  BY <1>1 DEF Reading
<1> HIDE DEF kept
<1> QED
  BY <1>2, <1>3, <1>4, <1>5, WholeIsTruthful DEF SbomHolds

-----------------------------------------------------------------------------
(* As long as there is no gap, the rows are those of the documents that     *)
(* were parsed, and every source the evidence calls for was parsed, is      *)
(* still to be run, or printed what is still to be parsed.                  *)

Commands == {"npm-list", "pip-inspect", "cargo-metadata", "go-list", "go-graph"}

Pending(s) == s \in ToSet(queue) \/ (s = "go-list" /\ s \in goOutput)

RowsAgree ==
    gaps = {} =>
        /\ IsRows(rows) /\ IsRows(held) /\ IsRows(hidden)
        /\ \E seen \in SUBSET hidden : Merged(rows) = Merged(held \cup seen)

StageInv ==
    /\ queue \in Seq(Commands)
    /\ stage = "start" => gaps = {} /\ read = {} /\ rows = {} /\ held = {} /\ hidden = {}
    /\ stage = "commands" => \A s \in Needed : s \in read \/ s \in gaps \/ Pending(s)

InventoryInv == RowsAgree /\ StageInv /\ InventoryIsWhole

(* Taking a reading in. *)
LEMMA KeepAgrees ==
    ASSUME NEW source, NEW r, Truthful(r), RowsAgree, Keep(source, r) PROVE RowsAgree'
<1> SUFFICES ASSUME gaps' = {}
             PROVE  /\ IsRows(rows') /\ IsRows(held') /\ IsRows(hidden')
                    /\ \E seen \in SUBSET hidden' : Merged(rows') = Merged(held' \cup seen)
  BY DEF RowsAgree
<1>1. gaps = {} /\ r.complete
  BY DEF Keep
<1>2. /\ IsRows(rows) /\ IsRows(held) /\ IsRows(hidden) /\ IsRows(r.holds) /\ IsRows(r.hides)
      /\ rows' = rows \cup r.rows /\ held' = held \cup r.holds /\ hidden' = hidden \cup r.hides
  BY <1>1 DEF RowsAgree, Truthful, Keep
<1>3. PICK s \in SUBSET hidden : Merged(rows) = Merged(held \cup s)
  BY <1>1 DEF RowsAgree
<1>4. PICK t \in SUBSET r.hides : r.rows = Merged(r.holds \cup t)
  BY <1>1 DEF Truthful
<1>5. IsRows(held') /\ IsRows(hidden') /\ IsRows(held \cup s) /\ IsRows(r.holds \cup t)
  BY <1>2 DEF IsRows
<1>6. IsRows(rows') /\ Merged(rows') = Merged((held \cup s) \cup (r.holds \cup t))
  <2> DEFINE H == held \cup s
             G == r.holds \cup t
  <2>1. IsRows(H) /\ IsRows(G) /\ IsRows(rows) /\ Merged(rows) = Merged(H)
    BY <1>2, <1>3, <1>5
  <2>2. rows' = rows \cup Merged(G)
    BY <1>2, <1>4
  <2> HIDE DEF H, G
  <2>3. IsRows(rows \cup Merged(G)) /\ Merged(rows \cup Merged(G)) = Merged(H \cup G)
    BY <2>1, MergeAgain
  <2>4. IsRows(rows') /\ Merged(rows') = Merged(H \cup G)
    BY <2>2, <2>3
  <2> QED
    BY <2>4 DEF H, G
<1>7. (held \cup s) \cup (r.holds \cup t) = held' \cup (s \cup t) /\ s \cup t \in SUBSET hidden'
  BY <1>2
<1> HIDE DEF IsRows
<1> QED
  BY <1>5, <1>6, <1>7

LEMMA GapAgrees == ASSUME NEW source, Gap(source) PROVE RowsAgree'
  BY DEF Gap, RowsAgree

(* The head of the queue is dealt with. *)
LEMMA QueueSplits ==
    ASSUME NEW q \in Seq(Commands), q # <<>>
    PROVE  /\ Head(q) \in Commands /\ Tail(q) \in Seq(Commands)
           /\ ToSet(q) = {Head(q)} \cup ToSet(Tail(q))
<1>1. DOMAIN q = 1..Len(q) /\ Len(q) \in Nat \ {0} /\ Len(Tail(q)) = Len(q) - 1
  OBVIOUS
<1>2. DOMAIN Tail(q) = 1..Len(q) - 1 /\ \A i \in 1..Len(q) - 1 : Tail(q)[i] = q[i + 1]
  OBVIOUS
<1>3. ASSUME NEW i \in 1..Len(q) PROVE q[i] \in {Head(q)} \cup ToSet(Tail(q))
  <2>1. CASE i = 1
    BY <2>1
  <2>2. CASE i # 1
    <3>1. i - 1 \in DOMAIN Tail(q) /\ Tail(q)[i - 1] = q[i]
      BY <1>1, <1>2, <2>2
    <3> QED
      BY <3>1 DEF ToSet
  <2> QED
    BY <2>1, <2>2
<1>4. {Head(q)} \cup ToSet(Tail(q)) \subseteq ToSet(q)
  BY <1>1, <1>2 DEF ToSet
<1> QED
  BY <1>1, <1>3, <1>4 DEF ToSet

LEMMA ConcatSplits ==
    ASSUME NEW q \in Seq(Commands), NEW r \in Seq(Commands)
    PROVE  q \o r \in Seq(Commands) /\ ToSet(q \o r) = ToSet(q) \cup ToSet(r)
<1>1. /\ q \o r \in Seq(Commands) /\ DOMAIN (q \o r) = 1..Len(q) + Len(r)
      /\ Len(q) \in Nat /\ Len(r) \in Nat
      /\ DOMAIN q = 1..Len(q) /\ DOMAIN r = 1..Len(r)
  OBVIOUS
<1>2. \A i \in 1..Len(q) + Len(r) : (q \o r)[i] = IF i <= Len(q) THEN q[i] ELSE r[i - Len(q)]
  OBVIOUS
<1>3. ASSUME NEW i \in 1..Len(q) + Len(r) PROVE (q \o r)[i] \in ToSet(q) \cup ToSet(r)
  <2>1. CASE i <= Len(q)
    BY <1>1, <1>2, <2>1 DEF ToSet
  <2>2. CASE i > Len(q)
    <3>1. i - Len(q) \in 1..Len(r) /\ (q \o r)[i] = r[i - Len(q)]
      BY <1>1, <1>2, <2>2
    <3> QED
      BY <1>1, <3>1 DEF ToSet
  <2> QED
    BY <1>1, <2>1, <2>2
<1>4. ASSUME NEW i \in 1..Len(q) PROVE q[i] \in ToSet(q \o r)
  <2>1. i \in 1..Len(q) + Len(r) /\ (q \o r)[i] = q[i]
    BY <1>1, <1>2
  <2> QED
    BY <1>1, <2>1 DEF ToSet
<1>5. ASSUME NEW i \in 1..Len(r) PROVE r[i] \in ToSet(q \o r)
  <2>1. i + Len(q) \in 1..Len(q) + Len(r) /\ (q \o r)[i + Len(q)] = r[i]
    BY <1>1, <1>2
  <2> QED
    BY <1>1, <2>1 DEF ToSet
<1>6. ToSet(q \o r) \subseteq ToSet(q) \cup ToSet(r)
  BY <1>1, <1>3 DEF ToSet
<1>7. ToSet(q) \cup ToSet(r) \subseteq ToSet(q \o r)
  BY <1>1, <1>4, <1>5 DEF ToSet
<1> QED
  BY <1>1, <1>6, <1>7

(* Every command that is needed and can be run is in the queue. *)
LEMMA AdaptersCover ==
    ASSUME NEW p
    PROVE  /\ Adapters(p) \in Seq(Commands)
           /\ "npm" \in p => "npm-list" \in ToSet(Adapters(p))
           /\ {"python", "venv"} \subseteq p => "pip-inspect" \in ToSet(Adapters(p))
           /\ "cargo" \in p => "cargo-metadata" \in ToSet(Adapters(p))
           /\ "go" \in p => "go-list" \in ToSet(Adapters(p))
<1> DEFINE npm   == IF "npm" \in p THEN <<"npm-list">> ELSE <<>>
           pip   == IF {"python", "venv"} \subseteq p THEN <<"pip-inspect">> ELSE <<>>
           cargo == IF "cargo" \in p THEN <<"cargo-metadata">> ELSE <<>>
           golang == IF "go" \in p THEN <<"go-list", "go-graph">> ELSE <<>>
<1>1. npm \in Seq(Commands) /\ pip \in Seq(Commands) /\ cargo \in Seq(Commands)
      /\ golang \in Seq(Commands)
  <2>1. <<>> \in Seq(Commands) /\ \A s \in Commands : <<s>> \in Seq(Commands)
    OBVIOUS
  <2>2. \A s, t \in Commands : <<s, t>> \in Seq(Commands)
    OBVIOUS
  <2>3. {"npm-list", "pip-inspect", "cargo-metadata", "go-list", "go-graph"} \subseteq Commands
    BY DEF Commands
  <2> QED
    BY <2>1, <2>2, <2>3
<1>2. /\ "npm" \in p => "npm-list" \in ToSet(npm)
      /\ {"python", "venv"} \subseteq p => "pip-inspect" \in ToSet(pip)
      /\ "cargo" \in p => "cargo-metadata" \in ToSet(cargo)
      /\ "go" \in p => "go-list" \in ToSet(golang)
  <2>1. "npm" \in p => npm[1] = "npm-list" /\ 1 \in DOMAIN npm
    OBVIOUS
  <2>2. {"python", "venv"} \subseteq p => pip[1] = "pip-inspect" /\ 1 \in DOMAIN pip
    OBVIOUS
  <2>3. "cargo" \in p => cargo[1] = "cargo-metadata" /\ 1 \in DOMAIN cargo
    OBVIOUS
  <2>4. "go" \in p => golang[1] = "go-list" /\ 1 \in DOMAIN golang
    OBVIOUS
  <2> HIDE DEF npm, pip, cargo, golang
  <2> QED
    BY <2>1, <2>2, <2>3, <2>4 DEF ToSet
<1>3. Adapters(p) = npm \o pip \o cargo \o golang
  BY DEF Adapters
<1> HIDE DEF npm, pip, cargo, golang
<1>4. npm \o pip \in Seq(Commands) /\ ToSet(npm \o pip) = ToSet(npm) \cup ToSet(pip)
  BY <1>1, ConcatSplits
<1>5. /\ npm \o pip \o cargo \in Seq(Commands)
      /\ ToSet(npm \o pip \o cargo) = ToSet(npm \o pip) \cup ToSet(cargo)
  BY <1>1, <1>4, ConcatSplits
<1>6. /\ npm \o pip \o cargo \o golang \in Seq(Commands)
      /\ ToSet(npm \o pip \o cargo \o golang) = ToSet(npm \o pip \o cargo) \cup ToSet(golang)
  BY <1>1, <1>5, ConcatSplits
<1> QED
  BY <1>2, <1>3, <1>4, <1>5, <1>6

-----------------------------------------------------------------------------
(* The steps. *)

LEMMA InventoryStarts == InventoryInit => InventoryInv
  BY DEF InventoryInit, InventoryInv, RowsAgree, IsRows, StageInv, InventoryIsWhole, NoInventory

LEMMA ReadSbomKeeps == ASSUME InventoryInv, ReadSbom PROVE InventoryInv'
<1>1. stage = "start" /\ gaps = {} /\ read = {} /\ rows = {} /\ held = {} /\ hidden = {}
  BY DEF InventoryInv, StageInv, ReadSbom
<1>2. ASSUME NEW r \in SbomReadings, Keep("cyclonedx", r),
             IF r.complete
             THEN stage' = "done" /\ inventory' = [rows |-> r.rows, complete |-> TRUE]
             ELSE stage' = "detect" /\ UNCHANGED inventory
      PROVE  InventoryInv'
  <2>1. Truthful(r)
    BY SbomIsTruthful
  <2>2. RowsAgree'
    BY <1>2, <2>1, KeepAgrees DEF InventoryInv
  <2>3. StageInv'
    BY <1>2 DEF InventoryInv, StageInv, ReadSbom
  <2>4. InventoryIsWhole'
    BY <1>1, <1>2, <2>1 DEF InventoryIsWhole, Keep, Truthful, ReadSbom
  <2> QED
    BY <2>2, <2>3, <2>4 DEF InventoryInv
<1>3. CASE Gap("cyclonedx") /\ stage' = "detect" /\ UNCHANGED inventory
  BY <1>3, GapAgrees DEF InventoryInv, StageInv, InventoryIsWhole, ReadSbom
<1>4. CASE stage' = "raised" /\ UNCHANGED <<gaps, read, rows, held, hidden, inventory>>
  BY <1>4 DEF InventoryInv, StageInv, RowsAgree, InventoryIsWhole, ReadSbom
<1> QED
  BY <1>2, <1>3, <1>4 DEF ReadSbom

LEMMA DetectKeeps == ASSUME InventoryInv, Detect PROVE InventoryInv'
<1>1. /\ stage' = "commands" /\ queue' = Adapters(project) /\ UNCHANGED <<project, read>>
      /\ "python" \in project /\ "venv" \notin project => "pip-inspect" \in gaps'
      /\ gaps \subseteq gaps' /\ UNCHANGED <<rows, held, hidden, goOutput>>
  BY DEF Detect
<1>2. RowsAgree'
  BY <1>1 DEF InventoryInv, RowsAgree
<1>3. ASSUME NEW s \in Needed' PROVE s \in read' \/ s \in gaps' \/ Pending(s)'
  BY <1>1, <1>3, AdaptersCover DEF Needed, Pending
<1> QED
  BY <1>1, <1>2, <1>3, AdaptersCover DEF InventoryInv, StageInv, InventoryIsWhole

LEMMA StartCommandKeeps == ASSUME InventoryInv, StartCommand PROVE InventoryInv'
<1>1. CASE UNCHANGED inventoryVars
  BY <1>1 DEF inventoryVars, InventoryInv, RowsAgree, StageInv, Pending, Needed, InventoryIsWhole
<1>2. CASE /\ Gap(Head(queue)) /\ queue' = Tail(queue)
           /\ UNCHANGED <<project, stage, goOutput, inventory>>
  <2>1. stage = "commands" /\ queue \in Seq(Commands) /\ queue # <<>>
    BY DEF StartCommand, Running, InventoryInv, StageInv
  <2>2. ASSUME NEW s \in Needed' PROVE s \in read' \/ s \in gaps' \/ Pending(s)'
    BY <1>2, <2>1, <2>2, QueueSplits DEF Gap, InventoryInv, StageInv, Pending, Needed
  <2>3. StageInv' /\ InventoryIsWhole'
    BY <1>2, <2>1, <2>2, QueueSplits DEF StageInv, InventoryIsWhole
  <2> QED
    BY <1>2, <2>3, GapAgrees DEF InventoryInv
<1> QED
  BY <1>1, <1>2 DEF StartCommand

LEMMA FinishCommandKeeps == ASSUME InventoryInv, FinishCommand PROVE InventoryInv'
<1>1. /\ stage = "commands" /\ queue \in Seq(Commands) /\ queue # <<>>
      /\ queue' = Tail(queue) /\ UNCHANGED <<project, stage, inventory>>
  BY DEF FinishCommand, Running, InventoryInv, StageInv
<1>2. Head(queue) \in Commands /\ queue' \in Seq(Commands)
      /\ ToSet(queue) = {Head(queue)} \cup ToSet(queue')
  BY <1>1, QueueSplits
<1>3. ASSUME RowsAgree',
             \A s \in Needed : s \in read \/ s \in gaps \/ (s = "go-list" /\ s \in goOutput)
                                => s \in read' \/ s \in gaps' \/ (s = "go-list" /\ s \in goOutput'),
             Head(queue) \in Needed =>
                \/ Head(queue) \in read' \/ Head(queue) \in gaps'
                \/ Head(queue) = "go-list" /\ Head(queue) \in goOutput'
      PROVE  InventoryInv'
  <2>1. Needed' = Needed
    BY <1>1 DEF Needed
  <2>2. ASSUME NEW s \in Needed PROVE s \in read' \/ s \in gaps' \/ Pending(s)'
    BY <1>1, <1>2, <1>3 DEF InventoryInv, StageInv, Pending
  <2>3. StageInv' /\ InventoryIsWhole'
    BY <1>1, <1>2, <2>1, <2>2 DEF StageInv, InventoryIsWhole
  <2> QED
    BY <1>3, <2>3 DEF InventoryInv
<1>4. CASE Head(queue) \in {"go-list", "go-graph"} /\ Succeeded
  <2>1. /\ goOutput' = goOutput \cup {Head(queue)} /\ UNCHANGED <<gaps, read, rows, held, hidden>>
    BY <1>4 DEF FinishCommand
  <2>2. RowsAgree'
    BY <2>1 DEF InventoryInv, RowsAgree
  <2>3. "go-graph" \notin Needed
    BY DEF Needed
  <2> QED
    BY <1>3, <1>4, <2>1, <2>2, <2>3
<1>5. CASE Gap(Head(queue)) /\ UNCHANGED goOutput
  BY <1>3, <1>5, GapAgrees DEF Gap
<1>6. ASSUME Succeeded, Head(queue) \notin {"go-list", "go-graph"},
             NEW r \in Printed(Head(queue)), Keep(Head(queue), r), UNCHANGED goOutput
      PROVE  InventoryInv'
  <2>1. Head(queue) \in {"npm-list", "pip-inspect", "cargo-metadata"}
    BY <1>2, <1>6 DEF Commands
  <2>2. r \in Readings(Head(queue))
    BY <1>6 DEF Printed, Succeeded
  <2>3. Truthful(r)
    BY <2>1, <2>2, NpmIsTruthful, PipIsTruthful, CargoIsTruthful DEF Readings
  <2>4. RowsAgree'
    BY <1>6, <2>3, KeepAgrees DEF InventoryInv
  <2> QED
    BY <1>3, <1>6, <2>4 DEF Keep
<1> QED
  BY <1>4, <1>5, <1>6 DEF FinishCommand

LEMMA ParseModulesKeeps == ASSUME InventoryInv, ParseModules PROVE InventoryInv'
<1>1. /\ stage = "commands" /\ queue = <<>> /\ UNCHANGED <<project, stage, queue, inventory>>
      /\ "go-list" \in read' \/ "go-list" \in gaps'
  BY DEF ParseModules, Keep, Gap
<1>2. RowsAgree'
  <2>1. ASSUME NEW r \in GoReadings["go-graph" \in goOutput], Keep("go-list", r)
        PROVE  RowsAgree'
    <3>1. ("go-graph" \in goOutput) \in BOOLEAN
      OBVIOUS
    <3>2. Truthful(r)
      BY <2>1, <3>1, GoIsTruthful
    <3> QED
      BY <2>1, <3>2, KeepAgrees DEF InventoryInv
  <2> QED
    BY <2>1, GapAgrees DEF ParseModules
<1>3. ToSet(queue) = {}
  BY <1>1 DEF ToSet
<1>4. ASSUME NEW s \in Needed' PROVE s \in read' \/ s \in gaps' \/ Pending(s)'
  <2>1. read \subseteq read' /\ gaps \subseteq gaps' /\ s \in Needed
    BY <1>1 DEF ParseModules, Keep, Gap, Needed
  <2>2. s \in read \/ s \in gaps \/ s = "go-list"
    BY <1>1, <1>3, <2>1 DEF InventoryInv, StageInv, Pending
  <2> QED
    BY <1>1, <2>1, <2>2
<1> QED
  BY <1>1, <1>2, <1>4 DEF InventoryInv, StageInv, InventoryIsWhole

LEMMA CombineKeeps == ASSUME InventoryInv, Combine PROVE InventoryInv'
<1>1. /\ stage = "commands" /\ queue = <<>> /\ "go-list" \notin goOutput /\ stage' = "done"
      /\ inventory' = [rows |-> Merged(rows), complete |-> gaps = {} /\ read # {}]
      /\ UNCHANGED <<project, queue, goOutput, gaps, read, rows, held, hidden>>
  BY DEF Combine
<1>2. ToSet(queue) = {}
  BY <1>1 DEF ToSet
<1>3. gaps = {} => Needed \subseteq read
  BY <1>1, <1>2 DEF InventoryInv, StageInv, Pending
<1>4. InventoryIsWhole'
  <2> SUFFICES ASSUME inventory'.complete
               PROVE  /\ \E seen \in SUBSET hidden' : inventory'.rows = Merged(held' \cup seen)
                      /\ (Needed \subseteq read)'
    BY DEF InventoryIsWhole
  <2>1. gaps = {} /\ inventory'.rows = Merged(rows)
    BY <1>1
  <2>2. PICK seen \in SUBSET hidden : Merged(rows) = Merged(held \cup seen)
    BY <2>1 DEF InventoryInv, RowsAgree
  <2>3. Needed' = Needed
    BY <1>1 DEF Needed
  <2> QED
    BY <1>1, <1>3, <2>1, <2>2, <2>3
<1>5. RowsAgree' /\ StageInv'
  BY <1>1 DEF InventoryInv, RowsAgree, StageInv
<1> QED
  BY <1>4, <1>5 DEF InventoryInv

LEMMA InventoryNextKeeps == ASSUME InventoryInv, [InventoryNext]_collectVars PROVE InventoryInv'
<1>1. CASE UNCHANGED inventoryVars
  BY <1>1 DEF inventoryVars, InventoryInv, RowsAgree, StageInv, Pending, Needed, InventoryIsWhole
<1>2. CASE Collect
  BY <1>2, ReadSbomKeeps, DetectKeeps, StartCommandKeeps, FinishCommandKeeps,
     ParseModulesKeeps, CombineKeeps DEF Collect
<1> QED
  BY <1>1, <1>2 DEF InventoryNext, Run, InventoryStop, collectVars

(* An inventory that calls itself complete holds every package of every     *)
(* document the evidence calls for, but for those beneath a repeated node   *)
(* of npm, for every project and every document: no order of failures,      *)
(* cut-off output and malformed rows makes a gap disappear, and the walk of *)
(* npm passes over nothing else.                                            *)
THEOREM InventoryCorrect == InventorySpec => []InventoryIsWhole
<1>1. InventoryInit => InventoryInv
  BY InventoryStarts
<1>2. InventoryInv /\ [InventoryNext]_collectVars => InventoryInv'
  BY InventoryNextKeeps
<1>3. InventoryInv => InventoryIsWhole
  BY DEF InventoryInv
<1> QED
  BY <1>1, <1>2, <1>3, PTL DEF InventorySpec

-----------------------------------------------------------------------------
(* The types.  Whatever a document says, its rows are rows.                 *)

AreRows(r) == IsRows(r.rows) /\ IsRows(r.holds) /\ IsRows(r.hides)

LEMMA MergedAreRows == ASSUME NEW R, IsRows(R) PROVE IsRows(Merged(R))
<1>1. Merged(R) \subseteq R
  BY MergedIsStrongest DEF Strongest
<1> QED
  BY <1>1 DEF IsRows

LEMMA ReadingsAreRows ==
    /\ \A r \in NpmReadings \cup PipReadings \cup CargoReadings \cup SbomReadings : AreRows(r)
    /\ \A g \in BOOLEAN : \A r \in GoReadings[g] : AreRows(r)
<1>0. IsRows({}) /\ Unknown \in Scopes
  BY DEF IsRows, Scopes
<1>1. ASSUME NEW r \in NpmReadings PROVE AreRows(r)
  <2>1. PICK d \in NpmDocs :
          \E w \in Walks(d) : r = Reading(ParseNpm(d, w), NpmHolds(d), NpmHides(d))
    BY DEF NpmReadings
  <2>2. PICK met \in Walks(d) : r = Reading(ParseNpm(d, met), NpmHolds(d), NpmHides(d))
    BY <2>1
  <2>3. met \subseteq DOMAIN d /\ Hidden(d) \subseteq DOMAIN d
    BY DEF Walks, Hidden, Beneath
  <2> DEFINE row(n) == Row(d[n].pkg, d[n].scope)
             exact == {n \in met : d[n].exact}
  <2>4. \A S \in SUBSET DOMAIN d : IsRows({row(n) : n \in S})
    BY DocumentsAssumption DEF IsRows, Row
  <2>5. /\ r.rows = Merged({row(n) : n \in exact})
        /\ r.holds = {row(n) : n \in DOMAIN d \ Hidden(d)} /\ r.hides = {row(n) : n \in Hidden(d)}
    BY <2>2 DEF Reading, ParseNpm, Build, NpmHolds, NpmHides
  <2>6. exact \in SUBSET DOMAIN d /\ DOMAIN d \ Hidden(d) \in SUBSET DOMAIN d
    BY <2>3
  <2> HIDE DEF row, exact
  <2> QED
    BY <2>3, <2>4, <2>5, <2>6, MergedAreRows DEF AreRows
<1>2. ASSUME NEW r \in PipReadings PROVE AreRows(r)
  <2>1. PICK d \in PipDocs : r = Reading(ParsePip(d), PipHolds(d), {})
    BY DEF PipReadings
  <2> DEFINE kept == {Row(i.pkg, Unknown) : i \in {j \in d : j.exact}}
  <2>2. IsRows(kept) /\ IsRows(PipHolds(d))
    BY DEF IsRows, Row, PipHolds, Scopes
  <2>3. r.rows = Merged(kept) /\ r.holds = PipHolds(d) /\ r.hides = {}
    BY <2>1 DEF Reading, ParsePip, Build
  <2> HIDE DEF kept
  <2> QED
    BY <1>0, <2>2, <2>3, MergedAreRows DEF AreRows
<1>3. ASSUME NEW r \in CargoReadings PROVE AreRows(r)
  <2>1. PICK d \in CargoDocs : r = Reading(ParseCargo(d), CargoHolds(d), {})
    BY DEF CargoReadings
  <2> DEFINE kept == {Row(d.pkg[i], DirectScope(d, i)) :
                        i \in {j \in DOMAIN d.pkg \ {d.root} : d.exact[j]}}
  <2>2. IsRows(kept) /\ IsRows(CargoHolds(d))
    BY DirectScopes DEF IsRows, Row, CargoHolds
  <2>3. r.rows = Merged(kept) /\ r.holds = CargoHolds(d) /\ r.hides = {}
    BY <2>1 DEF Reading, ParseCargo, Build
  <2> HIDE DEF kept
  <2> QED
    BY <1>0, <2>2, <2>3, MergedAreRows DEF AreRows
<1>4. ASSUME NEW r \in SbomReadings PROVE AreRows(r)
  <2>1. PICK d \in SbomDocs : r = Reading(ParseSbom(d), SbomHolds(d), {})
    BY DEF SbomReadings
  <2> DEFINE kept == {Row(c.pkg, c.scope) : c \in {k \in d.components : k.exact /\ k.ref # 0}}
  <2>2. IsRows(kept) /\ IsRows(SbomHolds(d))
    BY DocumentsAssumption DEF IsRows, Row, SbomHolds
  <2>3. r.rows = Merged(kept) /\ r.holds = SbomHolds(d) /\ r.hides = {}
    BY <2>1 DEF Reading, ParseSbom, Build
  <2> HIDE DEF kept
  <2> QED
    BY <1>0, <2>2, <2>3, MergedAreRows DEF AreRows
<1>5. ASSUME NEW g \in BOOLEAN, NEW r \in GoReadings[g] PROVE AreRows(r)
  <2>1. PICK d \in GoDocs : r = Reading(ParseGo(d), GoHolds(d), {})
    BY <1>5 DEF GoReadings
  <2> DEFINE kept == {Row(m.pkg, Unknown) : m \in {n \in d.modules : n.exact}}
  <2>2. IsRows(kept) /\ IsRows(GoHolds(d))
    BY DEF IsRows, Row, GoHolds, Scopes
  <2>3. r.rows = Merged(kept) /\ r.holds = GoHolds(d) /\ r.hides = {}
    BY <2>1 DEF Reading, ParseGo, Build
  <2> HIDE DEF kept
  <2> QED
    BY <1>0, <2>2, <2>3, MergedAreRows DEF AreRows
<1> QED
  BY <1>1, <1>2, <1>3, <1>4, <1>5

CollectedOK ==
    /\ project \in Projects
    /\ stage \in {"start", "detect", "commands", "done", "raised"}
    /\ gaps \cup read \cup goOutput \subseteq Sources
    /\ IsRows(rows) /\ IsRows(held) /\ IsRows(hidden)
    /\ IsRows(inventory.rows) /\ inventory.complete \in BOOLEAN

LEMMA KeepTypes ==
    ASSUME NEW source \in Sources, NEW r, AreRows(r), CollectedOK, Keep(source, r)
    PROVE  /\ gaps' \cup read' \subseteq Sources
           /\ IsRows(rows') /\ IsRows(held') /\ IsRows(hidden')
  BY DEF CollectedOK, AreRows, Keep, IsRows

LEMMA GapTypes ==
    ASSUME NEW source \in Sources, CollectedOK, Gap(source)
    PROVE  /\ gaps' \cup read' \subseteq Sources
           /\ IsRows(rows') /\ IsRows(held') /\ IsRows(hidden')
  BY DEF CollectedOK, Gap

LEMMA FinishCommandTypes ==
    ASSUME CollectedOK, StageInv, FinishCommand PROVE CollectedOK'
<1>1. /\ queue \in Seq(Commands) /\ queue # <<>> /\ UNCHANGED <<project, stage, inventory>>
  BY DEF FinishCommand, Running, StageInv
<1>2. Head(queue) \in Commands /\ Head(queue) \in Sources
  BY <1>1, QueueSplits DEF Commands, Sources
<1>3. CASE Head(queue) \in {"go-list", "go-graph"} /\ Succeeded
  BY <1>1, <1>2, <1>3 DEF FinishCommand, CollectedOK
<1>4. CASE Gap(Head(queue)) /\ UNCHANGED goOutput
  BY <1>1, <1>2, <1>4, GapTypes DEF CollectedOK
<1>5. ASSUME Succeeded, Head(queue) \notin {"go-list", "go-graph"},
             NEW r \in Printed(Head(queue)), Keep(Head(queue), r), UNCHANGED goOutput
      PROVE  CollectedOK'
  <2>1. r \in Readings(Head(queue))
    BY <1>5 DEF Printed, Succeeded
  <2>2. AreRows(r)
    BY <1>2, <1>5, <2>1, ReadingsAreRows DEF Readings, Commands
  <2> QED
    BY <1>1, <1>2, <1>5, <2>2, KeepTypes DEF CollectedOK
<1> QED
  BY <1>3, <1>4, <1>5 DEF FinishCommand

LEMMA CollectTypes == ASSUME CollectedOK, StageInv, Collect PROVE CollectedOK'
<1>1. CASE StartCommand
  <2>1. CASE UNCHANGED inventoryVars
    BY <2>1 DEF inventoryVars, CollectedOK
  <2>2. CASE Gap(Head(queue)) /\ UNCHANGED <<project, stage, goOutput, inventory>>
    <3>1. queue \in Seq(Commands) /\ queue # <<>>
      BY <1>1 DEF StartCommand, Running, StageInv
    <3>2. Head(queue) \in Sources
      BY <3>1, QueueSplits DEF Commands, Sources
    <3> QED
      BY <2>2, <3>2, GapTypes DEF CollectedOK
  <2> QED
    BY <1>1, <2>1, <2>2 DEF StartCommand
<1>2. CASE FinishCommand
  BY <1>2, FinishCommandTypes
<1>3. CASE ReadSbom
  <2>1. "cyclonedx" \in Sources
    BY DEF Sources
  <2>2. ASSUME NEW r \in SbomReadings, Keep("cyclonedx", r),
               IF r.complete
               THEN stage' = "done" /\ inventory' = [rows |-> r.rows, complete |-> TRUE]
               ELSE stage' = "detect" /\ UNCHANGED inventory
        PROVE  CollectedOK'
    <3>1. AreRows(r)
      BY ReadingsAreRows
    <3>2. IsRows(inventory'.rows) /\ inventory'.complete \in BOOLEAN
      <4>1. CASE r.complete
        <5>1. inventory' = [rows |-> r.rows, complete |-> TRUE]
          BY <2>2, <4>1
        <5>2. inventory'.rows = r.rows /\ inventory'.complete = TRUE
          BY <5>1
        <5> QED
          BY <3>1, <5>2 DEF AreRows
      <4>2. CASE ~r.complete
        BY <2>2, <4>2 DEF CollectedOK
      <4> QED
        BY <4>1, <4>2
    <3> QED
      BY <1>3, <2>1, <2>2, <3>1, <3>2, KeepTypes DEF ReadSbom, CollectedOK
  <2>3. CASE Gap("cyclonedx") /\ stage' = "detect" /\ UNCHANGED inventory
    BY <1>3, <2>1, <2>3, GapTypes DEF ReadSbom, CollectedOK
  <2>4. CASE stage' = "raised" /\ UNCHANGED <<gaps, read, rows, held, hidden, inventory>>
    BY <1>3, <2>4 DEF ReadSbom, CollectedOK
  <2> QED
    BY <1>3, <2>2, <2>3, <2>4 DEF ReadSbom
<1>4. CASE Detect
  BY <1>4 DEF Detect, CollectedOK, Sources
<1>5. CASE ParseModules
  <2>1. "go-list" \in Sources /\ ("go-graph" \in goOutput) \in BOOLEAN
    BY DEF Sources
  <2>2. ASSUME NEW r \in GoReadings["go-graph" \in goOutput], Keep("go-list", r)
        PROVE  CollectedOK'
    <3>1. AreRows(r)
      BY <2>1, ReadingsAreRows
    <3> QED
      BY <1>5, <2>1, <2>2, <3>1, KeepTypes DEF ParseModules, CollectedOK
  <2>3. CASE Gap("go-list")
    BY <1>5, <2>1, <2>3, GapTypes DEF ParseModules, CollectedOK
  <2> QED
    BY <1>5, <2>2, <2>3 DEF ParseModules
<1>6. CASE Combine
  BY <1>6, MergedAreRows DEF Combine, CollectedOK
<1> QED
  BY <1>1, <1>2, <1>3, <1>4, <1>5, <1>6 DEF Collect

(* Every variable of collect_inventory stays in its set, those of its       *)
(* commands included; the scopes of all rows, those of incomplete documents *)
(* too, are scopes.                                                         *)
THEOREM InventoryTypes == InventorySpec => []InventoryTypeOK
<1>1. InventoryInit => CollectedOK
  BY DEF InventoryInit, CollectedOK, NoInventory, IsRows
<1>2. CollectedOK /\ InventoryInv /\ [InventoryNext]_collectVars => CollectedOK'
  <2> SUFFICES ASSUME CollectedOK, InventoryInv, [InventoryNext]_collectVars
               PROVE  CollectedOK'
    OBVIOUS
  <2>1. CASE UNCHANGED inventoryVars
    BY <2>1 DEF inventoryVars, CollectedOK
  <2>2. CASE Collect
    BY <2>2, CollectTypes DEF InventoryInv
  <2> QED
    BY <2>1, <2>2 DEF InventoryNext, Run, InventoryStop, collectVars
<1>3. CaptureTypeOK /\ CollectedOK /\ InventoryInv => InventoryTypeOK
  <2> SUFFICES ASSUME CaptureTypeOK, CollectedOK, InventoryInv PROVE InventoryTypeOK
    OBVIOUS
  <2>1. ToSet(queue) \subseteq Sources
    BY DEF InventoryInv, StageInv, ToSet, Commands, Sources
  <2>2. {r.scope : r \in rows \cup held \cup hidden \cup inventory.rows} \subseteq Scopes
    BY DEF CollectedOK, IsRows
  <2> QED
    BY <2>1, <2>2 DEF InventoryTypeOK, CollectedOK
<1> QED
  BY <1>1, <1>2, <1>3, InventoryStarts, InventoryNextKeeps, CaptureTypes, PTL DEF InventorySpec
=============================================================================
