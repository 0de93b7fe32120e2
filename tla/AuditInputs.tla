----------------------------- MODULE AuditInputs -----------------------------
(***************************************************************************)
(* Where an audit and the searches get their facts from: run_audit of      *)
(* runner.py asks OSV for the records of the packages of its inventory     *)
(* (ProjectInventory), the native auditors for their findings, the KEV     *)
(* catalog, and GitHub and NVD about every record; dependency_search.py    *)
(* runs search_package, search_advisory or search_kev of search.py.  What  *)
(* the audit makes of the answers is AuditRun.                             *)
(***************************************************************************)
EXTENDS AdvisorySources

CONSTANTS
    Inventories,    \* the sets of packages an inventory may resolve
    Searches,       \* the queries: a kind and a package or identifier
    Services,       \* the sets of secondary services a search may have
    Ecosystem       \* by package, the native auditor that covers it

Auditors == {"npm-audit", "cargo-audit", "govulncheck", "pip-audit"}

ASSUME AuditInputsAssumption ==
    /\ Ecosystem \in [PackagesListed -> Auditors]
    /\ \A I \in Inventories : I \subseteq PackagesListed /\ IsFiniteSet(I)
    /\ \A q \in Searches :
          \/ q.kind = "package" /\ q.package \in PackagesListed \ {""}
          \/ q.kind = "advisory" /\ q.id \in Ids /\ q.package = ""
          \/ q.kind = "kev" /\ q.package = ""

VARIABLES
    task,       \* "audit", or a query
    packages,   \* the packages OSV is asked for
    services,   \* the secondary services that are configured
    phase,      \* which of its services the task asks next
    wanted,     \* what it still has to ask them
    native,     \* by auditor, the state of its answer
    verdict,    \* AdvisorySearchResult.status
    member      \* kev_member

taskVars == <<task, packages, services, phase, wanted, native, verdict, member>>
clientVars == <<httpVars, sourceVars>>
vars == <<taskVars, clientVars>>

Audit == [kind |-> "audit", id |-> 0, package |-> ""]

Phases == {"osv", "native", "kev", "prefetch", "enrich", "calls", "follow", "done"}

TypeOK ==
    /\ HttpTypeOK /\ packages \subseteq PackagesListed
    /\ task \in Searches \cup {Audit} /\ phase \in Phases
    /\ {partial, sticky} \subseteq BOOLEAN
    /\ osv \in States /\ kev.state \in States /\ kev.ids \subseteq Cves
    /\ listed \subseteq Ids \X DOMAIN Pages /\ todo \subseteq Ids
    /\ prefetched \in [Cves -> {"no", "empty", "dented", "whole"}]
    /\ native \in [Auditors -> States]
    /\ verdict \in {"none", "complete", "unavailable"}

First(t) ==
    CASE t.kind \in {"audit", "package"} -> "osv"
      [] t.kind = "kev" -> "kev" [] t.kind = "advisory" -> "calls"

(* search_advisory: the source that owns the identifier must answer, and    *)
(* those it is looked up in first.                                          *)
Owner(id) == IF id \in Ghsa THEN "github" ELSE IF id \in Cves THEN "nvd" ELSE "osv"
Calls(id) ==
    <<"osv">> \o (IF id \in Ghsa \cup Cves THEN <<"github">> ELSE <<>>)
    \o (IF id \in Cves THEN <<"nvd">> ELSE <<>>)

Init ==
    /\ task \in Searches \cup {Audit}
    /\ services = {"github", "nvd"} \/ (services \in Services /\ task # Audit)
    /\ phase = First(task)
    /\ wanted = IF task.kind = "advisory" THEN Calls(task.id) ELSE <<>>
    /\ native = [a \in Auditors |-> "not_applicable"] /\ verdict = "none" /\ member = FALSE
    /\ packages \in IF task = Audit THEN Inventories ELSE {{task.package} \ {""}}
    /\ HttpInit /\ SourcesInit

-----------------------------------------------------------------------------
(* The audit *)

(* An audit asks for the packages resolved, whether those are all or not; a *)
(* search asks for the one package it was given.                            *)
AskOsv ==
    /\ phase = "osv" /\ osv = "not_applicable" /\ page = 0 /\ active = <<>>
    /\ QueryOsv(packages)
    /\ UNCHANGED taskVars
    /\ UNCHANGED <<httpVars, todo, found, kev, batches, prefetched, sticky, unreadable, lookups>>

OsvStep ==
    /\ phase = "osv" /\ (PageRead \/ PageFailed \/ RecordFetched \/ QueryLost)
    /\ UNCHANGED taskVars

Applicable == {a \in Auditors : \E p \in packages : Ecosystem[p] = a}

(* The secondary sources in S, in the order in which they are asked. *)
Secondary(S) ==
    (IF "github" \in S THEN <<"github">> ELSE <<>>) \o (IF "nvd" \in S THEN <<"nvd">> ELSE <<>>)

(* GithubClient and NvdClient supplement every record of OSV: the audit     *)
(* asks both for one record after the other, a search one after the other   *)
(* for all records.                                                         *)
Supplements ==
    LET ids == SetToSortSeq({r.id : r \in found}, LAMBDA a, b : a < b)
        asked == Secondary(services)
    IN  IF task = Audit
        THEN FlattenSeq([i \in DOMAIN ids |-> [k \in DOMAIN asked |-> <<ids[i], asked[k]>>]])
        ELSE FlattenSeq([k \in DOMAIN asked |-> [i \in DOMAIN ids |-> <<ids[i], asked[k]>>]])

OsvDone ==
    /\ phase = "osv" /\ active = <<>> /\ todo = {} /\ osv # "not_applicable"
    /\ IF task = Audit
       THEN phase' = "native" /\ wanted' = SetToSeq(Applicable)
       ELSE phase' = "enrich" /\ wanted' = Supplements
    /\ listed' = {} /\ partial' = FALSE /\ page' = 0
    /\ UNCHANGED <<task, packages, services, native, verdict, member, httpVars, active, todo, found,
                   osv, kev, batches, prefetched, sticky, unreadable, lookups>>

(* _run_native_audits, with what run_command may return for an auditor: the *)
(* exits that are documented, whether exit 1 says that there are findings,  *)
(* and an answer that is partial if it cannot be parsed or the exit denies  *)
(* it.  Exit 2 stands for every other code, those of run_command included.  *)
CommandCodes == {0, 1, 2}
Documented(a) == IF a = "govulncheck" THEN {0} ELSE {0, 1}
Signals(a) == a # "govulncheck"

RunAuditor ==
    /\ phase = "native" /\ wanted # <<>> /\ wanted' = Tail(wanted)
    /\ LET a == Head(wanted)
       IN  \/ native' = [native EXCEPT ![a] = "unavailable"]
          \/ \E c \in CommandCodes, malformed, findings \in BOOLEAN :
                native' = [native EXCEPT ![a] =
                              IF c \notin Documented(a) THEN "unavailable"
                              ELSE IF malformed \/ (Signals(a) /\ (c = 1) # findings)
                                   THEN "partial" ELSE "ok"]
    /\ UNCHANGED <<task, packages, services, phase, verdict, member, clientVars>>

NativeDone ==
    /\ phase = "native" /\ wanted = <<>> /\ phase' = "kev"
    /\ UNCHANGED <<task, packages, services, wanted, native, verdict, member, clientVars>>

(* KEV, then NVD's prefetch for the CVEs that the records name.             *)
AuditKev ==
    /\ phase = "kev" /\ task = Audit /\ kev.state = "not_applicable" /\ KevRead
    /\ phase' = "prefetch"
    /\ UNCHANGED <<task, packages, services, wanted, native, verdict, member>>

AskBatches ==
    /\ phase = "prefetch"
    /\ batches' = Chunks(UNION {r.ids \cap Cves : r \in found})
    /\ phase' = "enrich" /\ wanted' = Supplements
    /\ UNCHANGED <<task, packages, services, native, verdict, member, httpVars, active, page,
                   listed, partial, todo, found, osv, kev, prefetched, sticky, unreadable, lookups>>

PrefetchStep ==
    /\ phase = "enrich" /\ (BatchRead \/ BatchFailed)
    /\ UNCHANGED taskVars

EnrichStep ==
    /\ phase = "enrich" /\ batches = <<>> /\ wanted # <<>>
    /\ wanted' = Tail(wanted)
    /\ \E r \in found : r.id = Head(wanted)[1] /\ Enrich(r, Head(wanted)[2])
    /\ UNCHANGED <<task, packages, services, phase, native, verdict, member>>

-----------------------------------------------------------------------------
(* The searches *)

(* A slip: a partial answer of the source that matters completes a search.  *)
CompletesLoose(state) == state \in {"ok", "partial"}

Completes(state) == state = "ok"

Verdict(state) == IF Completes(state) THEN "complete" ELSE "unavailable"

Finish ==
    /\ phase = "enrich" /\ batches = <<>> /\ wanted = <<>> /\ phase' = "done"
    /\ verdict' = IF task = Audit THEN verdict ELSE Verdict(osv)
    /\ UNCHANGED <<task, packages, services, wanted, native, member, clientVars>>

(* Membership is unknown unless the whole catalog was read. *)
SearchKev ==
    /\ phase = "kev" /\ task.kind = "kev" /\ KevRead
    /\ phase' = "done" /\ verdict' = Verdict(kev'.state)
    /\ member' = (Completes(kev'.state) /\ task.id \in kev'.ids)
    /\ UNCHANGED <<task, packages, services, wanted, native>>

(* A lookup of the searches, of which the answer is kept.                   *)
Lookup(source, id) ==
    /\ \E r \in Answers(source, id) :
          /\ Took(r.how)
          /\ lookups' = lookups \cup {Told(source, id, r)}
          /\ found' = found \cup r.records
    /\ UNCHANGED <<active, page, listed, partial, todo, osv, kev, batches, prefetched, sticky,
                   unreadable>>

Configured(source) == source = "osv" \/ source \in services

Call ==
    /\ phase = "calls" /\ wanted # <<>> /\ wanted' = Tail(wanted)
    /\ IF Configured(Head(wanted)) THEN Lookup(Head(wanted), task.id) ELSE UNCHANGED clientVars
    /\ UNCHANGED <<task, packages, services, phase, native, verdict, member>>

Known == UNION {r.ids : r \in found}
Called == ToSet(Calls(task.id)) \cap (services \cup {"osv"})

Followed(source) ==
    IF source = "github" /\ Known \cap Ghsa # {} THEN Known \cap Ghsa ELSE Known \cap Cves

(* Identifiers that the records name are followed into the sources that     *)
(* were not asked: GitHub for a GHSA or else a CVE, then NVD for a CVE.     *)
Follow ==
    /\ phase = "calls" /\ wanted = <<>> /\ phase' = "follow"
    /\ wanted' = Secondary(services \ Called)
    /\ UNCHANGED <<task, packages, services, native, verdict, member, clientVars>>

FollowStep ==
    /\ phase = "follow" /\ wanted # <<>> /\ wanted' = Tail(wanted)
    /\ IF Followed(Head(wanted)) = {} THEN UNCHANGED clientVars
       ELSE Lookup(Head(wanted), Min(Followed(Head(wanted))))
    /\ UNCHANGED <<task, packages, services, phase, native, verdict, member>>

OwnerState ==
    LET said == {l.state : l \in {k \in lookups : k.source = Owner(task.id) /\ k.id = task.id}}
    IN  IF said = {} THEN "unavailable" ELSE CHOOSE s \in said : TRUE

FollowDone ==
    /\ phase = "follow" /\ wanted = <<>> /\ phase' = "done"
    /\ verdict' = Verdict(OwnerState)
    /\ UNCHANGED <<task, packages, services, wanted, native, member, clientVars>>

(* Every request may have to be repeated first. *)
Asking ==
    \/ phase = "osv" /\ (active # <<>> \/ todo # {})
    \/ phase = "kev" \/ (phase = "enrich" /\ batches # <<>>)
    \/ phase = "calls" /\ wanted # <<>> /\ Configured(Head(wanted))
    \/ /\ phase = "enrich" /\ batches = <<>> /\ wanted # <<>>
       /\ \E r \in found : /\ r.id = Head(wanted)[1]
                          /\ Requests(Head(wanted)[2], Asked(Head(wanted)[2], r))
    \/ phase = "follow" /\ wanted # <<>> /\ Requests(Head(wanted), Followed(Head(wanted)))

Retry == Asking /\ Again /\ UNCHANGED taskVars

Stop == phase = "done" /\ UNCHANGED vars

Advance ==
    \/ AskOsv \/ OsvStep \/ OsvDone \/ RunAuditor \/ NativeDone \/ AuditKev
    \/ AskBatches \/ PrefetchStep \/ EnrichStep \/ Finish \/ SearchKev \/ Call \/ Follow
    \/ FollowStep \/ FollowDone \/ Retry

Next == Advance \/ Stop

Spec == Init /\ [][Next]_vars

-----------------------------------------------------------------------------
(* Properties *)

Pairs == {l \in Ids \X packages : \E k \in DOMAIN Pages[l[2]] : l[1] \in Pages[l[2]][k]}
FetchedOf(source) == {r.id : r \in {f \in found : f.source = source}}
OsvIsOver == phase = "osv" /\ active = <<>> /\ todo = {} /\ osv # "not_applicable"

(* An advisory is only tied to a package OSV listed it for, and OSV counts  *)
(* as answered only if every page of every package was read and the record  *)
(* of every identifier on them is there: a short answer, a malformed row, a *)
(* page limit or a failed lookup somewhere in the chain leaves it partial   *)
(* (OsvClient.query).                                                       *)
OsvAnswerIsWhole ==
    OsvIsOver => /\ listed \subseteq Pairs
                 /\ osv = "ok" => listed = Pairs /\ FetchedOf("osv") = {l[1] : l \in listed}

(* A search that completes with nothing means there is nothing: the source  *)
(* that owns the identifier was asked and holds no record, the catalog was  *)
(* read whole, every advisory of the package was found (search.py:133, 186, *)
(* 259).                                                                    *)
AbsenceIsReal ==
    verdict = "complete" =>
        CASE task.kind = "advisory" ->
                task.id \in Holds(Owner(task.id)) =>
                    \E r \in found : r.source = Owner(task.id) /\ task.id \in r.ids
          [] task.kind = "kev" -> member <=> task.id \in KevHolds
          [] task.kind = "package" -> {l[1] : l \in Pairs} \subseteq FetchedOf("osv")

(* What no retry could be blamed for costs nothing: as long as no request   *)
(* failed MaxAttempts times and no answer was damaged, every source is      *)
(* answered and every search completes, except for pages over the limit, an *)
(* identifier OSV lists without having it, a source not configured, and a   *)
(* CVE that several advisories of GitHub name, whose list GithubClient      *)
(* takes for a malformed answer.                                            *)
FailureIsEarned ==
    phase = "done" /\ ~earned =>
        /\ \A l \in lookups : l.state = "ok" \/ Ambiguous(l.source, l.id)
        /\ task.kind \in {"audit", "package"} =>
              \/ osv = "ok"
              \/ \E p \in packages : Len(Pages[p]) > MaxPages
              \/ \E l \in Pairs : l[1] \notin OsvHolds
        /\ task.kind = "kev" => verdict = "complete"
        /\ task.kind = "advisory" => verdict = "complete" \/ ~Configured(Owner(task.id))
        /\ task = Audit => kev = [state |-> "ok", ids |-> KevHolds]

(* A secondary source that is said to have nothing on a record has nothing, *)
(* also when its answer was prefetched in a batch or a batch failed half    *)
(* way; an entry of a batch that could not be read is the exception.        *)
NoMatchIsReal ==
    \A l \in lookups : l.state = "ok" /\ ~l.held =>
        l.id \notin Holds(l.source) \/ (l.source = "nvd" /\ l.id \in unreadable)
=============================================================================
