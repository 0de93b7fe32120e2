--------------------------- MODULE AdvisorySources ---------------------------
(***************************************************************************)
(* The advisory clients of dependency_audit/sources.py over HttpClient:    *)
(* OSV's paged batch query with one record lookup per identifier it lists, *)
(* the lookups of GitHub and NVD with NVD's prefetch in batches, and the   *)
(* KEV catalog.  Every answer is honest, damaged in a way the client can   *)
(* see, or an error; what each source holds is a constant.                 *)
(*                                                                         *)
(* An identifier is a natural number, smaller where the code's sorting     *)
(* puts it first.  A record is the source it came from, its identifier and *)
(* all identifiers it names.                                               *)
(***************************************************************************)
EXTENDS HttpClient, Sequences, FiniteSets, SequencesExt

CONSTANTS
    Ids, Ghsa, Cves,    \* identifiers; those of GitHub's and of NVD's family
    Pages,              \* by package, the pages of identifiers OSV lists for it
    OsvHolds,           \* by source, the identifiers it has a record of
    GithubHolds, NvdHolds, KevHolds,
    Names,              \* by identifier, what a record of it names besides
    MaxPages,           \* max_pages, ten
    BatchSize           \* what NVD is asked for at once, a hundred

ASSUME AdvisorySourcesAssumption ==
    /\ Ids \subseteq Nat /\ Ghsa \cup Cves \subseteq Ids /\ Ghsa \cap Cves = {}
    /\ OsvHolds \cup GithubHolds \cup NvdHolds \cup KevHolds \subseteq Ids
    /\ GithubHolds \subseteq Ghsa /\ NvdHolds \cup KevHolds \subseteq Cves
    /\ Names \in [Ids -> SUBSET Ids]
    /\ \A p \in DOMAIN Pages : Pages[p] \in Seq(SUBSET Ids) /\ Pages[p] # <<>>
    /\ MaxPages \in Nat \ {0} /\ BatchSize \in Nat \ {0}

States == {"ok", "partial", "unavailable", "not_applicable"}

VARIABLES
    active,     \* OSV: the queries of the next page, each a package and its page
    page,       \* pages asked for
    listed,     \* pairs of an identifier and a package it was listed for
    partial,
    todo,       \* the identifiers whose record is still to be fetched
    found,      \* the records
    osv,        \* the state of the OSV query
    kev,        \* the KEV catalog: its state and the identifiers read
    batches,    \* NVD: the batches still to be asked for
    prefetched, \* by CVE, what was stored of it
    sticky,     \* _prefetch_failure
    unreadable, \* the CVEs whose entry in a batch was malformed
    lookups     \* what the secondary sources and the searches were told

sourceVars == <<active, page, listed, partial, todo, found, osv, kev, batches, prefetched,
                sticky, unreadable, lookups>>

PackagesListed == DOMAIN Pages
Record(source, id) == [source |-> source, id |-> id, ids |-> {id} \cup Names[id]]

SourcesInit ==
    /\ active = <<>> /\ page = 0 /\ listed = {} /\ partial = FALSE /\ todo = {}
    /\ found = {} /\ osv = "not_applicable" /\ kev = [state |-> "not_applicable", ids |-> {}]
    /\ batches = <<>> /\ prefetched = [c \in Cves |-> "no"] /\ sticky = FALSE
    /\ unreadable = {} /\ lookups = {}

(* How a request ended: honestly, with a damaged value, or with a failure.  *)
Settle(how) ==
    CASE how = "honest" -> Answered(FALSE)
      [] how = "damaged" -> Answered(TRUE)
      [] OTHER -> Failed(how)

(* The client sleeps and asks again; nothing else has changed. *)
Again == (\E f \in {"busy", "lost"} : Repeat(f)) /\ UNCHANGED sourceVars

-----------------------------------------------------------------------------
(* OsvClient.query *)

BatchRow(q) ==
    [ids |-> Pages[q.package][q.page], sound |-> TRUE,
     more |-> IF q.page < Len(Pages[q.package]) THEN "yes" ELSE "no"]

(* A row that is not an object, one with a malformed entry or token.         *)
DamagedRows(q) ==
    {[ids |-> {}, sound |-> FALSE, more |-> "no"], [BatchRow(q) EXCEPT !.more = "bad"]}
    \cup {[BatchRow(q) EXCEPT !.ids = @ \ {id}, !.sound = FALSE] : id \in Ids}

(* The answers to one page: one row per query in its order, or with the     *)
(* last row missing, or one row damaged.                                    *)
HonestRows(queries) == [i \in 1..Len(queries) |-> BatchRow(queries[i])]

Reply(how, rows, n) == [how |-> how, rows |-> rows, short |-> Len(rows) < n]

BatchReplies(queries) ==
    LET n == Len(queries)
        honest == HonestRows(queries)
    IN  {Reply("honest", honest, n), Reply("damaged", SubSeq(honest, 1, n - 1), n)}
        \cup UNION {{Reply("damaged", [honest EXCEPT ![i] = row], n) :
                        row \in DamagedRows(queries[i])} : i \in 1..n}

QueryOsv(packages) ==
    /\ active' = SetToSeq({[package |-> p, page |-> 1] : p \in packages})
    /\ page' = 0 /\ listed' = {} /\ partial' = FALSE
    /\ osv' = IF packages = {} THEN "ok" ELSE osv

(* A slip: a row that could not be read is passed over in silence. *)
TornNever(reply) == reply.short

Torn(reply) ==
    reply.short \/ \E i \in DOMAIN reply.rows : ~reply.rows[i].sound \/ reply.rows[i].more = "bad"

(* The members of a set of positions in their order. *)
InOrder(S) ==
    {s \in [1..Cardinality(S) -> S] :
        ToSet(s) = S /\ \A i, j \in DOMAIN s : i < j => s[i] < s[j]}

Going(reply) == {i \in DOMAIN reply.rows : reply.rows[i].more = "yes"}

(* A page arrived: the queries that have a token go on, up to max_pages.    *)
PageRead ==
    /\ active # <<>>
    /\ \E reply \in BatchReplies(active) : \E going \in InOrder(Going(reply)) :
          LET next == [k \in DOMAIN going |-> [active[going[k]] EXCEPT !.page = @ + 1]]
              last == next = <<>> \/ page + 1 = MaxPages
          IN  /\ Settle(reply.how)
              /\ page' = page + 1
              /\ listed' = listed \cup UNION {reply.rows[i].ids \X {active[i].package}
                                                : i \in DOMAIN reply.rows}
              /\ partial' = (partial \/ Torn(reply) \/ (last /\ next # <<>>))
              /\ active' = IF last THEN <<>> ELSE next
              /\ todo' = IF last THEN {l[1] : l \in listed'} ELSE {}
              /\ osv' = IF ~last \/ todo' # {} THEN osv ELSE IF partial' THEN "partial" ELSE "ok"
    /\ UNCHANGED <<found, kev, batches, prefetched, sticky, unreadable, lookups>>

(* A value without results keeps what earlier pages listed; so does an      *)
(* error, unless it is the first page's.                                    *)
PageFailed ==
    /\ active # <<>> /\ active' = <<>> /\ page' = page + 1
    /\ \E how \in (Failures \ {"escaped"}) \cup {"damaged"} :
          /\ Settle(how)
          /\ IF how # "damaged" /\ page = 0
             THEN osv' = "unavailable" /\ UNCHANGED <<partial, todo>>
             ELSE /\ partial' = TRUE
                  /\ todo' = {l[1] : l \in listed}
                  /\ osv' = IF todo' = {} THEN "partial" ELSE osv
    /\ UNCHANGED <<listed, found, kev, batches, prefetched, sticky, unreadable, lookups>>

-----------------------------------------------------------------------------
(* Lookups *)

(* GitHub is asked for a CVE by a search for it, which lists every advisory *)
(* that names it: a list of one is the record, with its own identifier, a   *)
(* longer one is no record to lookup and makes the answer partial.          *)
Naming(cve) == {g \in GithubHolds : cve \in Names[g]}

Holds(source) ==
    CASE source = "osv" -> OsvHolds
      [] source = "github" -> GithubHolds \cup {c \in Cves : Naming(c) # {}}
      [] source = "nvd" -> NvdHolds

Ambiguous(source, id) ==
    source = "github" /\ id \in Cves /\ \E g, h \in Naming(id) : g # h

RecordsOf(source, id) ==
    IF id \notin Holds(source) \/ Ambiguous(source, id) THEN {}
    ELSE IF source = "github" /\ id \in Cves THEN {Record(source, g) : g \in Naming(id)}
    ELSE {Record(source, id)}

Result(how, state, records) == [how |-> how, state |-> state, records |-> records]

(* OsvClient.normalize and its siblings: what a damaged record comes to.    *)
(* Without an identifier or with another one than was asked for it gives no *)
(* record; with a malformed severity, range, reference or score the rest of *)
(* it is kept and the answer is partial.                                    *)
Normalized(held) == {Result("damaged", "partial", {}), Result("damaged", "partial", held)}

(* lookup: a record that is not there is no failure (404 of OSV and GitHub, *)
(* an empty list of GitHub and NVD).                                        *)
LookupResults(source, id) ==
    LET held == RecordsOf(source, id)
        state == IF Ambiguous(source, id) THEN "partial" ELSE "ok"
    IN  {Result("honest", state, held)} \cup Normalized(held)
        \cup {Result(f, "unavailable", {}) :
                f \in Failures \ (IF source = "nvd" THEN {} ELSE {"missing"})}

(* query fetches the record of every identifier listed, in their order.     *)
RecordFetched ==
    /\ active = <<>> /\ todo # {}
    /\ LET id == Min(todo)
       IN  \E r \in LookupResults("osv", id) :
              /\ Settle(r.how) /\ r.how # "escaped"
              /\ found' = found \cup r.records
              /\ todo' = todo \ {id}
              /\ partial' = (partial \/ r.state # "ok" \/ r.records = {})
              /\ osv' = IF todo' # {} THEN osv ELSE IF partial' THEN "partial" ELSE "ok"
    /\ UNCHANGED <<active, page, listed, kev, batches, prefetched, sticky, unreadable, lookups>>

(* What escapes the client ends the query: its caller is left with nothing  *)
(* of it, the pages and records read before included.                       *)
QueryLost ==
    /\ active # <<>> \/ todo # {}
    /\ Settle("escaped")
    /\ active' = <<>> /\ page' = 0 /\ listed' = {} /\ partial' = FALSE /\ todo' = {}
    /\ found' = {} /\ osv' = "unavailable"
    /\ UNCHANGED <<kev, batches, prefetched, sticky, unreadable, lookups>>

-----------------------------------------------------------------------------
(* NvdClient.prefetch *)

Chunks(ids) ==
    LET s == SetToSortSeq(ids, LAMBDA a, b : a < b)
        n == (Len(s) + BatchSize - 1) \div BatchSize
    IN  [k \in 1..n |-> {s[i] : i \in (k - 1) * BatchSize + 1 ..
                                        IF k = n THEN Len(s) ELSE k * BatchSize}]

(* What is stored of a batch by what its entries look like: a malformed     *)
(* entry turns into the statement that there is none.                       *)
BatchRead ==
    /\ batches # <<>> /\ batches' = Tail(batches)
    /\ \E entry \in [Head(batches) \cap NvdHolds -> {"whole", "dented", "torn"}] :
          LET torn == {c \in DOMAIN entry : entry[c] = "torn"}
          IN  /\ Settle(IF \A c \in DOMAIN entry : entry[c] = "whole" THEN "honest" ELSE "damaged")
              /\ prefetched' = [c \in Cves |->
                                  IF c \notin Head(batches) THEN prefetched[c]
                                  ELSE IF c \in DOMAIN entry \ torn THEN entry[c] ELSE "empty"]
              /\ unreadable' = unreadable \cup torn
    /\ UNCHANGED <<active, page, listed, partial, todo, found, osv, kev, sticky, lookups>>

(* The first batch that fails is the last one asked for; that it failed is  *)
(* not remembered of what escapes the client.                               *)
BatchFailed ==
    /\ batches # <<>> /\ batches' = <<>>
    /\ \E how \in Failures \cup {"damaged"} : Settle(how) /\ sticky' = (how # "escaped")
    /\ UNCHANGED <<active, page, listed, partial, todo, found, osv, kev, prefetched, unreadable,
                   lookups>>

(* A slip: a CVE that nothing was stored of is taken to have no record. *)
StoredResultEmpty(id) ==
    IF prefetched[id] = "whole" THEN Result("stored", "ok", {Record("nvd", id)})
    ELSE IF prefetched[id] = "dented" THEN Result("stored", "partial", {Record("nvd", id)})
    ELSE Result("stored", "ok", {})

(* NvdClient.lookup answers from what was stored, and after a failed        *)
(* prefetch without asking.                                                 *)
StoredResult(id) ==
    CASE prefetched[id] = "whole" -> Result("stored", "ok", {Record("nvd", id)})
      [] prefetched[id] = "dented" -> Result("stored", "partial", {Record("nvd", id)})
      [] prefetched[id] = "empty" -> Result("stored", "ok", {})
      [] OTHER -> Result("stored", "unavailable", {})

(* Whether a question is put to the server at all. *)
Requests(source, ids) ==
    ids # {} /\ ~(source = "nvd" /\ (prefetched[Min(ids)] # "no" \/ sticky))

Answers(source, id) ==
    IF Requests(source, {id}) THEN LookupResults(source, id) ELSE {StoredResult(id)}

Took(how) == IF how = "stored" THEN UNCHANGED httpVars ELSE Settle(how)

Told(source, id, r) ==
    [source |-> source, id |-> id, state |-> r.state, held |-> r.records # {}]

(* GithubClient.enrich and NvdClient.enrich: the identifiers of which they  *)
(* ask for the first.                                                       *)
Asked(source, record) ==
    IF source = "github" /\ record.ids \cap Ghsa # {} THEN record.ids \cap Ghsa
    ELSE IF source = "nvd" /\ record.id \in Cves THEN {record.id} ELSE record.ids \cap Cves

(* A record found is supplemented by what a secondary source says of it;    *)
(* where nothing can be asked the source is not applicable.                 *)
Enrich(record, source) ==
    /\ IF Asked(source, record) = {}
       THEN UNCHANGED httpVars /\ UNCHANGED <<found, lookups>>
       ELSE LET id == Min(Asked(source, record))
            IN  \E r \in Answers(source, id) :
                   /\ Took(r.how)
                   /\ lookups' = lookups \cup {Told(source, id, r)}
                   /\ found' = (found \ {record}) \cup
                               {[record EXCEPT !.ids = @ \cup UNION {k.ids : k \in r.records}]}
    /\ UNCHANGED <<active, page, listed, partial, todo, osv, kev, batches, prefetched, sticky,
                   unreadable>>

-----------------------------------------------------------------------------
(* KevClient.fetch_ids *)

KevRead ==
    /\ \/ Settle("honest") /\ kev' = [state |-> "ok", ids |-> KevHolds]
       \/ \E part \in SUBSET KevHolds :
             Settle("damaged") /\ kev' = [state |-> "partial", ids |-> part]
       \/ \E f \in Failures : Settle(f) /\ kev' = [state |-> "unavailable", ids |-> {}]
    /\ UNCHANGED <<active, page, listed, partial, todo, found, osv, batches, prefetched, sticky,
                   unreadable, lookups>>
=============================================================================
