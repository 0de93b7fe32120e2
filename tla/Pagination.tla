------------------------------ MODULE Pagination ------------------------------
(***************************************************************************)
(* ResourceManager.list: follow a listing's next links from page to page,  *)
(* with a cycle check, a page limit and an origin check on every link; and *)
(* the managers' own listings, which read one page and no more.  A page    *)
(* stands for the items it embeds.                                         *)
(***************************************************************************)
EXTENDS Integers, Sequences

CONSTANTS
    Pages,     \* paths a next link may name
    First,     \* the path list starts from
    Foreign,   \* those of another origin
    Limit      \* _MAX_LIST_PAGES

\* What a page may have for a next link other than a path: none, or one that is malformed.
Ends == {"none", "malformed"}

ASSUME PaginationAssumption ==
    /\ First \in Pages
    /\ Foreign \subseteq Pages \ {First}
    /\ Limit \in Nat \ {0}
    /\ Ends \cap Pages = {}

VARIABLES
    reader,    \* "list", or "page" for list_by_app, list_for_account and the like
    next,      \* the server's links
    path,      \* next_path; "none" for None
    seen,      \* seen_paths
    items,     \* the pages read, in order
    turns,     \* iterations of the loop so far
    ended

listVars == <<reader, next, path, seen, items, turns, ended>>

ListInit ==
    /\ reader \in {"list", "page"}
    /\ next \in [Pages -> Pages \cup Ends]
    /\ path = First /\ seen = {} /\ items = <<>> /\ turns = 0
    /\ ended = "none"

------------------------------------------------------------------------------

Exhausted(n) == n >= Limit

IsMalformed(link) == link = "malformed"

CycleAt(p) == p \in seen

\* _build_url refuses to send the bearer token to another origin.
Refused(p) == p \in Foreign

Raise(why) == ended' = why /\ UNCHANGED <<reader, next, path, seen, items, turns>>

Reading == reader = "list" /\ ended = "none"

\* A slip: the loop's end is taken for the listing's.
LimitEndsQuietly == Reading /\ Exhausted(turns) /\ Raise("listed")

\* The loop ran out of turns without a break.
LimitReached ==
    /\ Reading /\ Exhausted(turns)
    /\ Raise("limit")

Break ==
    /\ Reading /\ ~Exhausted(turns) /\ path = "none"
    /\ ended' = "listed"
    /\ UNCHANGED <<reader, next, path, seen, items, turns>>

CycleFound ==
    /\ Reading /\ ~Exhausted(turns) /\ path # "none" /\ CycleAt(path)
    /\ Raise("cycle")

\* One iteration that sends a request, up to the end of the loop's body.
ReadPage ==
    /\ Reading /\ ~Exhausted(turns) /\ path # "none" /\ ~CycleAt(path)
    /\ seen' = seen \cup {path}
    /\ \/ /\ Refused(path)
          /\ ended' = "foreign"
          /\ UNCHANGED <<path, items, turns>>
       \/ /\ ~Refused(path)
          /\ ended' = "error"
          /\ UNCHANGED <<path, items, turns>>
       \/ /\ ~Refused(path)
          /\ items' = Append(items, path)
          /\ IF IsMalformed(next[path])
               THEN ended' = "malformed" /\ UNCHANGED <<path, turns>>
               ELSE path' = next[path] /\ turns' = turns + 1 /\ UNCHANGED ended
    /\ UNCHANGED <<reader, next>>

\* A listing of one page: its next link is not looked at.
ReadOnePage ==
    /\ reader = "page" /\ ended = "none"
    /\ \/ items' = <<First>> /\ ended' = "listed"
       \/ UNCHANGED items /\ ended' = "error"
    /\ UNCHANGED <<reader, next, path, seen, turns>>

ListNext == ReadOnePage \/ LimitReached \/ Break \/ CycleFound \/ ReadPage

ListSpec == ListInit /\ [][ListNext]_listVars

------------------------------------------------------------------------------
(* Properties. *)

\* Every variable stays in its set.
ListTypeOK ==
    /\ reader \in {"list", "page"}
    /\ next \in [Pages -> Pages \cup Ends]
    /\ path \in Pages \cup {"none"}
    /\ seen \subseteq Pages
    /\ items \in Seq(Pages)
    /\ turns \in Nat
    /\ ended \in {"none", "listed", "cycle", "foreign", "malformed", "limit", "error"}

\* ResourceManager.list returns a listing only if it is the whole chain: from the first page
\* link by link, none twice and none of another origin, to a page without a next link.
ListedIsComplete ==
    ended = "listed" /\ reader = "list" =>
        /\ items # <<>> /\ items[1] = First /\ next[items[Len(items)]] = "none"
        /\ \A i \in 1..Len(items) - 1 : items[i + 1] = next[items[i]]
        /\ \A i, j \in 1..Len(items) : items[i] = items[j] => i = j
        /\ \A i \in 1..Len(items) : items[i] \notin Foreign
==============================================================================
