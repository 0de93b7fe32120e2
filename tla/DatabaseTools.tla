----------------------------- MODULE DatabaseTools -----------------------------
(***************************************************************************)
(* The database tools of the MCP server, run as concurrent calls against   *)
(* one platform: getDatabase's handle resolution, the tools that act on    *)
(* the database it finds, createDatabase, and the tools whose operation    *)
(* makes a new database that is then discovered by handle.                 *)
(*                                                                         *)
(* One action is what a call does between two awaits.  Waiting for an      *)
(* operation is OperationResolution, which OperationWait implements.  The  *)
(* platform may list a new database late and may hold namesakes, so what   *)
(* is shown holds whether or not it enforces unique handles.               *)
(***************************************************************************)
EXTENDS Integers, FiniteSets

CONSTANTS
    Calls,       \* concurrent tool calls; the database a call makes bears its name
    OldDbs,      \* databases that exist before the calls
    Handles, Accounts,
    NoAccount, NoDb,
    Backed,      \* the database the backup to restore was taken from
    Requests,    \* what the calls may ask for, records as in RequestType
    Attempts     \* DATABASE_DISCOVERY_ATTEMPTS

Dbs == OldDbs \cup Calls

\* Tools that resolve a handle first, and tools that end by discovering a database.
Makers   == {"clone", "replicate", "restore"}
ByHandle == {"clone", "replicate", "rename", "delete", "operate"}
Tools    == Makers \cup ByHandle \cup {"create"}

\* handle, scope: getDatabase's arguments, or the account a create or restore names.
\* backup: which relation of the backup to restore exposes its account.
RequestType ==
    [tool: Tools, handle: Handles, scope: Accounts \cup {NoAccount}, newHandle: Handles,
     backup: {"account", "database", "none"}]

ASSUME DatabaseToolsAssumption ==
    /\ OldDbs \cap Calls = {} /\ NoDb \notin Dbs
    /\ NoAccount \notin Accounts
    /\ Backed \in OldDbs
    /\ Requests \subseteq RequestType
    /\ \A r \in Requests : r.tool = "create" => r.scope \in Accounts
    /\ Attempts \in Nat \ {0}

VARIABLES
    \* the platform
    dbs,        \* databases that exist
    removed,    \* databases that were deprovisioned
    listed,     \* databases a listing may show
    handleOf, accountOf,
    op, gone,   \* the status of each call's operation, and whether its record is gone
    \* the calls
    req, pc, subject, target, existing, tries, result, outcome

platform == <<dbs, removed, listed, handleOf, accountOf, op, gone>>
vars     == <<platform, req, pc, subject, target, existing, tries, result, outcome>>

FirstStep(tool) ==
    CASE tool = "restore" -> "scope" [] tool = "create" -> "register" [] OTHER -> "lookup"

Init ==
    /\ dbs = OldDbs /\ removed = {} /\ listed = OldDbs
    /\ handleOf \in [Dbs -> Handles]
    /\ accountOf \in [Dbs -> Accounts]
    \* what a database not yet made has is of no consequence: one value for each
    /\ \A c, d \in Calls : handleOf[c] = handleOf[d] /\ accountOf[c] = accountOf[d]
    /\ \A c \in Calls : handleOf[c] = handleOf[Backed] /\ accountOf[c] = accountOf[Backed]
    /\ op = [c \in Calls |-> "none"] /\ gone = [c \in Calls |-> FALSE]
    /\ req \in [Calls -> Requests]
    /\ pc = [c \in Calls |-> FirstStep(req[c].tool)]
    /\ subject = [c \in Calls |-> NoDb]
    /\ target = [c \in Calls |-> NoAccount]
    /\ existing = [c \in Calls |-> {}]
    /\ tries = [c \in Calls |-> 0]
    /\ result = [c \in Calls |-> NoDb]
    /\ outcome = [c \in Calls |-> "none"]

------------------------------------------------------------------------------
(* What the tools compute from a listing. *)

Listing == dbs \cap listed

Named(handle)           == {d \in Listing : handleOf[d] = handle}
NamedIn(handle, account) == {d \in Named(handle) : accountOf[d] = account}

\* A slip: the account handle is not applied.
UnscopedMatches(handle, account) == Named(handle)

\* The databases getDatabase may return; it raises if there is none.
Resolve(handle, account) ==
    IF account # NoAccount THEN NamedIn(handle, account)
    ELSE IF Cardinality(Named(handle)) = 1 THEN Named(handle) ELSE {}

\* The account a database has after getDatabase dumped it and the tool parsed the dump:
\* model_dump drops the links the account is computed from.
AccountAfterDump(d) == NoAccount

\* A slip: an old namesake or another account's is a candidate too.
AnyNamesake(c) == Named(req[c].newHandle)

\* The candidates of one discovery attempt.
Discoverable(c) == NamedIn(req[c].newHandle, target[c]) \ existing[c]

------------------------------------------------------------------------------
(* The steps of a call. *)

Goto(c, where) == pc' = [pc EXCEPT ![c] = where]

End(c, how) == Goto(c, "over") /\ outcome' = [outcome EXCEPT ![c] = how]

AfterLookup(tool) ==
    CASE tool = "rename" -> "put" [] tool = "delete" -> "check" [] OTHER -> "post"

\* getDatabase, and for a maker the account of the source as the tool sees it.
Lookup(c) ==
    LET found == Resolve(req[c].handle, req[c].scope)
    IN  /\ pc[c] = "lookup"
        /\ \/ found = {} /\ End(c, "unresolved") /\ UNCHANGED <<subject, target>>
           \/ \E d \in found :
                /\ subject' = [subject EXCEPT ![c] = d]
                /\ IF req[c].tool \in Makers
                     THEN /\ target' = [target EXCEPT ![c] = AccountAfterDump(d)]
                          /\ IF AccountAfterDump(d) = NoAccount
                               THEN End(c, "no account relation")
                               ELSE Goto(c, "snapshot") /\ UNCHANGED outcome
                     ELSE /\ Goto(c, AfterLookup(req[c].tool))
                          /\ UNCHANGED <<target, outcome>>
        /\ UNCHANGED <<platform, req, existing, tries, result>>

\* What _restore_account_id may return: the destination, or the account the backup or
\* its source database exposes.  It raises if there is none.
RestoreAccount(c) ==
    IF req[c].scope # NoAccount THEN {req[c].scope}
    ELSE IF \/ req[c].backup = "account"
            \/ req[c].backup = "database" /\ Backed \in dbs
         THEN {accountOf[Backed]} ELSE {}

ResolveScope(c) ==
    /\ pc[c] = "scope"
    /\ \/ /\ RestoreAccount(c) = {}
          /\ End(c, "unresolved")
          /\ UNCHANGED target
       \/ \E a \in RestoreAccount(c) :
             /\ target' = [target EXCEPT ![c] = a]
             /\ Goto(c, "snapshot")
             /\ UNCHANGED outcome
    /\ UNCHANGED <<platform, req, subject, existing, tries, result>>

\* _snapshot_database_ids
Snapshot(c) ==
    /\ pc[c] = "snapshot"
    /\ existing' = [existing EXCEPT ![c] = NamedIn(req[c].newHandle, target[c])]
    /\ Goto(c, "post")
    /\ UNCHANGED <<platform, req, subject, target, tries, result, outcome>>

\* The GET of DatabaseManager.delete.
CheckExists(c) ==
    /\ pc[c] = "check"
    /\ \/ subject[c] \in dbs /\ Goto(c, "post") /\ UNCHANGED outcome
       \/ subject[c] \notin dbs /\ End(c, "error")
    /\ UNCHANGED <<platform, req, subject, target, existing, tries, result>>

\* The POST of the operation: accepted, accepted with the answer lost, or not accepted.
Post(c) ==
    /\ pc[c] = "post"
    /\ \/ /\ req[c].tool # "restore" => subject[c] \in dbs
          /\ op' = [op EXCEPT ![c] = "running"]
          /\ \/ Goto(c, "wait") /\ UNCHANGED outcome
             \/ End(c, "error")
       \/ UNCHANGED op /\ End(c, "error")
    /\ UNCHANGED <<dbs, removed, listed, handleOf, accountOf, gone, req, subject, target,
                   existing, tries, result>>

\* The POST of createDatabase that registers the database, with the same three ends.
Register(c) ==
    /\ pc[c] = "register"
    /\ \/ /\ dbs' = dbs \cup {c}
          /\ handleOf' = [handleOf EXCEPT ![c] = req[c].newHandle]
          /\ accountOf' = [accountOf EXCEPT ![c] = req[c].scope]
          /\ \/ Goto(c, "post") /\ subject' = [subject EXCEPT ![c] = c] /\ UNCHANGED outcome
             \/ End(c, "error") /\ UNCHANGED subject
       \/ UNCHANGED <<dbs, handleOf, accountOf, subject>> /\ End(c, "error")
    /\ UNCHANGED <<removed, listed, op, gone, req, target, existing, tries, result>>

\* DatabaseManager.rename
Put(c) ==
    /\ pc[c] = "put"
    /\ \/ /\ subject[c] \in dbs
          /\ handleOf' = [handleOf EXCEPT ![subject[c]] = req[c].newHandle]
          /\ End(c, "returned") \/ End(c, "error")
       \/ UNCHANGED handleOf /\ End(c, "error")
    /\ UNCHANGED <<dbs, removed, listed, accountOf, op, gone, req, subject, target, existing,
                   tries, result>>

\* What a wait for the operation of call c may come to.
Wait(c) == INSTANCE OperationResolution
             WITH op <- op[c], gone <- gone[c], outcome <- outcome[c]

\* A slip: an operation that failed or is late is taken for done.
MayProceedAlways(how) == how # "error"

MayProceed(how) == how = "returned"

AfterWait(tool) ==
    CASE tool \in Makers -> "discover" [] tool = "operate" -> "refetch" [] OTHER -> "over"

WaitEnds(c) ==
    /\ pc[c] = "wait"
    /\ \E how \in Wait(c)!Permitted :
          IF MayProceed(how) /\ AfterWait(req[c].tool) # "over"
            THEN Goto(c, AfterWait(req[c].tool)) /\ UNCHANGED outcome
            ELSE End(c, IF MayProceed(how) THEN "returned" ELSE how)
    /\ UNCHANGED <<platform, req, subject, target, existing, tries, result>>

\* The get_by_id at the end of _run_operation.
Refetch(c) ==
    /\ pc[c] = "refetch"
    /\ End(c, IF subject[c] \in dbs THEN "returned" ELSE "error")
    /\ UNCHANGED <<platform, req, subject, target, existing, tries, result>>

NextTry(n) == n + 1

TriesLeft(c) == tries[c] + 1 < Attempts

\* One attempt of _find_new_database.
Discover(c) ==
    /\ pc[c] = "discover"
    /\ \/ \E d \in Discoverable(c) :
             /\ Discoverable(c) = {d}
             /\ result' = [result EXCEPT ![c] = d]
             /\ End(c, "returned")
             /\ UNCHANGED tries
       \/ /\ Cardinality(Discoverable(c)) > 1 \/ (Discoverable(c) = {} /\ ~TriesLeft(c))
          /\ End(c, "undiscovered")
          /\ UNCHANGED <<tries, result>>
       \/ /\ Discoverable(c) = {} /\ TriesLeft(c)
          /\ tries' = [tries EXCEPT ![c] = NextTry(@)]
          /\ UNCHANGED <<pc, result, outcome>>
    /\ UNCHANGED <<platform, req, subject, target, existing>>

\* A GET of the lookups above fails and its exception ends the call.
GetFails(c) ==
    /\ pc[c] \in {"lookup", "scope", "snapshot", "check", "refetch", "discover"}
    /\ End(c, "error")
    /\ UNCHANGED <<platform, req, subject, target, existing, tries, result>>

------------------------------------------------------------------------------
(* The platform, outside the repository. *)

\* Where the database that call c asks for comes to be.
Destination(c) ==
    IF req[c].tool = "restore"
      THEN IF req[c].scope # NoAccount THEN req[c].scope ELSE accountOf[Backed]
      ELSE accountOf[subject[c]]

Running(c) == op[c] = "running" /\ ~gone[c]

Succeed(c) == op' = [op EXCEPT ![c] = "succeeded"]

OpMakes(c) ==
    /\ Running(c) /\ req[c].tool \in Makers
    /\ Succeed(c)
    /\ dbs' = dbs \cup {c}
    /\ handleOf' = [handleOf EXCEPT ![c] = req[c].newHandle]
    /\ accountOf' = [accountOf EXCEPT ![c] = Destination(c)]
    /\ UNCHANGED <<removed, listed, gone>>

\* A deprovision takes the records of the operations on the database with it.
OpRemoves(c) ==
    /\ Running(c) /\ req[c].tool = "delete"
    /\ Succeed(c)
    /\ dbs' = dbs \ {subject[c]}
    /\ removed' = removed \cup {subject[c]}
    /\ gone' = [b \in Calls |-> gone[b] \/ (op[b] # "none" /\ subject[b] = subject[c])]
    /\ UNCHANGED <<listed, handleOf, accountOf>>

OpWorks(c) ==
    /\ Running(c) /\ req[c].tool \in {"operate", "create"}
    /\ Succeed(c)
    /\ UNCHANGED <<dbs, removed, listed, handleOf, accountOf, gone>>

OpFails(c) ==
    /\ Running(c)
    /\ op' = [op EXCEPT ![c] = "failed"]
    /\ UNCHANGED <<dbs, removed, listed, handleOf, accountOf, gone>>

Appear(d) ==
    /\ d \in dbs \ listed
    /\ listed' = listed \cup {d}
    /\ UNCHANGED <<dbs, removed, handleOf, accountOf, op, gone>>

Platform ==
    /\ \/ \E c \in Calls : OpMakes(c) \/ OpRemoves(c) \/ OpWorks(c) \/ OpFails(c)
       \/ \E d \in Dbs : Appear(d)
    /\ UNCHANGED <<req, pc, subject, target, existing, tries, result, outcome>>

Step(c) ==
    \/ Lookup(c) \/ ResolveScope(c) \/ Snapshot(c) \/ CheckExists(c) \/ Post(c)
    \/ Register(c) \/ Put(c) \/ WaitEnds(c) \/ Refetch(c) \/ Discover(c)

Next == Platform \/ \E c \in Calls : Step(c) \/ GetFails(c)

Spec == Init /\ [][Next]_vars

------------------------------------------------------------------------------
(* Properties. *)

\* Every variable stays in its set.
TypeOK ==
    /\ dbs \subseteq Dbs /\ removed \subseteq Dbs /\ listed \subseteq Dbs
    /\ handleOf \in [Dbs -> Handles] /\ accountOf \in [Dbs -> Accounts]
    /\ op \in [Calls -> {"none", "running", "succeeded", "failed"}]
    /\ gone \in [Calls -> BOOLEAN]
    /\ req \in [Calls -> Requests]
    /\ pc \in [Calls -> {"lookup", "scope", "snapshot", "check", "post", "register", "put",
                         "wait", "refetch", "discover", "over"}]
    /\ subject \in [Calls -> Dbs \cup {NoDb}]
    /\ target \in [Calls -> Accounts \cup {NoAccount}]
    /\ existing \in [Calls -> SUBSET Dbs]
    /\ tries \in [Calls -> 0..Attempts - 1]
    /\ result \in [Calls -> Dbs \cup {NoDb}]
    /\ outcome \in [Calls -> {"none", "unresolved", "no account relation", "error",
                              "returned", "failed", "timeout", "undiscovered"}]

\* Another call gives the handle that c is to make to a database of the same account.
Contended(c) ==
    \E b \in Calls \ {c} :
        /\ req[b].newHandle = req[c].newHandle
        /\ \/ req[b].tool \in {"create", "restore"} /\ b \in dbs \cup removed
                 /\ accountOf[b] = target[c]
           \/ req[b].tool = "rename" /\ subject[b] # NoDb
                 /\ accountOf[subject[b]] = target[c]

\* The database a restore returns is the one its own operation made, whatever namesakes
\* there are, unless another call gave the same handle to one of the same account.
ReturnsOwnDatabase ==
    \A c \in Calls : result[c] # NoDb /\ ~Contended(c) => result[c] = c

\* A database is deprovisioned only by a call that asked for its account or for none.
RemovesOnlyInScope ==
    \A d \in removed : \E c \in Calls :
        /\ req[c].tool = "delete" /\ subject[c] = d
        /\ req[c].scope \in {NoAccount, accountOf[d]}

\* A call that returned has what it returned for: a deleted database no longer exists,
\* and a made one was made, by an operation that succeeded.
ReturnedIsDone ==
    \A c \in Calls : outcome[c] = "returned" =>
        /\ req[c].tool = "delete" => subject[c] \in removed \ dbs
        /\ req[c].tool \in Makers => op[c] = "succeeded" /\ c \in dbs \cup removed
        /\ req[c].tool = "create" => op[c] = "succeeded" \/ subject[c] \in removed

\* cloneDatabase and replicateDatabase fail for want of an account relation only if the
\* source exposes none; here every database does.
AccountRelationExposed == \A c \in Calls : outcome[c] # "no account relation"
==============================================================================
