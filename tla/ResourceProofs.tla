--------------------------- MODULE ResourceProofs ----------------------------
(***************************************************************************)
(* The resource managers, for any set of concurrent calls, databases,      *)
(* pages and links: a call that returned has what it returned for, a       *)
(* database is deprovisioned only in the scope that was asked for, a       *)
(* restore returns the database its own operation made, and a listing that *)
(* is returned is the whole listing.                                       *)
(***************************************************************************)
EXTENDS DatabaseTools, Pagination, TLAPS

------------------------------------------------------------------------------
(* The invariant. *)

\* A database that exists or existed.
Known == dbs \cup removed

\* The places a call of each tool goes through.
Places(tool) ==
    CASE tool = "create"  -> {"register", "post", "wait", "over"}
      [] tool = "restore" -> {"scope", "snapshot", "post", "wait", "discover", "over"}
      [] tool = "rename"  -> {"lookup", "put", "over"}
      [] tool = "delete"  -> {"lookup", "check", "post", "wait", "over"}
      [] tool = "operate" -> {"lookup", "post", "wait", "refetch", "over"}
      [] OTHER            -> {"lookup", "over"}

PlaceOK(c) ==
    /\ pc[c] \in Places(req[c].tool)
    /\ op[c] # "none" => pc[c] \in {"wait", "refetch", "discover", "over"}
    /\ op[c] # "none" => req[c].tool \in {"delete", "operate", "create", "restore"}
    /\ pc[c] \in {"lookup", "register"} => subject[c] = NoDb
    /\ outcome[c] = "returned" \/ result[c] # NoDb => pc[c] = "over"

SubjectOK(c) ==
    /\ req[c].tool = "restore" => subject[c] = NoDb
    /\ subject[c] # NoDb => subject[c] \in Known
    /\ op[c] # "none" /\ req[c].tool # "restore" => subject[c] # NoDb

\* The scope a delete was given still fits the database it found.
ScopeOK(c) ==
    req[c].tool = "delete" /\ subject[c] # NoDb =>
        req[c].scope \in {NoAccount, accountOf[subject[c]]}

\* Which calls have made their database.
MadeOK(c) ==
    /\ c \in Known => req[c].tool \in {"create", "restore"}
    /\ pc[c] = "register" => c \notin Known
    /\ req[c].tool = "restore" => (c \in Known <=> op[c] = "succeeded")

\* What the status of an operation says.
StatusOK(c) ==
    /\ gone[c] => op[c] # "none" /\ subject[c] \in removed
    /\ req[c].tool = "delete" /\ op[c] = "succeeded" => subject[c] \in removed
    /\ pc[c] = "discover" => op[c] = "succeeded"

ReturnedOK(c) ==
    outcome[c] = "returned" =>
        /\ req[c].tool = "delete"  => subject[c] \in removed
        /\ req[c].tool = "restore" => op[c] = "succeeded"
        /\ req[c].tool = "create"  => op[c] = "succeeded" \/ subject[c] \in removed
        /\ req[c].tool \notin {"clone", "replicate"}

\* A database made by a call bears the handle that call gave it, or that of a rename.
HandleOK(c) ==
    c \in Known =>
        \/ handleOf[c] = req[c].newHandle
        \/ \E r \in Calls : /\ req[r].tool = "rename" /\ subject[r] = c
                            /\ handleOf[c] = req[r].newHandle

\* A namesake that was there before the calls is in the snapshot of a restore.
SnapshotOK(c) ==
    req[c].tool = "restore" /\ pc[c] \in {"post", "wait", "discover"} =>
        \A d \in OldDbs \cap dbs :
            /\ handleOf[d] = req[c].newHandle
            /\ accountOf[d] = target[c]
            => d \in existing[c] \/ Contended(c)

ResultOK(c) == result[c] # NoDb => result[c] = c \/ Contended(c)

PlatformOK ==
    /\ removed \cap dbs = {}
    /\ OldDbs \subseteq listed
    /\ \A d \in removed : \E c \in Calls :
          req[c].tool = "delete" /\ subject[c] = d /\ op[c] # "none"

\* What a call is at, apart from handles.
CallOK(c) ==
    /\ PlaceOK(c) /\ SubjectOK(c) /\ ScopeOK(c) /\ MadeOK(c) /\ StatusOK(c) /\ ReturnedOK(c)

\* The same, and that namesakes are told apart.
NamesOK(c) == HandleOK(c) /\ SnapshotOK(c) /\ ResultOK(c)

DbInv ==
    /\ TypeOK
    /\ PlatformOK
    /\ \A c \in Calls : CallOK(c)
    /\ \A c \in Calls : NamesOK(c)

------------------------------------------------------------------------------
(* Types. *)

\* The calls begin in their sets.
LEMMA TypeStarts == Init => TypeOK
<1> SUFFICES ASSUME Init PROVE TypeOK
  OBVIOUS
<1>1. \A c \in Calls : req[c].tool \in Tools
  BY DatabaseToolsAssumption DEF Init, RequestType
<1>2. \A tool \in Tools : FirstStep(tool) \in {"lookup", "scope", "register"}
  BY DEF FirstStep, Tools, Makers, ByHandle
<1>3. pc \in [Calls -> {"lookup", "scope", "snapshot", "check", "post", "register", "put",
                        "wait", "refetch", "discover", "over"}]
  BY <1>1, <1>2 DEF Init
<1>4. 0 \in 0..Attempts - 1
  BY DatabaseToolsAssumption
<1> QED
  BY <1>3, <1>4 DEF Init, TypeOK, Dbs

\* What the requests of the calls are.
LEMMA RequestOf ==
    ASSUME TypeOK, NEW c \in Calls
    PROVE  /\ req[c] \in RequestType
           /\ req[c].tool \in Tools /\ req[c].newHandle \in Handles
           /\ req[c].scope \in Accounts \cup {NoAccount}
           /\ req[c].tool = "create" => req[c].scope \in Accounts
<1>1. req[c] \in Requests
  BY DEF TypeOK
<1> QED
  BY <1>1, DatabaseToolsAssumption DEF RequestType

\* Where a call of each tool can be, and which tools start an operation.
LEMMA ToolAt ==
    ASSUME TypeOK, NEW c \in Calls, CallOK(c)
    PROVE  /\ pc[c] = "register" <=> req[c].tool = "create" /\ pc[c] \notin {"post", "wait", "over"}
           /\ pc[c] \in {"scope", "snapshot", "discover"} => req[c].tool = "restore"
           /\ pc[c] = "put" => req[c].tool = "rename"
           /\ pc[c] = "check" => req[c].tool = "delete"
           /\ pc[c] = "refetch" => req[c].tool = "operate"
           /\ pc[c] = "lookup" => req[c].tool \in ByHandle
           /\ pc[c] \in {"post", "wait"} =>
                 req[c].tool \in {"create", "restore", "delete", "operate"}
           /\ op[c] = "running" /\ req[c].tool \in Makers => req[c].tool = "restore"
<1> req[c].tool \in Tools
  BY RequestOf
<1> QED
  BY DEF CallOK, PlaceOK, Places, Tools, Makers, ByHandle

\* Where the next place after a lookup lies, and after a wait.
LEMMA PlacesAfter ==
    /\ \A tool \in ByHandle \ Makers : AfterLookup(tool) \in {"put", "check", "post"}
    /\ \A tool \in Tools : AfterWait(tool) \in {"discover", "refetch", "over"}
  BY DEF AfterLookup, AfterWait, Tools, Makers, ByHandle

\* A database is looked up among those that exist, and in the scope that was asked for.
LEMMA Resolved ==
    ASSUME NEW handle, NEW account, NEW d \in Resolve(handle, account)
    PROVE  /\ d \in dbs /\ d \in listed
           /\ account \in {NoAccount, accountOf[d]}
  BY DEF Resolve, NamedIn, Named, Listing

\* What a lookup comes to: it fails, or it finds a database and goes on.
LEMMA LookupIs ==
    ASSUME NEW c, Lookup(c)
    PROVE  /\ pc[c] = "lookup"
           /\ \/ End(c, "unresolved") /\ UNCHANGED <<subject, target>>
              \/ \E d \in Resolve(req[c].handle, req[c].scope) :
                    /\ subject' = [subject EXCEPT ![c] = d]
                    /\ \/ /\ req[c].tool \in Makers
                          /\ target' = [target EXCEPT ![c] = NoAccount]
                          /\ End(c, "no account relation")
                       \/ /\ req[c].tool \notin Makers
                          /\ Goto(c, AfterLookup(req[c].tool))
                          /\ UNCHANGED <<target, outcome>>
           /\ UNCHANGED <<dbs, removed, listed, handleOf, accountOf, op, gone>>
           /\ UNCHANGED <<req, existing, tries, result>>
  BY DEF Lookup, AccountAfterDump, platform

\* Every step of the platform keeps the types.
LEMMA TypeKeptByPlatform ==
    ASSUME TypeOK, \A c \in Calls : CallOK(c), Platform
    PROVE  TypeOK'
<1>1. UNCHANGED <<req, pc, subject, target, existing, tries, result, outcome>>
  BY DEF Platform
<1>2. ASSUME NEW c \in Calls, OpMakes(c) PROVE TypeOK'
  <2>1. req[c].tool = "restore" /\ req[c].newHandle \in Handles
        /\ req[c].scope \in Accounts \cup {NoAccount}
    BY <1>2, RequestOf, ToolAt DEF OpMakes, Running
  <2>2. Destination(c) \in Accounts
    BY <2>1, DatabaseToolsAssumption DEF Destination, TypeOK, Dbs
  <2>3. handleOf' \in [Dbs -> Handles] /\ accountOf' \in [Dbs -> Accounts]
        /\ dbs' \subseteq Dbs /\ op' \in [Calls -> {"none", "running", "succeeded", "failed"}]
    BY <1>2, <2>1, <2>2 DEF OpMakes, Succeed, TypeOK, Dbs
  <2> QED
    BY <1>1, <1>2, <2>3 DEF OpMakes, TypeOK
<1>3. ASSUME NEW c \in Calls, OpRemoves(c) PROVE TypeOK'
  <2>1. subject[c] \in Dbs
    <3>1. op[c] # "none" /\ req[c].tool # "restore"
      BY <1>3 DEF OpRemoves, Running
    <3>2. subject[c] # NoDb
      BY <3>1 DEF CallOK, SubjectOK
    <3> QED
      BY <3>2 DEF TypeOK
  <2>2. gone' \in [Calls -> BOOLEAN]
    BY <1>3 DEF OpRemoves, TypeOK
  <2>3. dbs' \subseteq Dbs /\ removed' \subseteq Dbs
        /\ op' \in [Calls -> {"none", "running", "succeeded", "failed"}]
    BY <1>3, <2>1 DEF OpRemoves, Succeed, TypeOK
  <2> QED
    BY <1>1, <1>3, <2>2, <2>3 DEF OpRemoves, TypeOK
<1>4. ASSUME NEW c \in Calls, OpWorks(c) \/ OpFails(c) PROVE TypeOK'
  BY <1>1, <1>4 DEF OpWorks, OpFails, Succeed, TypeOK
<1>5. ASSUME NEW d \in Dbs, Appear(d) PROVE TypeOK'
  BY <1>1, <1>5 DEF Appear, TypeOK
<1> QED
  BY <1>2, <1>3, <1>4, <1>5 DEF Platform

\* Every step of a call keeps the types.
LEMMA TypeKeptByCall ==
    ASSUME TypeOK, \A c \in Calls : CallOK(c), NEW c \in Calls, Step(c) \/ GetFails(c)
    PROVE  TypeOK'
<1> DEFINE PlacesOf == {"lookup", "scope", "snapshot", "check", "post", "register", "put",
                        "wait", "refetch", "discover", "over"}
           Endings == {"none", "unresolved", "no account relation", "error",
                    "returned", "failed", "timeout", "undiscovered"}
<1> USE DEF Goto, End
<1>1. CASE Lookup(c)
  <2>1. req[c].tool \in ByHandle
    BY <1>1, ToolAt DEF Lookup
  <2>2. req[c].tool \notin Makers => AfterLookup(req[c].tool) \in PlacesOf
    BY <2>1, PlacesAfter
  <2>3. CASE End(c, "unresolved") /\ UNCHANGED <<subject, target>>
    BY <1>1, <2>3, LookupIs DEF TypeOK
  <2>4. ASSUME NEW d \in Resolve(req[c].handle, req[c].scope),
               subject' = [subject EXCEPT ![c] = d],
               req[c].tool \in Makers,
               target' = [target EXCEPT ![c] = NoAccount],
               End(c, "no account relation")
        PROVE  TypeOK'
    <3>1. d \in Dbs
      BY Resolved DEF TypeOK
    <3> QED
      BY <1>1, <2>4, <3>1, LookupIs DEF TypeOK
  <2>5. ASSUME NEW d \in Resolve(req[c].handle, req[c].scope),
               subject' = [subject EXCEPT ![c] = d],
               req[c].tool \notin Makers,
               Goto(c, AfterLookup(req[c].tool)),
               UNCHANGED <<target, outcome>>
        PROVE  TypeOK'
    <3>1. d \in Dbs
      BY Resolved DEF TypeOK
    <3> QED
      BY <1>1, <2>2, <2>5, <3>1, LookupIs DEF TypeOK
  <2> HIDE DEF Goto, End
  <2> QED
    BY <1>1, <2>3, <2>4, <2>5, LookupIs
<1>2. CASE ResolveScope(c)
  <2>1. RestoreAccount(c) \subseteq Accounts
    <3>1. accountOf[Backed] \in Accounts
      BY DatabaseToolsAssumption DEF TypeOK, Dbs
    <3>2. req[c].scope # NoAccount => req[c].scope \in Accounts
      BY RequestOf
    <3> QED
      BY <3>1, <3>2 DEF RestoreAccount
  <2> QED
    BY <1>2, <2>1 DEF ResolveScope, platform, TypeOK
<1>3. CASE Snapshot(c)
  <2>1. NamedIn(req[c].newHandle, target[c]) \subseteq Dbs
    BY DEF NamedIn, Named, Listing, TypeOK
  <2>2. existing' \in [Calls -> SUBSET Dbs] /\ pc' \in [Calls -> PlacesOf]
    BY <1>3, <2>1 DEF Snapshot, TypeOK
  <2> QED
    BY <1>3, <2>2 DEF Snapshot, platform, TypeOK
<1>4. CASE CheckExists(c)
  BY <1>4 DEF CheckExists, platform, TypeOK
<1>5. CASE Post(c)
  BY <1>5 DEF Post, TypeOK
<1>6. CASE Register(c)
  <2>1. req[c].scope \in Accounts /\ req[c].newHandle \in Handles
    BY <1>6, ToolAt, RequestOf DEF Register
  <2>2. c \in Dbs
    BY DEF Dbs
  <2>3. dbs' \subseteq Dbs /\ handleOf' \in [Dbs -> Handles]
        /\ accountOf' \in [Dbs -> Accounts]
    BY <1>6, <2>1, <2>2 DEF Register, TypeOK
  <2>4. subject' \in [Calls -> Dbs \cup {NoDb}]
    BY <1>6, <2>2 DEF Register, TypeOK
  <2>5. pc' \in [Calls -> PlacesOf] /\ outcome' \in [Calls -> Endings]
    BY <1>6 DEF Register, TypeOK
  <2> QED
    BY <1>6, <2>3, <2>4, <2>5 DEF Register, TypeOK
<1>7. CASE Put(c)
  <2>1. req[c].newHandle \in Handles
    BY RequestOf
  <2> QED
    BY <1>7, <2>1 DEF Put, TypeOK
<1>8. CASE WaitEnds(c)
  <2>1. PICK how \in Wait(c)!Permitted :
            IF MayProceed(how) /\ AfterWait(req[c].tool) # "over"
              THEN Goto(c, AfterWait(req[c].tool)) /\ UNCHANGED outcome
              ELSE End(c, IF MayProceed(how) THEN "returned" ELSE how)
    BY <1>8 DEF WaitEnds
  <2>2. how \in Endings
    BY DEF Wait!Permitted
  <2>3. AfterWait(req[c].tool) \in PlacesOf
    BY PlacesAfter, RequestOf
  <2>4. pc' \in [Calls -> PlacesOf] /\ outcome' \in [Calls -> Endings]
    BY <2>1, <2>2, <2>3 DEF TypeOK
  <2> QED
    BY <1>8, <2>4 DEF WaitEnds, platform, TypeOK
<1>9. CASE Refetch(c)
  BY <1>9 DEF Refetch, platform, TypeOK
<1>10. CASE Discover(c)
  <2>1. Discoverable(c) \subseteq Dbs
    BY DEF Discoverable, NamedIn, Named, Listing, TypeOK
  <2>2. ASSUME TriesLeft(c) PROVE NextTry(tries[c]) \in 0..Attempts - 1
    <3>1. tries[c] \in 0..Attempts - 1 /\ Attempts \in Nat
      BY DatabaseToolsAssumption DEF TypeOK
    <3> QED
      BY <2>2, <3>1 DEF TriesLeft, NextTry
  <2>3. tries' \in [Calls -> 0..Attempts - 1]
    BY <1>10, <2>2 DEF Discover, TypeOK
  <2>4. result' \in [Calls -> Dbs \cup {NoDb}]
    BY <1>10, <2>1 DEF Discover, TypeOK
  <2>5. pc' \in [Calls -> PlacesOf] /\ outcome' \in [Calls -> Endings]
    BY <1>10 DEF Discover, TypeOK
  <2> QED
    BY <1>10, <2>3, <2>4, <2>5 DEF Discover, platform, TypeOK
<1>11. CASE GetFails(c)
  BY <1>11 DEF GetFails, platform, TypeOK
<1> QED
  BY <1>1, <1>2, <1>3, <1>4, <1>5, <1>6, <1>7, <1>8, <1>9, <1>10, <1>11 DEF Step

------------------------------------------------------------------------------
(* What no step takes back. *)

\* Databases stay known and stay in their account, a call keeps the database it found,
\* and an operation that succeeded has succeeded.
Keeps ==
    /\ req' = req
    /\ removed \subseteq removed' /\ Known \subseteq Known'
    /\ \A d \in Known : accountOf'[d] = accountOf[d]
    /\ \A c \in Calls : subject[c] # NoDb => subject'[c] = subject[c]
    /\ \A c \in Calls : op[c] # "none" => op'[c] # "none"
    /\ \A c \in Calls : op[c] = "succeeded" => op'[c] = "succeeded"

\* A call that is as it was.
Same(b) ==
    /\ pc'[b] = pc[b] /\ subject'[b] = subject[b] /\ target'[b] = target[b]
    /\ existing'[b] = existing[b] /\ result'[b] = result[b] /\ outcome'[b] = outcome[b]
    /\ op'[b] = op[b] /\ gone'[b] = gone[b]

\* A step of a call takes nothing back and leaves the other calls as they were.
LEMMA CallKeeps ==
    ASSUME TypeOK, \A b \in Calls : CallOK(b), NEW c \in Calls, Step(c) \/ GetFails(c)
    PROVE  /\ Keeps
           /\ \A b \in Calls \ {c} : Same(b)
           /\ removed' = removed /\ listed' = listed /\ gone' = gone
           /\ dbs' = dbs \/ (Register(c) /\ dbs' = dbs \cup {c})
<1> USE DEF Goto, End
<1>1. op[c] # "none" => pc[c] \in {"wait", "refetch", "discover", "over"}
  BY DEF CallOK, PlaceOK
<1>2. CASE Lookup(c)
  <2>1. subject[c] = NoDb
    BY <1>2, LookupIs DEF CallOK, PlaceOK
  <2>2. /\ UNCHANGED <<dbs, removed, listed, handleOf, accountOf, op, gone>>
        /\ UNCHANGED <<req, existing, tries, result>>
    BY <1>2, LookupIs
  <2>3. \A b \in Calls \ {c} : pc'[b] = pc[b] /\ outcome'[b] = outcome[b]
    <3>1. (\E where : pc' = [pc EXCEPT ![c] = where])
          /\ (outcome' = outcome \/ \E how : outcome' = [outcome EXCEPT ![c] = how])
      BY <1>2 DEF Lookup
    <3> QED
      BY <3>1 DEF TypeOK
  <2>4. \A b \in Calls \ {c} : subject'[b] = subject[b] /\ target'[b] = target[b]
    <3>1. (subject' = subject \/ \E d : subject' = [subject EXCEPT ![c] = d])
          /\ (target' = target \/ \E a : target' = [target EXCEPT ![c] = a])
      BY <1>2 DEF Lookup
    <3> QED
      BY <3>1 DEF TypeOK
  <2> QED
    BY <2>1, <2>2, <2>3, <2>4 DEF Keeps, Same, Known
<1>3. CASE ResolveScope(c)
  BY <1>3 DEF ResolveScope, platform, Keeps, Same, Known, TypeOK
<1>4. CASE Snapshot(c)
  BY <1>4 DEF Snapshot, platform, Keeps, Same, Known, TypeOK
<1>5. CASE CheckExists(c)
  BY <1>5 DEF CheckExists, platform, Keeps, Same, Known, TypeOK
<1>6. CASE Post(c)
  BY <1>1, <1>6 DEF Post, Keeps, Same, Known, TypeOK
<1>7. CASE Register(c)
  <2>1. c \notin Known
    BY <1>7 DEF Register, CallOK, MadeOK
  <2>2. subject[c] = NoDb \/ subject[c] \in Known
    BY DEF CallOK, SubjectOK
  <2>3. \A d \in Known : accountOf'[d] = accountOf[d]
    BY <1>7, <2>1 DEF Register, TypeOK, Known
  <2>4. pc[c] = "register" /\ req[c].tool = "create"
    BY <1>7, ToolAt DEF Register
  <2>5. subject[c] # NoDb => subject[c] = c
    BY <2>4 DEF CallOK, PlaceOK
  <2>6. \A b \in Calls : subject[b] # NoDb => subject'[b] = subject[b]
    BY <1>7, <2>5 DEF Register, TypeOK
  <2>7. \A b \in Calls \ {c} : Same(b)
    BY <1>7 DEF Register, Same, TypeOK
  <2>8. /\ removed' = removed /\ listed' = listed /\ gone' = gone /\ op' = op /\ req' = req
        /\ dbs' = dbs \/ (Register(c) /\ dbs' = dbs \cup {c})
    BY <1>7 DEF Register
  <2> QED
    BY <2>3, <2>6, <2>7, <2>8 DEF Keeps, Known
<1>8. CASE Put(c)
  BY <1>8 DEF Put, Keeps, Same, Known, TypeOK
<1>9. CASE WaitEnds(c)
  BY <1>9 DEF WaitEnds, platform, Keeps, Same, Known, TypeOK
<1>10. CASE Refetch(c)
  BY <1>10 DEF Refetch, platform, Keeps, Same, Known, TypeOK
<1>11. CASE Discover(c)
  BY <1>11 DEF Discover, platform, Keeps, Same, Known, TypeOK
<1>12. CASE GetFails(c)
  BY <1>12 DEF GetFails, platform, Keeps, Same, Known, TypeOK
<1> QED
  BY <1>2, <1>3, <1>4, <1>5, <1>6, <1>7, <1>8, <1>9, <1>10, <1>11, <1>12 DEF Step

\* A step of the platform takes nothing back.
LEMMA PlatformKeeps ==
    ASSUME TypeOK, \A b \in Calls : CallOK(b), Platform
    PROVE  Keeps
<1>1. UNCHANGED <<req, pc, subject, target, existing, tries, result, outcome>>
  BY DEF Platform
<1>2. ASSUME NEW c \in Calls, OpMakes(c) PROVE Keeps
  <2>1. c \notin Known
    BY <1>2, ToolAt DEF OpMakes, Running, CallOK, MadeOK
  <2>2. \A d \in Known : accountOf'[d] = accountOf[d]
    BY <1>2, <2>1 DEF OpMakes, TypeOK, Known
  <2>3. \A b \in Calls : op'[b] = op[b] \/ (op[b] = "running" /\ op'[b] = "succeeded")
    BY <1>2 DEF OpMakes, Running, Succeed, TypeOK
  <2> QED
    BY <1>1, <1>2, <2>2, <2>3 DEF OpMakes, Keeps, Known
<1>3. ASSUME NEW c \in Calls, OpRemoves(c) PROVE Keeps
  <2>1. \A b \in Calls : op'[b] = op[b] \/ (op[b] = "running" /\ op'[b] = "succeeded")
    BY <1>3 DEF OpRemoves, Running, Succeed, TypeOK
  <2> QED
    BY <1>1, <1>3, <2>1 DEF OpRemoves, Keeps, Known
<1>4. ASSUME NEW c \in Calls, OpWorks(c) \/ OpFails(c) PROVE Keeps
  <2>1. \A b \in Calls :
            op'[b] = op[b] \/ (op[b] = "running" /\ op'[b] \in {"succeeded", "failed"})
    BY <1>4 DEF OpWorks, OpFails, Running, Succeed, TypeOK
  <2> QED
    BY <1>1, <1>4, <2>1 DEF OpWorks, OpFails, Keeps, Known
<1>5. ASSUME NEW d \in Dbs, Appear(d) PROVE Keeps
  BY <1>1, <1>5 DEF Appear, Keeps, Known
<1> QED
  BY <1>2, <1>3, <1>4, <1>5 DEF Platform

\* A call that is as it was, and has made no database meanwhile, stays in order.
LEMMA SameKept ==
    ASSUME TypeOK, NEW b \in Calls, CallOK(b), Keeps, Same(b), b \in Known' => b \in Known
    PROVE  CallOK(b)'
<1> USE DEF Keeps, Same
<1>1. PlaceOK(b)'
  BY DEF CallOK, PlaceOK
<1>2. SubjectOK(b)'
  BY DEF CallOK, SubjectOK
<1>3. ScopeOK(b)'
  BY DEF CallOK, ScopeOK, SubjectOK
<1>4. MadeOK(b)'
  BY DEF CallOK, MadeOK
<1>5. StatusOK(b)'
  BY DEF CallOK, StatusOK
<1>6. ReturnedOK(b)'
  BY DEF CallOK, ReturnedOK
<1> QED
  BY <1>1, <1>2, <1>3, <1>4, <1>5, <1>6 DEF CallOK

\* A call that stops short of returning stays in order.
LEMMA StopKept ==
    ASSUME TypeOK, NEW c \in Calls, CallOK(c), NEW how, how # "returned", End(c, how),
           Keeps, subject'[c] = subject[c], op'[c] = op[c], gone'[c] = gone[c],
           result'[c] = result[c], c \in Known' => c \in Known
    PROVE  CallOK(c)'
<1> USE DEF Keeps
<1>1. pc'[c] = "over" /\ outcome'[c] = how
  BY DEF End, Goto, TypeOK
<1>2. req'[c].tool \in Tools
  BY RequestOf
<1>3. PlaceOK(c)'
  <2>1. "over" \in Places(req'[c].tool)
    BY <1>2 DEF Places, Tools, Makers, ByHandle
  <2> QED
    BY <1>1, <2>1 DEF CallOK, PlaceOK
<1>4. SubjectOK(c)'
  BY DEF CallOK, SubjectOK
<1>5. ScopeOK(c)'
  BY DEF CallOK, ScopeOK, SubjectOK
<1>6. MadeOK(c)'
  BY <1>1 DEF CallOK, MadeOK
<1>7. StatusOK(c)'
  BY <1>1 DEF CallOK, StatusOK
<1>8. ReturnedOK(c)'
  BY <1>1 DEF ReturnedOK
<1> QED
  BY <1>3, <1>4, <1>5, <1>6, <1>7, <1>8 DEF CallOK

\* A call that goes on, and has changed nothing else, stays in order.
LEMMA GoKept ==
    ASSUME TypeOK, NEW c \in Calls, CallOK(c), NEW where, Goto(c, where), outcome' = outcome,
           where \in Places(req[c].tool), where \notin {"lookup", "register", "over"},
           pc[c] # "over", op[c] # "none" => where \in {"wait", "refetch", "discover"},
           where = "discover" => op[c] = "succeeded",
           Keeps, subject'[c] = subject[c], op'[c] = op[c], gone'[c] = gone[c],
           result'[c] = result[c], c \in Known' => c \in Known
    PROVE  CallOK(c)'
<1> USE DEF Keeps
<1>1. pc'[c] = where /\ outcome'[c] = outcome[c]
  BY DEF Goto, TypeOK
<1>3. PlaceOK(c)'
  BY <1>1 DEF CallOK, PlaceOK
<1>4. SubjectOK(c)'
  BY DEF CallOK, SubjectOK
<1>5. ScopeOK(c)'
  BY DEF CallOK, ScopeOK, SubjectOK
<1>6. MadeOK(c)'
  BY <1>1 DEF CallOK, MadeOK
<1>7. StatusOK(c)'
  BY <1>1 DEF CallOK, StatusOK
<1>8. ReturnedOK(c)'
  BY <1>1 DEF CallOK, ReturnedOK
<1> QED
  BY <1>3, <1>4, <1>5, <1>6, <1>7, <1>8 DEF CallOK

\* A call is in order after each of its own steps.
LEMMA CallKept ==
    ASSUME TypeOK, \A b \in Calls : CallOK(b),
           NEW c \in Calls, Step(c) \/ GetFails(c)
    PROVE  CallOK(c)'
<1>0. Keeps /\ removed' = removed /\ gone' = gone
      /\ (dbs' = dbs \/ (Register(c) /\ dbs' = dbs \cup {c}))
  BY CallKeeps
<1>00. CallOK(c) /\ req[c].tool \in Tools
  BY RequestOf
<1>1. CASE Lookup(c)
  <2>1. /\ pc[c] = "lookup" /\ op' = op /\ result' = result /\ dbs' = dbs
        /\ accountOf' = accountOf /\ req' = req
    BY <1>1, LookupIs
  <2>2. subject[c] = NoDb /\ op[c] = "none" /\ result[c] = NoDb /\ outcome[c] # "returned"
    BY <1>00, <2>1 DEF CallOK, PlaceOK
  <2>3. CASE End(c, "unresolved") /\ UNCHANGED <<subject, target>>
    BY <1>0, <1>00, <2>1, <2>3, StopKept DEF Known
  <2>4. ASSUME NEW d \in Resolve(req[c].handle, req[c].scope),
               subject' = [subject EXCEPT ![c] = d],
               NEW where, pc' = [pc EXCEPT ![c] = where],
               where \in Places(req[c].tool), where \notin {"lookup", "register", "discover"},
               NEW how, outcome'[c] = how, how # "returned"
        PROVE  CallOK(c)'
    <3>1. subject'[c] = d /\ d \in Known /\ req[c].scope \in {NoAccount, accountOf[d]}
      BY <2>4, Resolved DEF TypeOK, Known
    <3>2. pc'[c] = where
      BY <2>4 DEF TypeOK
    <3>3. req[c].tool # "restore"
      BY <1>00, <2>1, ToolAt DEF ByHandle
    <3>4. PlaceOK(c)'
      BY <2>1, <2>2, <2>4, <3>2 DEF PlaceOK
    <3>5. SubjectOK(c)'
      BY <2>1, <2>2, <3>1, <3>3, <1>0 DEF SubjectOK, Known
    <3>6. ScopeOK(c)'
      BY <2>1, <3>1 DEF ScopeOK
    <3>7. MadeOK(c)'
      BY <1>0, <1>00, <2>1, <2>4, <3>2 DEF CallOK, MadeOK, Known
    <3>8. StatusOK(c)'
      BY <1>0, <1>00, <2>1, <2>2, <2>4, <3>2 DEF CallOK, StatusOK
    <3>9. ReturnedOK(c)'
      BY <2>4 DEF ReturnedOK
    <3> QED
      BY <3>4, <3>5, <3>6, <3>7, <3>8, <3>9 DEF CallOK
  <2>5. ASSUME NEW d \in Resolve(req[c].handle, req[c].scope),
               subject' = [subject EXCEPT ![c] = d],
               req[c].tool \in Makers, End(c, "no account relation")
        PROVE  CallOK(c)'
    <3>1. pc' = [pc EXCEPT ![c] = "over"] /\ outcome'[c] = "no account relation"
      BY <2>5 DEF End, Goto, TypeOK
    <3>2. "over" \in Places(req[c].tool)
      BY <1>00 DEF Places, Tools, Makers, ByHandle
    <3> QED
      BY <2>4, <2>5, <3>1, <3>2
  <2>6. ASSUME NEW d \in Resolve(req[c].handle, req[c].scope),
               subject' = [subject EXCEPT ![c] = d],
               req[c].tool \notin Makers, Goto(c, AfterLookup(req[c].tool)),
               outcome' = outcome
        PROVE  CallOK(c)'
    <3>1. pc' = [pc EXCEPT ![c] = AfterLookup(req[c].tool)] /\ outcome'[c] # "returned"
      BY <2>2, <2>6 DEF Goto
    <3>2. req[c].tool \in ByHandle \ Makers
      BY <1>00, <2>1, <2>6, ToolAt
    <3>3. AfterLookup(req[c].tool) \in Places(req[c].tool)
          /\ AfterLookup(req[c].tool) \notin {"lookup", "register", "discover"}
      BY <3>2 DEF Places, AfterLookup, Makers, ByHandle
    <3> HIDE DEF Resolve
    <3> QED
      BY <2>4, <2>6, <3>1, <3>3
  <2> QED
    BY <1>1, <2>3, <2>5, <2>6, LookupIs
<1>2. CASE ResolveScope(c)
  <2>1. /\ pc[c] = "scope" /\ dbs' = dbs /\ op' = op /\ subject' = subject /\ result' = result
        /\ (End(c, "unresolved") \/ (Goto(c, "snapshot") /\ outcome' = outcome))
    BY <1>2 DEF ResolveScope, platform
  <2>2. "snapshot" \in Places(req[c].tool) /\ op[c] = "none"
    BY <1>00, <2>1, ToolAt DEF Places, CallOK, PlaceOK
  <2> QED
    BY <1>0, <1>00, <2>1, <2>2, StopKept, GoKept DEF Known
<1>3. CASE Snapshot(c)
  <2>1. /\ pc[c] = "snapshot" /\ dbs' = dbs /\ op' = op /\ subject' = subject
        /\ result' = result /\ Goto(c, "post") /\ outcome' = outcome
    BY <1>3 DEF Snapshot, platform
  <2>2. "post" \in Places(req[c].tool) /\ op[c] = "none"
    BY <1>00, <2>1, ToolAt DEF Places, CallOK, PlaceOK
  <2> QED
    BY <1>0, <1>00, <2>1, <2>2, GoKept DEF Known
<1>4. CASE CheckExists(c)
  <2>1. /\ pc[c] = "check" /\ dbs' = dbs /\ op' = op /\ subject' = subject
        /\ result' = result /\ (End(c, "error") \/ (Goto(c, "post") /\ outcome' = outcome))
    BY <1>4 DEF CheckExists, platform
  <2>2. "post" \in Places(req[c].tool) /\ op[c] = "none"
    BY <1>00, <2>1, ToolAt DEF Places, CallOK, PlaceOK
  <2> QED
    BY <1>0, <1>00, <2>1, <2>2, StopKept, GoKept DEF Known
<1>7. CASE Put(c)
  <2>1. /\ pc[c] = "put" /\ dbs' = dbs /\ op' = op /\ subject' = subject /\ result' = result
        /\ req' = req /\ (End(c, "error") \/ End(c, "returned"))
    BY <1>7 DEF Put
  <2>2. req[c].tool = "rename"
    BY <1>00, <2>1, ToolAt
  <2>3. CASE End(c, "returned")
    <3>1. pc'[c] = "over" /\ outcome'[c] = "returned" /\ accountOf' = accountOf
      BY <1>7, <2>3 DEF End, Goto, TypeOK, Put
    <3>2. PlaceOK(c)'
      BY <1>00, <2>1, <2>2, <3>1 DEF CallOK, PlaceOK, Places
    <3>3. SubjectOK(c)' /\ ScopeOK(c)'
      BY <1>0, <1>00, <2>1, <2>2 DEF CallOK, SubjectOK, ScopeOK, Known
    <3>4. MadeOK(c)' /\ StatusOK(c)' /\ ReturnedOK(c)'
      BY <1>0, <1>00, <2>1, <2>2, <3>1 DEF CallOK, MadeOK, StatusOK, ReturnedOK, Known
    <3> QED
      BY <3>2, <3>3, <3>4 DEF CallOK
  <2> QED
    BY <1>0, <1>00, <2>1, <2>3, StopKept DEF Known
<1>12. CASE GetFails(c)
  <2>1. dbs' = dbs /\ op' = op /\ subject' = subject /\ result' = result /\ End(c, "error")
    BY <1>12 DEF GetFails, platform
  <2> QED
    BY <1>0, <1>00, <2>1, StopKept DEF Known
<1>5. CASE Post(c)
  <2>1. /\ pc[c] = "post" /\ dbs' = dbs /\ subject' = subject /\ result' = result /\ req' = req
        /\ accountOf' = accountOf
    BY <1>5 DEF Post
  <2>2. op[c] = "none" /\ req[c].tool \in {"create", "restore", "delete", "operate"}
    BY <1>00, <2>1, ToolAt DEF CallOK, PlaceOK
  <2>3. CASE op' = op /\ End(c, "error")
    BY <1>0, <1>00, <2>1, <2>3, StopKept DEF Known
  <2>4. ASSUME req[c].tool # "restore" => subject[c] \in dbs,
               op' = [op EXCEPT ![c] = "running"],
               NEW where \in {"wait", "over"}, pc' = [pc EXCEPT ![c] = where],
               outcome'[c] # "returned"
        PROVE  CallOK(c)'
    <3>1. pc'[c] = where /\ op'[c] = "running"
      BY <2>4 DEF TypeOK
    <3>2. where \in Places(req[c].tool)
      BY <2>2 DEF Places
    <3>3. result[c] = NoDb
      BY <1>00, <2>1 DEF CallOK, PlaceOK
    <3>4. PlaceOK(c)'
      BY <2>1, <2>2, <2>4, <3>1, <3>2, <3>3 DEF PlaceOK
    <3>5. subject[c] \in dbs => subject[c] # NoDb
      BY DatabaseToolsAssumption DEF TypeOK
    <3>6. SubjectOK(c)'
      BY <1>0, <1>00, <2>1, <2>4, <3>1, <3>5 DEF CallOK, SubjectOK, Known
    <3>7. ScopeOK(c)'
      BY <1>00, <2>1 DEF CallOK, ScopeOK
    <3>8. MadeOK(c)'
      BY <1>0, <1>00, <2>1, <2>2, <3>1 DEF CallOK, MadeOK, Known
    <3>9. StatusOK(c)' /\ ReturnedOK(c)'
      BY <1>0, <1>00, <2>1, <2>4, <3>1 DEF CallOK, StatusOK, ReturnedOK
    <3> QED
      BY <3>4, <3>6, <3>7, <3>8, <3>9 DEF CallOK
  <2>5. ASSUME req[c].tool # "restore" => subject[c] \in dbs,
               op' = [op EXCEPT ![c] = "running"],
               (Goto(c, "wait") /\ outcome' = outcome) \/ End(c, "error")
        PROVE  CallOK(c)'
    <3>1. outcome[c] # "returned"
      BY <1>00, <2>1 DEF CallOK, PlaceOK
    <3>2. CASE Goto(c, "wait") /\ outcome' = outcome
      BY <2>4, <2>5, <3>1, <3>2 DEF Goto
    <3>3. CASE End(c, "error")
      <4>1. pc' = [pc EXCEPT ![c] = "over"] /\ outcome'[c] # "returned"
        BY <3>3 DEF End, Goto, TypeOK
      <4> QED
        BY <2>4, <2>5, <4>1
    <3> QED
      BY <2>5, <3>2, <3>3
  <2> QED
    BY <1>5, <2>3, <2>5 DEF Post
<1>6. CASE Register(c)
  <2>1. /\ pc[c] = "register" /\ op' = op /\ result' = result /\ req' = req
    BY <1>6 DEF Register
  <2>2. req[c].tool = "create" /\ op[c] = "none" /\ result[c] = NoDb
        /\ outcome[c] # "returned" /\ subject[c] = NoDb /\ c \notin Known
    BY <1>00, <2>1, ToolAt DEF CallOK, PlaceOK, MadeOK
  <2>3. ASSUME dbs' = dbs \cup {c} PROVE CallOK(c)'
    <3>1. \/ pc'[c] = "post" /\ subject'[c] = c /\ outcome'[c] = outcome[c]
          \/ pc'[c] = "over" /\ subject'[c] = NoDb /\ outcome'[c] = "error"
      <4>1. c \in dbs'
        BY <2>3
      <4>2. c \notin dbs
        BY <2>2 DEF Known
      <4>3. \/ Goto(c, "post") /\ subject' = [subject EXCEPT ![c] = c] /\ outcome' = outcome
            \/ End(c, "error") /\ subject' = subject
        BY <1>6, <4>1, <4>2 DEF Register
      <4> QED
        BY <2>2, <4>3 DEF Goto, End, TypeOK
    <3>2. PlaceOK(c)'
      BY <2>1, <2>2, <3>1 DEF PlaceOK, Places
    <3>3. c \in Known' /\ c # NoDb
      BY <2>3, DatabaseToolsAssumption DEF Known, Dbs
    <3>4. SubjectOK(c)' /\ ScopeOK(c)' /\ MadeOK(c)'
      BY <2>1, <2>2, <3>1, <3>3 DEF SubjectOK, ScopeOK, MadeOK
    <3>5. StatusOK(c)' /\ ReturnedOK(c)'
      BY <1>0, <1>00, <2>1, <2>2, <3>1 DEF CallOK, StatusOK, ReturnedOK
    <3> QED
      BY <3>2, <3>4, <3>5 DEF CallOK
  <2>4. CASE dbs' = dbs /\ subject' = subject /\ End(c, "error")
    BY <1>0, <1>00, <2>1, <2>4, StopKept DEF Known
  <2> QED
    BY <1>6, <2>3, <2>4 DEF Register
<1>8. CASE WaitEnds(c)
  <2>1. /\ pc[c] = "wait" /\ dbs' = dbs /\ op' = op /\ subject' = subject /\ result' = result
        /\ req' = req /\ accountOf' = accountOf
    BY <1>8 DEF WaitEnds, platform
  <2>2. PICK how \in Wait(c)!Permitted :
            IF MayProceed(how) /\ AfterWait(req[c].tool) # "over"
              THEN Goto(c, AfterWait(req[c].tool)) /\ UNCHANGED outcome
              ELSE End(c, IF MayProceed(how) THEN "returned" ELSE how)
    BY <1>8 DEF WaitEnds
  <2>3. how = "returned" => op[c] = "succeeded" \/ gone[c]
    BY DEF Wait!Permitted
  <2>4. subject[c] = NoDb => ~gone[c]
    <3>1. gone[c] => subject[c] \in removed
      BY <1>00 DEF CallOK, StatusOK
    <3>2. removed \subseteq Dbs
      BY <1>00 DEF TypeOK
    <3>3. NoDb \notin Dbs
      BY DatabaseToolsAssumption DEF Dbs
    <3> QED
      BY <3>1, <3>2, <3>3
  <2>5. req[c].tool \in {"create", "restore", "delete", "operate"}
    BY <1>00, <2>1, ToolAt
  <2>6. CASE how # "returned"
    BY <1>0, <1>00, <2>1, <2>2, <2>6, StopKept DEF MayProceed, Known
  <2>7. CASE how = "returned" /\ req[c].tool \in {"restore", "operate"}
    <3>1. req[c].tool = "restore" => op[c] = "succeeded"
      BY <1>00, <2>3, <2>4, <2>7 DEF CallOK, SubjectOK
    <3>2. Goto(c, AfterWait(req[c].tool)) /\ outcome' = outcome
      BY <2>2, <2>7 DEF MayProceed, AfterWait, Makers
    <3>3. /\ AfterWait(req[c].tool) \in Places(req[c].tool)
          /\ AfterWait(req[c].tool) \in {"discover", "refetch"}
          /\ AfterWait(req[c].tool) = "discover" => req[c].tool = "restore"
      BY <2>7 DEF AfterWait, Makers, Places
    <3> QED
      BY <1>0, <1>00, <2>1, <3>1, <3>2, <3>3, GoKept DEF Known
  <2>8. CASE how = "returned" /\ req[c].tool \in {"create", "delete"}
    <3>1. End(c, "returned")
      BY <2>2, <2>8 DEF MayProceed, AfterWait, Makers
    <3>2. pc'[c] = "over" /\ outcome'[c] = "returned"
      BY <3>1 DEF End, Goto, TypeOK
    <3>3. PlaceOK(c)'
      BY <1>00, <2>1, <2>8, <3>2 DEF CallOK, PlaceOK, Places
    <3>4. SubjectOK(c)' /\ ScopeOK(c)' /\ MadeOK(c)' /\ StatusOK(c)'
      BY <1>0, <1>00, <2>1, <3>2
         DEF CallOK, SubjectOK, ScopeOK, MadeOK, StatusOK, Known
    <3>5. ReturnedOK(c)'
      BY <1>0, <1>00, <2>1, <2>3, <2>8 DEF CallOK, StatusOK, ReturnedOK
    <3> QED
      BY <3>3, <3>4, <3>5 DEF CallOK
  <2> QED
    BY <2>5, <2>6, <2>7, <2>8
<1>9. CASE Refetch(c)
  <2>1. /\ pc[c] = "refetch" /\ dbs' = dbs /\ op' = op /\ subject' = subject
        /\ result' = result /\ req' = req /\ accountOf' = accountOf
        /\ (End(c, "error") \/ End(c, "returned"))
    BY <1>9 DEF Refetch, platform
  <2>2. req[c].tool = "operate"
    BY <1>00, <2>1, ToolAt
  <2>3. CASE End(c, "returned")
    <3>1. pc'[c] = "over" /\ outcome'[c] = "returned"
      BY <2>3 DEF End, Goto, TypeOK
    <3>2. PlaceOK(c)'
      BY <1>00, <2>1, <2>2, <3>1 DEF CallOK, PlaceOK, Places
    <3>3. SubjectOK(c)' /\ ScopeOK(c)'
      BY <1>0, <1>00, <2>1, <2>2 DEF CallOK, SubjectOK, ScopeOK, Known
    <3>4. MadeOK(c)' /\ StatusOK(c)' /\ ReturnedOK(c)'
      BY <1>0, <1>00, <2>1, <2>2, <3>1 DEF CallOK, MadeOK, StatusOK, ReturnedOK, Known
    <3> QED
      BY <3>2, <3>3, <3>4 DEF CallOK
  <2> QED
    BY <1>0, <1>00, <2>1, <2>3, StopKept DEF Known
<1>10. CASE Discover(c)
  <2>1. /\ pc[c] = "discover" /\ dbs' = dbs /\ op' = op /\ subject' = subject
        /\ req' = req /\ accountOf' = accountOf
    BY <1>10 DEF Discover, platform
  <2>2. req[c].tool = "restore" /\ op[c] = "succeeded"
    BY <1>00, <2>1, ToolAt DEF CallOK, StatusOK
  <2>3. CASE End(c, "returned")
    <3>1. pc'[c] = "over" /\ outcome'[c] = "returned"
      BY <2>3 DEF End, Goto, TypeOK
    <3>2. PlaceOK(c)'
      BY <1>00, <2>1, <2>2, <3>1 DEF CallOK, PlaceOK, Places
    <3>3. SubjectOK(c)' /\ ScopeOK(c)'
      BY <1>0, <1>00, <2>1, <2>2 DEF CallOK, SubjectOK, ScopeOK, Known
    <3>4. MadeOK(c)' /\ StatusOK(c)' /\ ReturnedOK(c)'
      BY <1>0, <1>00, <2>1, <2>2, <3>1 DEF CallOK, MadeOK, StatusOK, ReturnedOK, Known
    <3> QED
      BY <3>2, <3>3, <3>4 DEF CallOK
  <2>4. CASE End(c, "undiscovered") /\ result' = result
    BY <1>0, <1>00, <2>1, <2>4, StopKept DEF Known
  <2>5. CASE UNCHANGED <<pc, result, outcome>>
    BY <1>0, <1>00, <2>1, <2>5, SameKept, <1>10 DEF Same, Known, Discover
  <2> QED
    BY <1>10, <2>3, <2>4, <2>5 DEF Discover
<1> QED
  BY <1>1, <1>2, <1>3, <1>4, <1>5, <1>6, <1>7, <1>8, <1>9, <1>10, <1>12 DEF Step

\* Every call is in order after a step of the platform.
LEMMA CallsKeptByPlatform ==
    ASSUME TypeOK, \A b \in Calls : CallOK(b), Platform
    PROVE  \A b \in Calls : CallOK(b)'
<1>0. Keeps
  BY PlatformKeeps
<1>1. /\ req' = req /\ pc' = pc /\ subject' = subject /\ target' = target
      /\ existing' = existing /\ result' = result /\ outcome' = outcome
  BY DEF Platform
\* The step of one operation leaves the other calls as they were.
<1>2. ASSUME NEW c \in Calls, OpMakes(c), NEW b \in Calls PROVE CallOK(b)'
  <2>1. /\ req[c].tool = "restore" /\ op[c] = "running" /\ gone' = gone
        /\ removed' = removed /\ dbs' = dbs \cup {c}
        /\ op' = [op EXCEPT ![c] = "succeeded"]
    BY <1>2, ToolAt DEF OpMakes, Running, Succeed
  <2>2. CASE b # c
    <3>1. Same(b)
      BY <1>1, <2>1, <2>2 DEF Same, TypeOK
    <3> QED
      BY <1>0, <2>1, <2>2, <3>1, SameKept DEF Known
  <2>3. CASE b = c
    <3>1. op'[c] = "succeeded" /\ c \in Known'
      BY <2>1 DEF TypeOK, Known
    <3>2. PlaceOK(c)'
      BY <1>1, <2>1, <3>1 DEF CallOK, PlaceOK
    <3>3. SubjectOK(c)' /\ ScopeOK(c)'
      BY <1>0, <1>1, <2>1, <3>1 DEF CallOK, SubjectOK, ScopeOK, Keeps
    <3>4. MadeOK(c)' /\ StatusOK(c)' /\ ReturnedOK(c)'
      BY <1>1, <2>1, <3>1 DEF CallOK, PlaceOK, MadeOK, StatusOK, ReturnedOK, Places
    <3> QED
      BY <2>3, <3>2, <3>3, <3>4 DEF CallOK
  <2> QED
    BY <2>2, <2>3
<1>3. ASSUME NEW c \in Calls, OpRemoves(c), NEW b \in Calls PROVE CallOK(b)'
  <2>1. /\ req[c].tool = "delete" /\ op[c] = "running"
        /\ op' = [op EXCEPT ![c] = "succeeded"]
        /\ removed' = removed \cup {subject[c]} /\ dbs' = dbs \ {subject[c]}
        /\ gone' = [a \in Calls |->
                       gone[a] \/ (op[a] # "none" /\ subject[a] = subject[c])]
    BY <1>3 DEF OpRemoves, Running, Succeed
  <2>2. subject[c] # NoDb /\ subject[c] \in Known
    BY <2>1 DEF CallOK, SubjectOK
  <2>3. Known' = Known
    BY <2>1, <2>2 DEF Known
  <2>4. op'[b] # "none" <=> op[b] # "none"
    BY <2>1 DEF TypeOK
  <2>5. op'[b] = IF b = c THEN "succeeded" ELSE op[b]
    BY <2>1 DEF TypeOK
  <2>6. gone'[b] => op[b] # "none" /\ subject[b] \in removed'
    <3>1. gone'[b] => gone[b] \/ (op[b] # "none" /\ subject[b] = subject[c])
      BY <2>1
    <3> QED
      BY <2>1, <3>1 DEF CallOK, StatusOK
  <2>7. PlaceOK(b)' /\ SubjectOK(b)'
    BY <1>1, <2>1, <2>3, <2>4 DEF CallOK, PlaceOK, SubjectOK
  <2>8. ScopeOK(b)'
    BY <1>0, <1>1, <2>1 DEF CallOK, ScopeOK, SubjectOK, Keeps
  <2>9. MadeOK(b)'
    BY <1>1, <2>1, <2>3, <2>5 DEF CallOK, MadeOK
  <2>10. StatusOK(b)'
    BY <1>1, <2>1, <2>4, <2>5, <2>6 DEF CallOK, StatusOK
  <2>11. ReturnedOK(b)'
    BY <1>1, <2>1, <2>5 DEF CallOK, ReturnedOK
  <2> QED
    BY <2>7, <2>8, <2>9, <2>10, <2>11 DEF CallOK
<1>4. ASSUME NEW c \in Calls, OpWorks(c) \/ OpFails(c), NEW b \in Calls PROVE CallOK(b)'
  <2>1. /\ op[c] = "running" /\ gone' = gone /\ removed' = removed /\ dbs' = dbs
        /\ \/ op' = [op EXCEPT ![c] = "failed"]
           \/ /\ op' = [op EXCEPT ![c] = "succeeded"]
              /\ req[c].tool \in {"operate", "create"}
    BY <1>4 DEF OpWorks, OpFails, Running, Succeed
  <2>2. CASE b # c
    <3>1. Same(b)
      BY <1>1, <2>1, <2>2 DEF Same, TypeOK
    <3> QED
      BY <1>0, <2>1, <2>2, <3>1, SameKept DEF Known
  <2>3. CASE b = c
    <3>1. op'[c] = "failed" \/ (op'[c] = "succeeded" /\ req[c].tool \in {"operate", "create"})
      BY <2>1 DEF TypeOK
    <3>2. PlaceOK(c)'
      BY <1>1, <2>1, <3>1 DEF CallOK, PlaceOK
    <3>3. SubjectOK(c)' /\ ScopeOK(c)'
      BY <1>0, <1>1, <2>1, <3>1 DEF CallOK, SubjectOK, ScopeOK, Keeps, Known
    <3>4. MadeOK(c)' /\ StatusOK(c)' /\ ReturnedOK(c)'
      BY <1>1, <2>1, <3>1 DEF CallOK, MadeOK, StatusOK, ReturnedOK, Known
    <3> QED
      BY <2>3, <3>2, <3>3, <3>4 DEF CallOK
  <2> QED
    BY <2>2, <2>3
<1>5. ASSUME NEW d \in Dbs, Appear(d), NEW b \in Calls PROVE CallOK(b)'
  <2>1. Same(b) /\ Known' = Known
    BY <1>1, <1>5 DEF Appear, Same, Known
  <2> QED
    BY <1>0, <2>1, SameKept
<1> QED
  BY <1>2, <1>3, <1>4, <1>5 DEF Platform

\* Every call is in order after a step of one of them.
LEMMA CallsKeptByCall ==
    ASSUME TypeOK, \A b \in Calls : CallOK(b), NEW c \in Calls, Step(c) \/ GetFails(c)
    PROVE  \A b \in Calls : CallOK(b)'
<1> SUFFICES ASSUME NEW b \in Calls, b # c PROVE CallOK(b)'
  BY CallKept
<1> QED
  BY CallKeeps, SameKept DEF Known

\* What the platform did is accounted for by a delete, whatever happens next.
LEMMA PlatformStays ==
    ASSUME TypeOK, PlatformOK, \A b \in Calls : CallOK(b), [Next]_vars
    PROVE  PlatformOK'
<1>1. ASSUME removed' = removed, listed' = listed, Keeps, \A d \in dbs' \ dbs : d \notin removed
      PROVE  PlatformOK'
  <2>1. \A d \in removed, c \in Calls :
            req[c].tool = "delete" /\ subject[c] = d /\ op[c] # "none" =>
                req'[c].tool = "delete" /\ subject'[c] = d /\ op'[c] # "none"
    BY <1>1, DatabaseToolsAssumption DEF Keeps, TypeOK
  <2> QED
    BY <1>1, <2>1 DEF PlatformOK
<1>2. CASE UNCHANGED vars
  BY <1>2 DEF vars, platform, PlatformOK
<1>3. ASSUME NEW c \in Calls, Step(c) \/ GetFails(c) PROVE PlatformOK'
  <2>1. Keeps /\ removed' = removed /\ listed' = listed
        /\ (dbs' = dbs \/ (Register(c) /\ dbs' = dbs \cup {c}))
    BY <1>3, CallKeeps
  <2>2. Register(c) => c \notin Known
    BY DEF Register, CallOK, MadeOK
  <2> QED
    BY <1>1, <2>1, <2>2 DEF Known
<1>4. CASE Platform
  <2>1. Keeps
    BY <1>4, PlatformKeeps
  <2>2. ASSUME NEW c \in Calls, OpMakes(c) PROVE PlatformOK'
    <3>1. c \notin Known
      BY <2>2, ToolAt DEF OpMakes, Running, CallOK, MadeOK
    <3> QED
      BY <1>1, <2>1, <2>2, <3>1 DEF OpMakes, Known
  <2>3. ASSUME NEW c \in Calls, OpRemoves(c) PROVE PlatformOK'
    <3>1. /\ removed' = removed \cup {subject[c]} /\ dbs' = dbs \ {subject[c]}
          /\ listed' = listed /\ req[c].tool = "delete" /\ op[c] = "running"
      BY <2>3 DEF OpRemoves, Running
    <3>2. subject' = subject /\ req' = req
      BY <1>4 DEF Platform
    <3>3. op'[c] # "none"
      BY <2>1, <3>1 DEF Keeps
    <3>4. \A d \in removed' : \E a \in Calls :
              req'[a].tool = "delete" /\ subject'[a] = d /\ op'[a] # "none"
      BY <2>1, <3>1, <3>2, <3>3 DEF PlatformOK, Keeps
    <3> QED
      BY <3>1, <3>4 DEF PlatformOK
  <2>4. ASSUME NEW c \in Calls, OpWorks(c) \/ OpFails(c) PROVE PlatformOK'
    BY <1>1, <2>1, <2>4 DEF OpWorks, OpFails
  <2>5. ASSUME NEW d \in Dbs, Appear(d) PROVE PlatformOK'
    <3>1. subject' = subject /\ req' = req
      BY <1>4 DEF Platform
    <3> QED
      BY <2>5, <3>1 DEF Appear, PlatformOK
  <2> QED
    BY <1>4, <2>2, <2>3, <2>4, <2>5 DEF Platform
<1> QED
  BY <1>2, <1>3, <1>4 DEF Next

------------------------------------------------------------------------------
(* Namesakes. *)

\* A step may give a known database only the handle of a rename of it, and a new one only
\* the handle its call asked for.
HandlesFollow ==
    /\ \A d \in Known :
          \/ handleOf'[d] = handleOf[d]
          \/ \E r \in Calls : /\ req[r].tool = "rename" /\ subject[r] = d
                              /\ handleOf'[d] = req[r].newHandle
    /\ \A d \in Known' \ Known : d \in Calls /\ handleOf'[d] = req[d].newHandle

\* What a step leaves of a call's target, snapshot and result.
Follows(c) ==
    /\ pc[c] \notin {"lookup", "scope"} => target'[c] = target[c]
    /\ existing'[c] = existing[c] \/ Snapshot(c)
    /\ result'[c] = result[c] \/ Discover(c)
    /\ req[c].tool = "restore" /\ pc'[c] \in {"post", "wait", "discover"} =>
          pc[c] \in {"post", "wait", "discover"} \/ Snapshot(c)

\* Handles follow the calls.
LEMMA HandlesDo ==
    ASSUME TypeOK, \A b \in Calls : CallOK(b), Next
    PROVE  HandlesFollow
<1>1. ASSUME handleOf' = handleOf, Known' \subseteq Known PROVE HandlesFollow
  BY <1>1 DEF HandlesFollow
<1>2. ASSUME NEW c \in Calls, c \notin Known, Known' = Known \cup {c},
             handleOf' = [handleOf EXCEPT ![c] = req[c].newHandle]
      PROVE  HandlesFollow
  <2>1. handleOf'[c] = req[c].newHandle
    BY <1>2 DEF TypeOK, Dbs
  <2>2. \A d \in Known : handleOf'[d] = handleOf[d]
    BY <1>2 DEF TypeOK, Known
  <2> QED
    BY <1>2, <2>1, <2>2 DEF HandlesFollow
<1>3. ASSUME NEW c \in Calls, Step(c) \/ GetFails(c) PROVE HandlesFollow
  <2>1. CASE Register(c)
    <3>1. c \notin Known /\ removed' = removed
      BY <2>1 DEF Register, CallOK, MadeOK
    <3>2. CASE dbs' = dbs /\ handleOf' = handleOf
      BY <1>1, <3>1, <3>2 DEF Known
    <3>3. CASE dbs' = dbs \cup {c} /\ handleOf' = [handleOf EXCEPT ![c] = req[c].newHandle]
      BY <1>2, <3>1, <3>3 DEF Known
    <3> QED
      BY <2>1, <3>2, <3>3 DEF Register
  <2>2. CASE Put(c)
    <3>1. req[c].tool = "rename" /\ Known' = Known
      BY <2>2, ToolAt DEF Put, Known
    <3>2. handleOf' = handleOf \/ handleOf' = [handleOf EXCEPT ![subject[c]] = req[c].newHandle]
      BY <2>2 DEF Put
    <3>3. \A d \in Known : handleOf'[d] = handleOf[d]
                           \/ (d = subject[c] /\ handleOf'[d] = req[c].newHandle)
      BY <3>2 DEF TypeOK, Known
    <3> QED
      BY <3>1, <3>3 DEF HandlesFollow
  <2>3. CASE ~Register(c) /\ ~Put(c)
    <3>1. handleOf' = handleOf
      BY <1>3, <2>3 DEF Step, GetFails, Lookup, ResolveScope, Snapshot, CheckExists, Post,
                        WaitEnds, Refetch, Discover, platform
    <3>2. Known' = Known
      BY <1>3, <2>3, CallKeeps DEF Known
    <3> QED
      BY <1>1, <3>1, <3>2
  <2> QED
    BY <2>1, <2>2, <2>3
<1>4. CASE Platform
  <2>1. ASSUME NEW c \in Calls, OpMakes(c) PROVE HandlesFollow
    <3>1. c \notin Known
      BY <2>1, ToolAt DEF OpMakes, Running, CallOK, MadeOK
    <3> QED
      BY <1>2, <2>1, <3>1 DEF OpMakes, Known
  <2>2. ASSUME NEW c \in Calls, OpRemoves(c) PROVE HandlesFollow
    <3>1. subject[c] \in Known
      BY <2>2 DEF OpRemoves, Running, CallOK, SubjectOK
    <3> QED
      BY <1>1, <2>2, <3>1 DEF OpRemoves, Known
  <2>3. ASSUME NEW c \in Calls, OpWorks(c) \/ OpFails(c) PROVE HandlesFollow
    BY <1>1, <2>3 DEF OpWorks, OpFails, Known
  <2>4. ASSUME NEW d \in Dbs, Appear(d) PROVE HandlesFollow
    BY <1>1, <2>4 DEF Appear, Known
  <2> QED
    BY <1>4, <2>1, <2>2, <2>3, <2>4 DEF Platform
<1> QED
  BY <1>3, <1>4 DEF Next

\* Targets, snapshots and results follow the calls.
LEMMA CallsDo ==
    ASSUME TypeOK, \A b \in Calls : CallOK(b), Next, NEW c \in Calls
    PROVE  Follows(c)
<1>1. CASE Platform
  BY <1>1 DEF Platform, Follows
<1>2. ASSUME NEW a \in Calls, a # c, Step(a) \/ GetFails(a) PROVE Follows(c)
  <2>1. Same(c)
    BY <1>2, CallKeeps
  <2> QED
    BY <2>1 DEF Same, Follows
<1>3. CASE GetFails(c)
  <2>1. pc'[c] = "over" /\ target' = target /\ existing' = existing /\ result' = result
    BY <1>3 DEF GetFails, End, Goto, TypeOK
  <2> QED
    BY <2>1 DEF Follows
<1>4. CASE Lookup(c)
  <2>1. pc[c] = "lookup" /\ existing' = existing /\ result' = result
    BY <1>4, LookupIs
  <2>2. req[c].tool # "restore"
    BY <2>1, ToolAt DEF ByHandle
  <2> QED
    BY <2>1, <2>2 DEF Follows
<1>5. CASE ResolveScope(c)
  <2>1. pc[c] = "scope" /\ pc'[c] \in {"over", "snapshot"} /\ existing' = existing
        /\ result' = result
    BY <1>5 DEF ResolveScope, End, Goto, TypeOK
  <2> QED
    BY <2>1 DEF Follows
<1>6. CASE Snapshot(c)
  BY <1>6 DEF Follows, Snapshot
<1>7. CASE CheckExists(c) \/ Post(c) \/ Register(c) \/ Put(c) \/ WaitEnds(c) \/ Refetch(c)
  <2>1. target' = target /\ existing' = existing /\ result' = result
    BY <1>7 DEF CheckExists, Post, Register, Put, WaitEnds, Refetch
  <2>2. req[c].tool = "restore" => pc[c] \in {"post", "wait"}
    BY <1>7, ToolAt DEF CheckExists, Post, Register, Put, WaitEnds, Refetch
  <2> QED
    BY <2>1, <2>2 DEF Follows
<1>8. CASE Discover(c)
  BY <1>8 DEF Follows, Discover
<1> QED
  BY <1>1, <1>2, <1>3, <1>4, <1>5, <1>6, <1>7, <1>8 DEF Next, Step

\* A call that contends goes on contending.
LEMMA ContendedStays ==
    ASSUME TypeOK, \A b \in Calls : CallOK(b), Keeps,
           NEW c \in Calls, target'[c] = target[c], Contended(c)
    PROVE  Contended(c)'
<1>1. PICK b \in Calls \ {c} :
          /\ req[b].newHandle = req[c].newHandle
          /\ \/ req[b].tool \in {"create", "restore"} /\ b \in dbs \cup removed
                   /\ accountOf[b] = target[c]
             \/ req[b].tool = "rename" /\ subject[b] # NoDb
                   /\ accountOf[subject[b]] = target[c]
  BY DEF Contended
<1>2. CASE req[b].tool \in {"create", "restore"} /\ b \in dbs \cup removed
           /\ accountOf[b] = target[c]
  BY <1>1, <1>2 DEF Keeps, Known, Contended
<1>3. CASE req[b].tool = "rename" /\ subject[b] # NoDb /\ accountOf[subject[b]] = target[c]
  <2>1. subject[b] \in Known
    BY <1>3 DEF CallOK, SubjectOK
  <2>2. subject'[b] = subject[b] /\ accountOf'[subject[b]] = target[c]
    BY <1>3, <2>1 DEF Keeps
  <2> QED
    BY <1>1, <1>3, <2>2 DEF Keeps, Contended
<1> QED
  BY <1>1, <1>2, <1>3

\* A namesake that another call made is a contender.
LEMMA MadeContends ==
    ASSUME TypeOK, \A b \in Calls : CallOK(b),
           NEW c \in Calls, req[c].tool = "restore",
           NEW b \in Calls \ {c}, HandleOK(b), b \in Known,
           handleOf[b] = req[c].newHandle, accountOf[b] = target[c]
    PROVE  Contended(c)
<1>1. req[b].tool \in {"create", "restore"}
  BY DEF CallOK, MadeOK
<1>2. CASE handleOf[b] = req[b].newHandle
  BY <1>1, <1>2 DEF Contended, Known
<1>3. ASSUME NEW r \in Calls, req[r].tool = "rename", subject[r] = b,
             handleOf[b] = req[r].newHandle
      PROVE  Contended(c)
  <2>1. r # c /\ b # NoDb
    BY <1>3, DatabaseToolsAssumption DEF Dbs
  <2> QED
    BY <1>3, <2>1 DEF Contended
<1> QED
  BY <1>2, <1>3 DEF HandleOK

\* Namesakes stay told apart.
LEMMA NamesKept ==
    ASSUME DbInv, Next, NEW c \in Calls
    PROVE  NamesOK(c)'
<1> USE DEF DbInv
<1>1. Keeps
  BY CallKeeps, PlatformKeeps DEF Next
<1>2. HandlesFollow /\ Follows(c)
  BY HandlesDo, CallsDo
<1>3. HandleOK(c)'
  <2>1. CASE c \notin Known
    BY <1>1, <1>2, <2>1 DEF HandlesFollow, HandleOK, Keeps
  <2>2. CASE c \in Known
    <3>1. c # NoDb
      BY DatabaseToolsAssumption DEF Dbs
    <3>2. HandleOK(c)
      BY DEF NamesOK
    <3>3. \/ handleOf'[c] = req[c].newHandle
          \/ \E r \in Calls : /\ req[r].tool = "rename" /\ subject[r] = c
                              /\ handleOf'[c] = req[r].newHandle
      BY <1>2, <2>2, <3>2 DEF HandlesFollow, HandleOK
    <3> QED
      BY <1>1, <3>1, <3>3 DEF HandleOK, Keeps
  <2> QED
    BY <2>1, <2>2
<1>4. SnapshotOK(c)'
  <2> SUFFICES ASSUME req'[c].tool = "restore", pc'[c] \in {"post", "wait", "discover"},
                      NEW d \in OldDbs, d \in dbs',
                      handleOf'[d] = req'[c].newHandle, accountOf'[d] = target'[c]
               PROVE  d \in existing'[c] \/ Contended(c)'
    BY DEF SnapshotOK
  <2>1. req' = req /\ req[c].tool = "restore"
    BY <1>1 DEF Keeps
  <2>2. d \in dbs /\ d \in Known
    <3>1. d \notin Calls /\ d \in Known'
      BY DatabaseToolsAssumption DEF Known
    <3>2. d \in Known
      BY <1>2, <3>1 DEF HandlesFollow
    <3>3. d \notin removed
      <4>1. removed \subseteq removed' /\ removed' \cap dbs' = {}
        BY <1>1, PlatformStays DEF Keeps, PlatformOK
      <4> QED
        BY <4>1
    <3> QED
      BY <3>2, <3>3 DEF Known
  <2>3. accountOf'[d] = accountOf[d] /\ d # NoDb
    BY <1>1, <2>2, DatabaseToolsAssumption DEF Keeps, Dbs
  <2>4. pc[c] \notin {"lookup", "scope"} /\ target'[c] = target[c]
    BY <1>2, <2>1 DEF Follows, Snapshot
  <2>5. ASSUME NEW r \in Calls, req[r].tool = "rename", subject[r] = d,
               handleOf'[d] = req[r].newHandle
        PROVE  Contended(c)'
    BY <1>1, <2>1, <2>3, <2>5 DEF Keeps, Contended
  <2>6. CASE handleOf'[d] = handleOf[d] /\ Snapshot(c)
    <3>1. d \in NamedIn(req[c].newHandle, target[c])
      BY <2>1, <2>2, <2>3, <2>4, <2>6 DEF NamedIn, Named, Listing, PlatformOK
    <3> QED
      BY <2>6, <3>1 DEF Snapshot, TypeOK
  <2>7. CASE handleOf'[d] = handleOf[d] /\ ~Snapshot(c)
    <3>1. pc[c] \in {"post", "wait", "discover"} /\ existing'[c] = existing[c]
      BY <1>2, <2>1, <2>7 DEF Follows
    <3>2. d \in existing[c] \/ Contended(c)
      BY <2>1, <2>2, <2>3, <2>4, <2>7, <3>1 DEF NamesOK, SnapshotOK
    <3> QED
      BY <1>1, <2>4, <3>1, <3>2, ContendedStays
  <2> QED
    BY <1>2, <2>2, <2>5, <2>6, <2>7 DEF HandlesFollow
<1>5. ResultOK(c)'
  <2>1. CASE result'[c] = result[c] /\ result[c] # NoDb
    <3>1. target'[c] = target[c]
      BY <1>2, <2>1 DEF Follows, CallOK, PlaceOK
    <3> QED
      BY <1>1, <2>1, <3>1, ContendedStays DEF NamesOK, ResultOK
  <2>2. CASE result'[c] = result[c] /\ result[c] = NoDb
    BY <2>2 DEF ResultOK
  <2>3. ASSUME Discover(c), result'[c] # result[c] PROVE result'[c] = c \/ Contended(c)'
    <3>1. pc[c] = "discover" /\ target' = target
      BY <2>3 DEF Discover
    <3>2. req[c].tool = "restore"
      BY <3>1, ToolAt
    <3>3. PICK d \in Discoverable(c) : result'[c] = d
      BY <2>3 DEF Discover, TypeOK
    <3>4. /\ d \in dbs /\ handleOf[d] = req[c].newHandle /\ accountOf[d] = target[c]
          /\ d \notin existing[c] /\ d \in OldDbs \cup Calls
      BY DEF Discoverable, NamedIn, Named, Listing, TypeOK, Dbs
    <3>5. d = c \/ Contended(c)
      <4>1. CASE d \in OldDbs
        BY <3>1, <3>2, <3>4, <4>1 DEF NamesOK, SnapshotOK
      <4>2. CASE d \in Calls \ {c}
        BY <3>2, <3>4, <4>2, MadeContends DEF NamesOK, Known
      <4> QED
        BY <3>4, <4>1, <4>2
    <3> QED
      BY <1>1, <3>1, <3>3, <3>5, ContendedStays
  <2> QED
    BY <1>2, <2>1, <2>2, <2>3 DEF Follows, ResultOK
<1> QED
  BY <1>3, <1>4, <1>5 DEF NamesOK

------------------------------------------------------------------------------
(* The theorems. *)

\* The calls begin with the invariant.
LEMMA DbStarts == Init => DbInv
<1> SUFFICES ASSUME Init PROVE DbInv
  OBVIOUS
<1>1. TypeOK
  BY TypeStarts
<1>2. PlatformOK
  BY DEF Init, PlatformOK
<1>3. ASSUME NEW c \in Calls PROVE CallOK(c) /\ NamesOK(c)
  <2>1. /\ subject[c] = NoDb /\ op[c] = "none" /\ gone[c] = FALSE /\ result[c] = NoDb
        /\ outcome[c] = "none" /\ c \notin Known
    BY <1>3, DatabaseToolsAssumption DEF Init, Known
  <2>2. pc[c] = FirstStep(req[c].tool) /\ req[c].tool \in Tools
    BY <1>1, RequestOf DEF Init
  <2>3. pc[c] \in Places(req[c].tool) /\ pc[c] \in {"lookup", "scope", "register"}
    BY <2>2 DEF FirstStep, Places, Tools, Makers, ByHandle
  <2>4. PlaceOK(c) /\ SubjectOK(c) /\ ScopeOK(c)
    BY <2>1, <2>3 DEF PlaceOK, SubjectOK, ScopeOK
  <2>5. MadeOK(c) /\ StatusOK(c) /\ ReturnedOK(c)
    BY <2>1, <2>3 DEF MadeOK, StatusOK, ReturnedOK
  <2>6. NamesOK(c)
    BY <2>1, <2>3 DEF NamesOK, HandleOK, SnapshotOK, ResultOK
  <2> QED
    BY <2>4, <2>5, <2>6 DEF CallOK
<1> QED
  BY <1>1, <1>2, <1>3 DEF DbInv

\* Every step keeps the invariant.
LEMMA DbKept == DbInv /\ [Next]_vars => DbInv'
<1> SUFFICES ASSUME DbInv, [Next]_vars PROVE DbInv'
  OBVIOUS
<1> USE DEF DbInv
<1>1. CASE UNCHANGED vars
  <2>1. TypeOK'
    BY <1>1 DEF vars, platform, TypeOK
  <2>2. PlatformOK'
    BY <1>1 DEF vars, platform, PlatformOK
  <2>3. Known' = Known
    BY <1>1 DEF vars, platform, Known
  <2>4. ASSUME NEW c \in Calls PROVE CallOK(c)'
    <3>1. Keeps /\ Same(c)
      BY <1>1, <2>3 DEF vars, platform, Keeps, Same
    <3> QED
      BY <2>3, <3>1, SameKept
  <2>5. ASSUME NEW c \in Calls PROVE NamesOK(c)'
    <3>1. HandleOK(c)'
      BY <1>1, <2>3 DEF vars, platform, NamesOK, HandleOK
    <3>2. Contended(c)' <=> Contended(c)
      BY <1>1 DEF vars, platform, Contended
    <3>3. SnapshotOK(c)'
      BY <1>1, <3>2 DEF vars, platform, NamesOK, SnapshotOK
    <3>4. ResultOK(c)'
      BY <1>1, <3>2 DEF vars, platform, NamesOK, ResultOK
    <3> QED
      BY <3>1, <3>3, <3>4 DEF NamesOK
  <2> QED
    BY <2>1, <2>2, <2>4, <2>5
<1>2. CASE Next
  <2>1. TypeOK'
    BY <1>2, TypeKeptByPlatform, TypeKeptByCall DEF Next
  <2>2. PlatformOK'
    BY PlatformStays
  <2>3. \A c \in Calls : CallOK(c)'
    BY <1>2, CallsKeptByPlatform, CallsKeptByCall DEF Next
  <2>4. \A c \in Calls : NamesOK(c)'
    BY <1>2, NamesKept
  <2> QED
    BY <2>1, <2>2, <2>3, <2>4
<1> QED
  BY <1>1, <1>2

\* The invariant of the database tools: what each place of a call says of its operation, of
\* its database and of the databases that bear the handle it is to make.
THEOREM DbInvariant == Spec => []DbInv
  BY DbStarts, DbKept, PTL DEF Spec

\* Every variable of the database tools stays in its set; in particular a call is never at a
\* place its tool does not know (main.py, models/database.py).
THEOREM DbTypeCorrect == Spec => []TypeOK
<1>1. DbInv => TypeOK
  BY DEF DbInv
<1> QED
  BY <1>1, DbInvariant, PTL

\* A tool that returned did what it returned for: deleteDatabase and the makers say so
\* only on the word of an operation that succeeded or whose record went with its database.
THEOREM ReturnsDone == Spec => []ReturnedIsDone
<1>1. DbInv => ReturnedIsDone
  <2> SUFFICES ASSUME DbInv, NEW c \in Calls, outcome[c] = "returned"
               PROVE  /\ req[c].tool = "delete" => subject[c] \in removed \ dbs
                      /\ req[c].tool \in Makers => op[c] = "succeeded" /\ c \in dbs \cup removed
                      /\ req[c].tool = "create" => op[c] = "succeeded" \/ subject[c] \in removed
    BY DEF ReturnedIsDone
  <2>1. ReturnedOK(c) /\ MadeOK(c) /\ removed \cap dbs = {}
    BY DEF DbInv, CallOK, PlatformOK
  <2>2. req[c].tool \in Makers => req[c].tool = "restore"
    BY <2>1 DEF ReturnedOK, Makers
  <2> QED
    BY <2>1, <2>2 DEF ReturnedOK, MadeOK, Known
<1> QED
  BY <1>1, DbInvariant, PTL

\* deleteDatabase deprovisions no database outside the account it was asked for, whatever
\* namesakes other accounts have and whatever is renamed meanwhile.
THEOREM RemovesInScope == Spec => []RemovesOnlyInScope
<1>1. DbInv => RemovesOnlyInScope
  <2> SUFFICES ASSUME DbInv, NEW d \in removed
               PROVE  \E c \in Calls : /\ req[c].tool = "delete" /\ subject[c] = d
                                       /\ req[c].scope \in {NoAccount, accountOf[d]}
    BY DEF RemovesOnlyInScope
  <2>1. PICK c \in Calls : req[c].tool = "delete" /\ subject[c] = d
    BY DEF DbInv, PlatformOK
  <2>2. d # NoDb
    BY DatabaseToolsAssumption DEF DbInv, TypeOK
  <2> QED
    BY <2>1, <2>2 DEF DbInv, CallOK, ScopeOK
<1> QED
  BY <1>1, DbInvariant, PTL

\* restoreDatabaseFromBackup returns the one its own operation made, whatever namesakes there were
\* before, are listed late or come to bear the handle, unless another call contends for it.
THEOREM ReturnsOwn == Spec => []ReturnsOwnDatabase
<1>1. DbInv => ReturnsOwnDatabase
  BY DEF DbInv, NamesOK, ResultOK, ReturnsOwnDatabase
<1> QED
  BY <1>1, DbInvariant, PTL

------------------------------------------------------------------------------
(* The listing. *)

(* The pages read are a chain of links that starts with the first page, and *)
(* the cycle check has made them different.                                 *)
Chain ==
    /\ items \in Seq(Pages)
    /\ items # <<>> => items[1] = First
    /\ \A i \in 1..Len(items) - 1 : items[i + 1] = next[items[i]]
    /\ \A i \in 1..Len(items) : items[i] \in seen /\ items[i] \notin Foreign
    /\ \A i, j \in 1..Len(items) : items[i] = items[j] => i = j

(* The loop goes on from the last page's link, and a listing is returned    *)
(* only when there is none.                                                 *)
Position ==
    /\ path \in Pages \cup {"none"}
    /\ ended \in {"none", "listed"} =>
          path = IF items = <<>> THEN First ELSE next[items[Len(items)]]
    /\ ended = "listed" => path = "none"

ListInv ==
    /\ next \in [Pages -> Pages \cup Ends]
    /\ reader = "list" => Chain /\ Position

LEMMA FirstIsSome == First \in Pages /\ "none" \notin Pages
  BY PaginationAssumption DEF Ends

LEMMA ListStarts == ListInit => ListInv
  BY FirstIsSome DEF ListInit, ListInv, Chain, Position

LEMMA ReadPageKeeps == ASSUME ListInv, ReadPage PROVE ListInv'
<1> USE DEF Reading
<1>1. reader = "list" /\ ended = "none" /\ Chain /\ Position
  BY DEF ReadPage, ListInv
<1>2. path \in Pages /\ path \notin seen /\ seen' = seen \cup {path}
      /\ UNCHANGED <<reader, next>>
  BY <1>1 DEF ReadPage, Position, CycleAt
<1>3. path = IF items = <<>> THEN First ELSE next[items[Len(items)]]
  BY <1>1 DEF Position
<1>4. CASE ended' \in {"foreign", "error"} /\ UNCHANGED <<path, items, turns>>
  BY <1>1, <1>2, <1>4 DEF ListInv, Chain, Position
<1>5. CASE ~Refused(path) /\ items' = Append(items, path)
  <2>1. items' \in Seq(Pages) /\ Len(items') = Len(items) + 1 /\ items'[Len(items')] = path
        /\ \A i \in 1..Len(items) : items'[i] = items[i]
    BY <1>1, <1>2, <1>5 DEF Chain
  <2>2. items'[1] = First
    BY <2>1, <1>1, <1>3 DEF Chain
  <2>3. \A i \in 1..Len(items') - 1 : items'[i + 1] = next[items'[i]]
    <3> SUFFICES ASSUME NEW i \in 1..Len(items) PROVE items'[i + 1] = next[items[i]]
      BY <2>1, <1>1 DEF Chain
    <3>1. CASE i = Len(items)
      BY <3>1, <2>1, <1>1, <1>3 DEF Chain
    <3>2. CASE i \in 1..Len(items) - 1
      BY <3>2, <2>1, <1>1 DEF Chain
    <3> QED
      BY <3>1, <3>2, <1>1 DEF Chain
  <2>4. \A i \in 1..Len(items') : items'[i] \in seen' /\ items'[i] \notin Foreign
    BY <2>1, <1>1, <1>2, <1>5 DEF Chain, Refused
  <2>5. \A i, j \in 1..Len(items') : items'[i] = items'[j] => i = j
    BY <2>1, <1>1, <1>2 DEF Chain
  <2>6. Chain'
    BY <2>1, <2>2, <2>3, <2>4, <2>5, <1>2 DEF Chain
  <2>7. Position'
    <3>1. CASE ended' = "malformed" /\ path' = path
      BY <3>1, <1>1 DEF Position
    <3>2. CASE ~IsMalformed(next[path]) /\ path' = next[path] /\ ended' = ended
      BY <3>2, <2>1, <1>1, <1>2 DEF Position, ListInv, Ends, IsMalformed, Chain
    <3> QED
      BY <3>1, <3>2, <1>5 DEF ReadPage
  <2> QED
    BY <2>6, <2>7, <1>2 DEF ListInv
<1> QED
  BY <1>4, <1>5 DEF ReadPage

LEMMA ListNextKeeps == ASSUME ListInv, [ListNext]_listVars PROVE ListInv'
<1> USE DEF Reading, Raise
<1>1. CASE ReadOnePage
  BY <1>1 DEF ReadOnePage, ListInv
<1>2. CASE LimitReached \/ CycleFound
  BY <1>2 DEF LimitReached, CycleFound, ListInv, Chain, Position
<1>3. CASE Break
  BY <1>3 DEF Break, ListInv, Chain, Position
<1>4. CASE ReadPage
  BY <1>4, ReadPageKeeps
<1>5. CASE UNCHANGED listVars
  BY <1>5 DEF listVars, ListInv, Chain, Position
<1> QED
  BY <1>1, <1>2, <1>3, <1>4, <1>5 DEF ListNext

(* ResourceManager.list returns the whole chain of pages, in order, none    *)
(* twice and none of another origin, or it raises.                          *)
THEOREM ListedCorrect == ListSpec => []ListedIsComplete
<1>1. ListInv => ListedIsComplete
  <2> SUFFICES ASSUME ListInv, ended = "listed", reader = "list" PROVE ListedIsComplete
    BY DEF ListedIsComplete
  <2>1. Chain /\ Position
    BY DEF ListInv
  <2>2. items # <<>> /\ next[items[Len(items)]] = "none"
    BY <2>1, FirstIsSome DEF Position
  <2> QED
    BY <2>1, <2>2 DEF Chain, ListedIsComplete
<1> QED
  BY ListStarts, ListNextKeeps, <1>1, PTL DEF ListSpec

(* What was read and where the loop stands keep their types, whether a      *)
(* listing follows its links or reads one page.                             *)
LEMMA ReadPageTypes == ASSUME ListTypeOK, ListInv, ReadPage PROVE ListTypeOK'
<1> USE DEF Reading
<1>1. /\ path \in Pages /\ seen' = seen \cup {path} /\ UNCHANGED <<reader, next>>
      /\ items \in Seq(Pages) /\ turns \in Nat
      /\ next[path] \in Pages \cup Ends
  BY DEF ReadPage, ListTypeOK
<1>2. CASE ended' \in {"foreign", "error"} /\ UNCHANGED <<path, items, turns>>
  BY <1>1, <1>2 DEF ListTypeOK
<1>3. CASE items' = Append(items, path) /\ ended' = "malformed" /\ UNCHANGED <<path, turns>>
  BY <1>1, <1>3 DEF ListTypeOK
<1>4. CASE /\ items' = Append(items, path) /\ ~IsMalformed(next[path])
           /\ path' = next[path] /\ turns' = turns + 1 /\ UNCHANGED ended
  <2>1. items' \in Seq(Pages) /\ turns' \in Nat
    BY <1>1, <1>4
  <2>2. path' \in Pages \cup {"none"}
    BY <1>1, <1>4 DEF IsMalformed, Ends
  <2> QED
    BY <1>1, <1>4, <2>1, <2>2 DEF ListTypeOK
<1> QED
  BY <1>2, <1>3, <1>4 DEF ReadPage

(* A listing stays well typed (ResourceManager.list and the managers'       *)
(* listings of one page).                                                   *)
THEOREM ListTypes == ListSpec => []ListTypeOK
<1>1. ListInit => ListTypeOK
  BY FirstIsSome DEF ListInit, ListTypeOK
<1>2. ASSUME ListTypeOK, ListInv, [ListNext]_listVars PROVE ListTypeOK'
  <2> USE DEF Reading, Raise
  <2>1. CASE ReadOnePage
    <3>1. <<First>> \in Seq(Pages)
      BY FirstIsSome
    <3> QED
      BY <1>2, <2>1, <3>1 DEF ReadOnePage, ListTypeOK
  <2>2. CASE LimitReached \/ CycleFound \/ Break
    BY <1>2, <2>2 DEF LimitReached, CycleFound, Break, ListTypeOK
  <2>3. CASE ReadPage
    BY <1>2, <2>3, ReadPageTypes
  <2>4. CASE UNCHANGED listVars
    BY <1>2, <2>4 DEF listVars, ListTypeOK
  <2> QED
    BY <1>2, <2>1, <2>2, <2>3, <2>4 DEF ListNext
<1> QED
  BY <1>1, <1>2, ListStarts, ListNextKeeps, PTL DEF ListSpec
==============================================================================
