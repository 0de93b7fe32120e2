-------------------------- MODULE ProjectInventory --------------------------
(***************************************************************************)
(* collect_inventory of dependency_audit/inventory.py: an SBOM if one was  *)
(* given, then one native command after the other for the evidence the     *)
(* project has (CommandCapture), each answer parsed (InventoryParsers) or  *)
(* counted as a gap, and one result put together from all of them.         *)
(***************************************************************************)
EXTENDS CommandCapture, InventoryParsers

CONSTANTS
    Projects,   \* the sets of evidence a project may have
    Volumes,    \* what a command may write, by pipe
    NpmDocs, PipDocs, CargoDocs, GoDocs, SbomDocs   \* the documents of each kind

Evidence == {"npm", "python", "venv", "cargo", "go", "sbom"}

ASSUME ProjectInventoryAssumption ==
    Projects \subseteq SUBSET Evidence /\ Volumes \subseteq [Streams -> 0..MaxOutput]

Sources == {"cyclonedx", "npm-list", "pip-inspect", "cargo-metadata", "go-list", "go-graph",
            "native-adapters"}

VARIABLES
    project,    \* the evidence there is
    stage,      \* "start", "detect", "commands", "done"; "raised" an exception
    queue,      \* the commands still to be run; the first may be running
    goOutput,   \* go_output: which of the two commands of Go succeeded
    gaps,       \* the sources for which incomplete_reasons names a reason
    read,       \* the sources that were parsed
    rows,       \* the packages of all results so far
    held,       \* those that the parsed documents hold,
    hidden,     \* but for those beneath a repeated node of an npm document
    inventory   \* the result

inventoryVars == <<project, stage, queue, goOutput, gaps, read, rows, held, hidden,
                 inventory>>

NoInventory == [rows |-> {}, complete |-> FALSE]

collectVars == <<captureVars, inventoryVars>>

(* Every variable stays in its set; the scope of every row is one of three. *)
InventoryTypeOK ==
    /\ CaptureTypeOK /\ project \in Projects
    /\ stage \in {"start", "detect", "commands", "done", "raised"}
    /\ ToSet(queue) \cup gaps \cup read \subseteq Sources /\ goOutput \subseteq Sources
    /\ {r.scope : r \in rows \cup held \cup hidden \cup inventory.rows} \subseteq Scopes
    /\ inventory.complete \in BOOLEAN

InventoryInit ==
    /\ CaptureInit
    /\ project \in Projects /\ stage = "start" /\ queue = <<>> /\ goOutput = {}
    /\ gaps = {} /\ read = {} /\ rows = {} /\ held = {} /\ hidden = {}
    /\ inventory = NoInventory

Reading(parsed, holds, hides) ==
    [rows |-> parsed.rows, complete |-> parsed.complete, holds |-> holds, hides |-> hides]

(* What may come out of a document of each source. *)
NpmReadings ==
    UNION {{Reading(ParseNpm(d, met), NpmHolds(d), NpmHides(d)) : met \in Walks(d)} : d \in NpmDocs}
PipReadings == {Reading(ParsePip(d), PipHolds(d), {}) : d \in PipDocs}
CargoReadings == {Reading(ParseCargo(d), CargoHolds(d), {}) : d \in CargoDocs}
GoReadings == [g \in BOOLEAN |-> {Reading(ParseGo(d), GoHolds(d), {}) :
                                    d \in {e \in GoDocs : e.hasGraph = g}}]
SbomReadings == {Reading(ParseSbom(d), SbomHolds(d), {}) : d \in SbomDocs}

Readings(source) ==
    CASE source = "npm-list" -> NpmReadings
      [] source = "pip-inspect" -> PipReadings
      [] source = "cargo-metadata" -> CargoReadings

(* Scopes are those of _SCOPE_PRECEDENCE, and the nodes of an npm document   *)
(* are numbered in its order.                                               *)
ASSUME DocumentsAssumption ==
    /\ \A d \in NpmDocs :
          /\ DOMAIN d \subseteq Nat \ {0} /\ InDocumentOrder(d)
          /\ \A n \in DOMAIN d : d[n].parent \in {0} \cup DOMAIN d /\ d[n].scope \in Scopes
    /\ \A d \in CargoDocs : \A e \in d.direct : e.scope \in Scopes
    /\ \A d \in SbomDocs : \A c \in d.components : c.scope \in Scopes

(* What a command has printed: the whole document if it succeeded, but if it *)
(* failed or was stopped perhaps one that is well formed and says too little. *)
Printed(source) ==
    Readings(source)
    \cup IF Outcome = 0 THEN {} ELSE {[r EXCEPT !.rows = {}] : r \in Readings(source)}

(* _detected_adapters, and the two commands of Go. *)
Adapters(p) ==
    (IF "npm" \in p THEN <<"npm-list">> ELSE <<>>)
    \o (IF {"python", "venv"} \subseteq p THEN <<"pip-inspect">> ELSE <<>>)
    \o (IF "cargo" \in p THEN <<"cargo-metadata">> ELSE <<>>)
    \o (IF "go" \in p THEN <<"go-list", "go-graph">> ELSE <<>>)

Keep(source, r) ==
    /\ rows' = rows \cup r.rows /\ read' = read \cup {source}
    /\ held' = held \cup r.holds /\ hidden' = hidden \cup r.hides
    /\ gaps' = gaps \cup (IF r.complete THEN {} ELSE {source})

Gap(source) == gaps' = gaps \cup {source} /\ UNCHANGED <<rows, held, hidden, read>>

-----------------------------------------------------------------------------
(* A complete SBOM is the whole inventory; one that is not is merged with   *)
(* what the commands say, and so is one that cannot be read or is not JSON. *)
(* The exception of a file that is not UTF-8 is not caught.  Python         *)
(* evidence counts only with an environment of the project, and a project   *)
(* without any evidence is a gap.                                           *)
ReadSbom ==
    /\ stage = "start" /\ "sbom" \in project
    /\ \/ \E r \in SbomReadings :
             /\ Keep("cyclonedx", r)
             /\ IF r.complete
                THEN stage' = "done" /\ inventory' = [rows |-> r.rows, complete |-> TRUE]
                ELSE stage' = "detect" /\ UNCHANGED inventory
       \/ Gap("cyclonedx") /\ stage' = "detect" /\ UNCHANGED inventory
       \/ stage' = "raised" /\ UNCHANGED <<gaps, read, rows, held, hidden, inventory>>
    /\ UNCHANGED <<project, queue, goOutput>>

Detect ==
    /\ stage = "detect" \/ (stage = "start" /\ "sbom" \notin project)
    /\ stage' = "commands" /\ queue' = Adapters(project)
    /\ gaps' = gaps
               \cup (IF "python" \in project /\ "venv" \notin project THEN {"pip-inspect"} ELSE {})
               \cup (IF queue' = <<>> /\ "sbom" \notin project THEN {"native-adapters"} ELSE {})
    /\ UNCHANGED <<project, goOutput, read, rows, held, hidden, inventory>>

Running == stage = "commands" /\ queue # <<>>

(* The command starts, or its executable is missing or cannot be run. *)
StartCommand ==
    /\ Running /\ waiter = "idle"
    /\ \/ \E v \in Volumes, forks \in BOOLEAN : Launch(v, forks) /\ UNCHANGED inventoryVars
       \/ /\ Gap(Head(queue)) /\ queue' = Tail(queue)
          /\ UNCHANGED <<project, stage, goOutput, inventory>> /\ UNCHANGED captureVars

(* A slip: whatever the command printed is parsed. *)
SucceededAlways == TRUE

(* Any code but zero, the two of run_command included, makes a gap. *)
Succeeded == Outcome = 0

FinishCommand ==
    /\ Running /\ Returns /\ Quiet(Outcome)
    /\ queue' = Tail(queue)
    /\ IF Head(queue) \in {"go-list", "go-graph"}
       THEN IF Succeeded
            THEN /\ goOutput' = goOutput \cup {Head(queue)}
                 /\ UNCHANGED <<gaps, read, rows, held, hidden>>
            ELSE Gap(Head(queue)) /\ UNCHANGED goOutput
       ELSE /\ \/ Succeeded /\ \E r \in Printed(Head(queue)) : Keep(Head(queue), r)
               \/ Gap(Head(queue))
            /\ UNCHANGED goOutput
    /\ UNCHANGED <<project, stage, inventory>>

(* parse_go_list; text that is not a stream of JSON is a gap. *)
ParseModules ==
    /\ stage = "commands" /\ queue = <<>> /\ "go-list" \in goOutput
    /\ goOutput' = {}
    /\ \/ \E r \in GoReadings["go-graph" \in goOutput] : Keep("go-list", r)
       \/ Gap("go-list")
    /\ UNCHANGED <<project, stage, queue, inventory>>

Combine ==
    /\ stage = "commands" /\ queue = <<>> /\ "go-list" \notin goOutput
    /\ stage' = "done"
    /\ inventory' = [rows |-> Merged(rows), complete |-> gaps = {} /\ read # {}]
    /\ UNCHANGED <<project, queue, goOutput, gaps, read, rows, held, hidden>>

InventoryStop == stage \in {"done", "raised"} /\ UNCHANGED collectVars

Collect ==
    \/ StartCommand \/ FinishCommand
    \/ (ReadSbom \/ Detect \/ ParseModules \/ Combine) /\ UNCHANGED captureVars

Run == Running /\ CaptureStep /\ UNCHANGED inventoryVars

InventoryNext == Collect \/ Run \/ InventoryStop

(* The main thread, the readers and the clock go on; a command need neither *)
(* write nor exit.                                                          *)
Fairness ==
    /\ WF_collectVars(Collect)
    /\ WF_collectVars(Running /\ WaiterStep /\ UNCHANGED inventoryVars)
    /\ CaptureFairness

InventorySpec == InventoryInit /\ [][InventoryNext]_collectVars /\ Fairness

-----------------------------------------------------------------------------
(* Properties *)

Needed ==
    (IF "npm" \in project THEN {"npm-list"} ELSE {})
    \cup (IF "python" \in project THEN {"pip-inspect"} ELSE {})
    \cup (IF "cargo" \in project THEN {"cargo-metadata"} ELSE {})
    \cup (IF "go" \in project THEN {"go-list"} ELSE {})

(* An inventory that calls itself complete has every package of every       *)
(* document that the project's evidence calls for, each with its strongest  *)
(* scope, or all of a complete SBOM: no missing tool, failed or cut off     *)
(* command, environment that is not the project's or malformed row between  *)
(* was passed over (collect_inventory and the parsers).  The exception is   *)
(* what an npm document has beneath a package that it installs a second     *)
(* time under the same parent package: parse_npm_list skips that without a  *)
(* reason, so of those packages any may be missing.                         *)
InventoryIsWhole ==
    stage = "done" /\ inventory.complete =>
        /\ \E seen \in SUBSET hidden : inventory.rows = Merged(held \cup seen)
        /\ Needed \subseteq read \/ read = {"cyclonedx"}

(* An inventory always comes to its end, whatever the commands do, unless a *)
(* process that a command left behind keeps its pipes open forever: only    *)
(* the command itself is bounded by its deadline.                           *)
InventoryEnds == <>[]heir \/ <>(stage \in {"done", "raised"})
=============================================================================
