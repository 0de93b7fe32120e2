# Formal models of aptible-mcp

This directory holds TLA+ models of the programs in this repository, TLC configurations that check
them on small instances, and proofs checked by TLAPS. The models are written from the code; where
a document, a comment or a test says something else, it is named under "Where the code and its
documents differ".

## The system

The repository holds three programs that do not call one another; the second reads files the third
writes.

1. **The MCP server** (`main.py`, `api_client.py`, `models/`): an asyncio process that offers
   tools to an assistant. Several tool calls may be in flight at once; they share one
   `AptibleApiClient` and meet only at its token, its HTTP pool and on the Aptible platform.
2. **The specification tooling** (`.agents/skills/spec-driven/scripts/`,
   `.specs/mcp-api-parity/scripts/`): commands that judge a specification's task list, publish it
   for the controller that carries it out, draw its flowchart, mirror it in an Orca run and hand
   ready tasks to workers. They meet in the files of the specification and run no server.
3. **The dependency audit** (`.agents/skills/dependency-security-audit/`): it gathers an inventory
   with native commands, asks advisory sources over HTTP, decides whether a change or a release
   may pass and leaves reports, which the specification checker reads as evidence.

### Inventory

| component | state it keeps | operations | how it interacts | what is hard | what makes it correct |
|---|---|---|---|---|---|
| operation wait and cancel (`api_client.py`, `models/operation.py`) | the deadline and the last answer, on the stack; the operation is the platform's | `wait_for_operation`, `OperationManager.cancel` | polled GETs; every operation-driven tool ends in a wait | answers that are old when they arrive, deadline against sleep and request time, deletion and cancellation meanwhile | outcomes match the operation; the wait is bounded; every wait ends |
| database tools (`main.py`, `models/database.py`) | ids resolved from handles, the snapshot, the account to search | create, clone, replicate, restore, rename, delete, scale, restart, ... | listings, POST of an operation, wait, rediscovery by handle | ids used after awaits, namesakes, late listings, failures after the operation started | the database returned is the one made; nothing outside the scope is removed; a returned call is done |
| listing and pagination (`models/base.py`) | `seen_paths`, `next_path`, the items | `ResourceManager.list` and the managers' one-page listings | GETs, one per page | cycles, the limit, links to other origins | complete and in order, or an error that is true |
| app, endpoint, service and drain tools (`models/app.py`, `vhost.py`, `service.py`, `log_drain.py`, `metric_drain.py`, ...) | none between calls | create, delete, configure, deploy, scale, run a command, provision and deprovision | register, start an operation, wait, fetch again | any step of several fails, loses its answer or is cut off by a stop of the server | a returned call has done all it was for; one operation at a time |
| client session (`api_client.py`) | the token, the organization, the HTTP pool | read the token, send, close | every component sends through it | a token that expires in a long-lived server | requests carry a token that is valid |
| Orca bridge (`spec-orca.py`) | `orca_run.json`: the run, the receipts, gates, dispatches | `sync`, `dispatch-ready`, `status`, `validate` | the Orca CLI, one call at a time | a call that fails or loses its receipt, tasks checked off meanwhile, a cycle of dependencies | receipts are real, dependencies mirrored, workers wait for dependencies |
| task list and its execution (`spec-check.py`, `render-gantt.py`, `sync_orca_flowchart.py`) | the boxes and the flowchart of `04_tasks.md`, the ledger, the sidecar `04_tasks.json` | judge the list, emit the sidecar, name the ready waves, check a sidecar against its text, render, recolour | the controller, the renderer and the watcher read and replace one file | a search that caches while it recurses; a stage whose tasks wait for each other; boxes lost between a read and a replace | cycles and stages are exact; an accepted list never gets stuck; waves are safe; nothing verified is redone; the list is carried out |
| dependency evidence gate (`spec-check.py`) | none; it reads records, reports, the tip and the clock | ownership of manifests and locks, the gate on a change and on a delivery | reads what audits and writers leave | reports replaced, copied or touched up, commits and edits meanwhile, windows of time | a change lies between two audits; a delivery is the commit that was audited; the ownership asked for is closed |
| advisory HTTP client, sources and search (`dependency_audit/http.py`, `sources.py`, `search.py`) | attempts; the pages and records read so far; NVD's prefetched entries | get with bounded retries; OSV's pages and records, GitHub, NVD, KEV; three kinds of search | the audit runner and the search command call them in sequence | retries, short or malformed answers, a batch that fails half way, a required source that fails | an incomplete answer is never taken for a complete one, and a failure a retry could cure costs nothing |
| inventory (`dependency_audit/inventory.py`) | the rows and gaps so far; per command two pipes, two buffers, a deadline | run a native command, parse five kinds of document, put one result together | the commands in sequence, two reader threads each | a reader that cuts off while the command exits or its time runs out; an orphan that keeps a pipe; one command of several fails | output reported as whole is whole; an inventory called complete misses nothing; the audit is not kept waiting |
| audit policy and runner (`policy.py`, `runner.py`) | the evidence, the findings and the decisions of one run, in memory | ask each service, correlate, enrich, classify, decide the gate | the services in sequence, then the report | any source fails, answers in part or late; contradictory evidence; the precedence of rules | no verdict without its evidence, known exploitation never passes, no answer is lost, none talks a finding down |
| audit reports (`reporting.py`) | the retained pair and the latest pair of files | `write_reports` | audits of several processes share the directory | a step of several fails and is rolled back, a process is killed, two audits of one second | retained evidence is never altered or lost; a write is all or nothing |
| accounts, stacks, certificates, maintenance, examples, resource models, routing | none of their own | lookups, single requests, parsing, formatting | | | |

`PROJECT.json` lists every component with its status, and every hazard at its line with the
properties that cover it, or why none does yet.

## The modules

| module | models | how its state and actions correspond to the code |
|---|---|---|
| `OperationWait` | `wait_for_operation`, `cancel`, and the platform around one operation | `pc` is the await the call is at. `Poll` is the loop head with the request it sends; `NextPhase`, `ServerAnswers`, `TransportError` and `Receive` are the request, whose phases httpx times one by one; `Wake` ends the sleep. `CancelGet` and `CancelPut` are the two requests of `cancel`. `now` is the event loop's clock. |
| `OperationResolution` | what a caller may rely on, without clock or polling | `Permitted` is the set of outcomes that the operation's state justifies; `Settle` ends the call once. |
| `DatabaseTools`, `MCDatabaseTools` | all database tools, as concurrent calls | one action is what a call does between two awaits: `Lookup` is `getDatabase`, `ResolveScope` is `_restore_account_id`, `Snapshot` is `_snapshot_database_ids`, `Post` starts the operation, `WaitEnds` waits, `Discover` is one attempt of `_find_new_database`. |
| `Pagination` | `ResourceManager.list`, and the one-page listings | `path`, `seen`, `items` are the code's variables; `turns` is the loop's counter; one action per iteration, one for each way the loop ends. |
| `Provisioning` | the tools for apps, endpoints, services and drains | `Plan` is the order of a tool's requests, with a definition for each of the managers' methods; a call is at a step `at` of its plan; `Crash` stops the server. |
| `OrcaBridge`, `MCOrcaBridge` | `sync` and `dispatch-ready --apply` | one action per call of the Orca CLI with the save of its receipt; `file` is `orca_run.json`, `orca` is what the Orca server holds. |
| `TaskGraph` | the rules on a task list in `spec-check.py` | `NextRoot`, `Visit` and `Return` are the depth-first search, with the calls that are open on `stack` and its cache; the operators before them are the checks on a block and between blocks, and `Judge` puts them together. |
| `SpecExecution`, `MCSpecExecution` | an accepted list carried out | `pc` is the script the controller is at; one action per script and per replace of a file, the watcher's pass in its three steps (fetch, read, replace), and workers that finish or fail. |
| `ResolutionOwnership` | which manifests and locks a task that changes dependencies must own | `Missing` is `_resolution_ownership_errors`; `Widen` is the author who adds what it names, until it names nothing. |
| `DependencyGate`, `MCDependencyGate` | the evidence gate, after `ResolutionOwnership` | an audit opens (mode, time, revision), collects (the lock) and publishes; records are copied from reports; `GateOpen`, `GateRead`, `GateClock` and `GateJudge` are the gate's reads in the code's order and its judgement. |
| `HttpClient` | `RetryingHttpClient` | `Repeat` is an attempt that is tried again, `Failed` one that is not, `Answered` one that brought a JSON value, whole or damaged; `attempt` counts. |
| `AdvisorySources` | the clients of OSV, GitHub, NVD and KEV | `PageRead`, `RecordFetched`, `BatchRead`, `Enrich` and `KevRead` are the handling of one answer, `PageFailed` and `BatchFailed` that of none, `QueryLost` that of an exception the client does not catch; the damaged forms of an answer are those the client can see. A CVE that several GHSAs name (`Ambiguous`) has no record in GitHub's lookup. |
| `AuditInputs`, `MCAuditInputs` | the requests of `run_audit` and of the three searches | `phase` is the service asked next, `wanted` what is left to ask; `verdict` is the status of a search. |
| `CommandCapture` | `run_command` with its two readers | the main thread, each reader, the child and its orphan are actors; a chunk is one read. |
| `InventoryParsers` | the parsers of `inventory.py` | one operator per parser: rows, edges, and whether something was skipped. `Walks` is the set of nodes that the walk of an npm tree comes to, `Hidden` what is beneath repeated nodes. |
| `ProjectInventory`, `MCProjectInventory` | `collect_inventory`, over the two above | `queue` is the commands to run; a command that finishes is parsed or named as a gap; `Combine` is the result. |
| `ReportStore`, `MCReportStore` | `write_reports` and the file operations under it | one action per link, comparison, staging, backup, rename and unlink, of each writer; `files` is the directory; `Step` may fail at any of them, `Crash` kills the process |
| `AuditRun`, `MCAuditRun` | `run_audit`, with the correlation of `sources.py` and the rules of `policy.py` | one action per call of a service, in the code's order; `sources` holds what each said beside the state the code gave it; `Correlate`, `Classify`, `Decide` and `Gate` are the pure functions of those names |
| `OperationProofs`, `ResourceProofs` | theorems about `OperationWait` and `Provisioning`; about `DatabaseTools` and `Pagination` | see "What is proved" |
| `ReportStoreProofs`, `AuditRunProofs`, `AuditInputsProofs` | theorems about the module before the suffix; the last also about `ProjectInventory` | |
| `OrcaBridgeProofs`, `DependencyGateProofs`, `SpecExecutionProofs` | theorems about the module before the suffix and what it extends | |

How they compose: `SpecExecution` EXTENDS `TaskGraph`, `DependencyGate` EXTENDS
`ResolutionOwnership`, `AuditInputs` EXTENDS `AdvisorySources` EXTENDS `HttpClient`, and
`ProjectInventory` EXTENDS `CommandCapture` and `InventoryParsers`. `DatabaseTools` and
`Provisioning` do not model polling again: their waits end in one of the outcomes
`OperationResolution!Permitted` allows, and `OperationWait` is shown to implement that module, by
TLC with its liveness and by TLAPS for its safety. `AuditRun` takes the answers of the services as
whole, partial or missing; what makes them so is `ProjectInventory` and `AuditInputs`.
`DependencyGate` keeps of `AuditRun` and `ReportStore` what a reader of the reports can see.

The definitions that stand under a comment beginning "A slip" are not part of a model. They are
the code as a plausible mistake would have it, one for each property, and serve to show that the
property would notice.

## The runs

Passing runs:

| run | properties | shows |
|---|---|---|
| `operation_wait` | `OutcomeMatchesOperation`, `TimeoutIsJustified`, `WaitEnds`, `ImplementsResolution` | a wait returns only for what succeeded or is gone and fails only for what failed, a timeout overlooks only a recent finish, every wait ends, and the loop implements `OperationResolution` with its fairness |
| `database_tools` | `ReturnsOwnDatabase`, `RemovesOnlyInScope`, `ReturnedIsDone` | a maker returns its own database unless another call contends for the handle, nothing out of scope is removed, a returned call is done |
| `pagination` | `ListedIsComplete` | a listing is the whole chain of pages, in order |
| `provisioning` | `ReturnedIsDone`, `OneOperationAtATime` | a returned call is done, and a call has one operation at a time and builds on no unfinished one |
| `orca_bridge` | `ReceiptsAreReal`, `DepsAreMirrored`, `SyncedIsMirrored`, `WorkersWaitForDeps`, `CommandsEnd` | receipts are real, dependencies are mirrored, a returned sync has mirrored everything, workers wait for dependencies, commands end |
| `report_store` | `PublishedIsRetained`, `EvidenceIsImmutable`, `CallIsAtomic` | retained evidence stays whole and unaltered, and a write that meets no other is all or nothing |
| `audit_run` | `CleanIsEvidenced`, `ExploitedBlocks`, `NothingIsErased`, `NeverLoosened` | what each verdict rests on, known exploitation never passes, nothing is erased, nothing is talked down |
| `spec_execution` | `CyclesAreReported`, `StagesAreLongestChains`, `NeverStuck`, `WavesAreSafe`, `NothingIsRedone`, `FlowchartIsTruthful`, `PlanIsCompleted` | the search finds exactly the cycles and the longest chains; an accepted list always has a next step; waves are safe beside the watcher; without it no work is repeated and the flowchart is true; the list is carried out |
| `dependency_gate` | `OwnershipIsClosed`, `ChangeIsBracketed`, `DeliveryIsAudited`, `RecordIsNeverCommitted` | the ownership asked for reaches every lock that resolves; what the gate lets through was audited as it says |
| `project_inventory` | `CapturedIsWhole`, `InventoryIsWhole`, `InventoryEnds` | a command's output is whole if the command is said to have succeeded; a complete inventory misses nothing but what is beneath a repeated npm package; it ends unless an orphan keeps a pipe for ever |
| `audit_inputs` | `OsvAnswerIsWhole`, `AbsenceIsReal`, `FailureIsEarned`, `NoMatchIsReal` | an answer called complete, absent or unmatched is so; what a retry could cure costs nothing, and the failures that remain are those the property names |

The bounds, and why they are enough:

- `operation_wait`: time limit 5, interval 2, two request phases of 1, a wait that starts at 0 or
  1, a clock to 9. That is three polls, a sleep cut at the deadline (5 is odd), a request that
  straddles the deadline, and a finish in the last sleep. `MaxNow` is past every deadline plus one
  request, so that it never ends a wait.
- `database_tools`: two calls of any of seven kinds, two old databases under every assignment of
  two handles and two accounts, two discovery attempts. Two calls are the fewest that can
  interfere, and each hazard involves one call and one other; the old databases are namesakes in
  the same account and in the other; one attempt is followed by another and one is the last.
- `pagination`: five pages, one of another origin, every way they can link, and a limit of three:
  listings shorter than, equal to and longer than the limit, cycles of every length up to three.
- `provisioning`: two calls of any of nine kinds, one old resource, one stop of the server.
- `orca_bridge`: two tasks of one stage with every graph between them, one a checkpoint; two
  interrupted calls, so that a sync is interrupted, repeated, interrupted and repeated again;
  three terminals, so that a task can be dispatched twice.
- `report_store`: two writers, three calls, two documents of one second and one of a change; two
  failing steps, which may be a step and its rollback; one killed process. Writers and slugs are
  symmetric.
- `audit_run`: an audit of each mode, three inventories of up to two packages, three OSV records
  (two joined by the third, which is withdrawn), a native one, one secondary source, and one gap,
  which fails, shortens or delays any one of the answers. The verdict is a disjunction over the
  sources, so that two gaps hide nothing one does not, and the proofs hold for any number.
- `spec_execution`: lists of three tasks: every graph on them, and four lists with all that differ
  from one of these in one field; one failing attempt; the watcher beside a fork and a chain.
  Three tasks have cycles of every length up to three, a cycle entered from outside and a task
  reached on two ways.
- `dependency_gate`: both windows are one step of a clock that goes to 2, so that a record can be
  in, at and past its window; two audits, one edit, one commit, one file copied by hand, two
  contents of the lock (symmetric), audits that end well or badly. A change needs two audits with
  an edit between them, a delivery one and a commit after it. The ownership part has a package, a
  member and one below it, with every subset of locks and of workspace relations.
- `project_inventory`: an output limit and a pipe of one chunk and commands that write up to two:
  a command can block on a full pipe, be cut off, or stay below the limit. Five projects (npm and
  pip with a virtual environment, Go, Cargo with an SBOM, pip without an environment and with an
  SBOM, nothing), documents of up to two or three rows with each kind of flaw the parsers look
  for. An npm tree has up to three nodes: two installs of a package, of which only the second has
  a child, are the smallest tree that loses one.
- `audit_inputs`: three attempts as in the code and three faults, so that a request can fail for
  good or three requests once; six identifiers of three families, with a CVE that one GHSA names
  and one that two name; three packages whose pages are
  fewer than, as many as and more than the two that are read; NVD's batch of one, so that the
  first of two batches can succeed and the second fail.

`CHECK_DEADLOCK FALSE` appears where every call, or the specification itself, may be over.

### Fairness

- A request ends: httpx times every phase (`request_timeout_seconds`), so the step that follows is
  taken. In `OperationWait` this is fairness of `TransportError` once the phase is overdue, of the
  program's own steps, and of the clock. Nothing is assumed of the platform: it may leave an
  operation running for ever and answer nothing.
- In `OrcaBridge` the calls of the CLI have timeouts, so the steps of a command are fair. The user
  need not start any.
- In `SpecExecution` the controller goes on to its next script and a worker either finishes or
  fails; both follow from the skill the controller follows, and the attempts that fail are
  bounded. Nothing is assumed of the watcher; `PlanIsCompleted` says what follows if it leaves the
  file alone from some point on, for a watcher that goes on replacing it may lose boxes for ever.
- In `ProjectInventory` the main thread, the readers and the clock go on. The command need neither
  write, nor obey a signal it can ignore, nor exit of itself, and a process it leaves behind may
  keep the pipes for ever: the code joins its readers without a time limit, so `InventoryEnds` has
  that exception.
- `OperationResolution` is fair in that a call is settled in the end; `OperationWait` is shown to
  be.
- The other modules have safety properties only and state no fairness.

### Where the code and its documents differ

`database_copy_relation` checks `AccountRelationExposed`, which every database satisfies, and TLC
finds it violated: `cloneDatabase` and `replicateDatabase` parse a dump that has lost its links
and always fail (`main.py:537`). `PROJECT.json` quotes the statement.

Smaller differences that the models show but no run is kept for, in the server:

- A 404 ends the wait of any operation as a success (`api_client.py:244`; R25.1 asks for a
  terminal state). An operation that finishes in the last sleep "did not complete"
  (`api_client.py:236`).
- A database renamed to the handle after the snapshot is taken for the new one (`main.py:407`,
  against the docstring at 384).
- One-page listings ignore the next link (`models/metric_drain.py:103`; R5.2). An error in
  fetching the logs of a failed command replaces the command's (`models/app.py:165`; R24.2).

In the audit:

- Evidence gathered more than five minutes after the audit started counts as stale
  (`runner.py:776`, against `sources.md:34`), so that a slow main or release audit is unavailable.
- The runner fills in a mitigation (`runner.py:717`, against `policy.md:15`), so that an approval
  alone passes a release with a finding that has no fix.
- A withdrawn record withdraws every record it shares an identifier with, and `block_severities`
  is a set and not a threshold, so that a secondary source which raises a severity out of it turns
  a block back into a warning.
- The temporary file of a latest report stays when its text cannot be written
  (`reporting.py:515`).
- A change audit writes `latest.*` only (`reporting.py:262`), while the template of a task expects
  `pre-change.*` and `post-change.*` (`artifacts.md:621`): somebody has to copy the first before
  the second replaces it.
- A crate that is a direct development dependency and a transitive runtime one is listed as
  development, although `parse_cargo_metadata` says that runtime wins. The walk of an npm tree
  visits a package below a parent package once (`inventory.py:139`), and passes over what only a
  second install of the pair contains, without a reason: the inventory still calls itself
  complete. That is the exception in `InventoryIsWhole`. An SBOM that is not UTF-8 raises out of
  `collect_inventory`, which catches the other ways of being unreadable (`inventory.py:502`); a
  project with `package.json` and no `package-lock.json` is not looked at. A Cargo package
  without a resolved node adds no reason.
- GitHub's list of two or more advisories for one CVE is well formed, and is treated as an
  invalid schema: the answer is partial, without a record (`sources.py:785`; the docstring at 768
  speaks of malformed schemas). That is one of the exceptions in `FailureIsEarned`.
- An exception of `http.client` that is no `OSError`, as for a body that is cut off, is neither
  retried nor turned into an `HttpRequestError` (`http.py:206`). The query of OSV then keeps
  nothing of what it has read, and a batch of NVD does not set `_prefetch_failure`, so that later
  lookups ask again.
- A malformed entry of an NVD batch counts as no match (`sources.py:960` says otherwise), which is
  the exception in `NoMatchIsReal`.
- The readers of a command are joined without a time limit, so that its timeout does not bound the
  call.

In the specification tooling:

- A gate whose call failed is never made by a later sync (`spec-orca.py:267`, against the
  docstring at 223).
- The watcher may undo a box the coordinator checks (`sync_orca_flowchart.py:98`, against
  `SKILL.md:16`).
- Committing a delivery record moves the tip, so that the gate then refuses it, and a leaf that is
  checked off fails the gate once its evidence is a day old.
- The gate compares the fingerprints of two reports with one another and never with the lock there
  is now.

## What is proved

Every safety property of the passing runs, and the one action property, is also proved by TLAPS
for every value of the constants that the modules' named assumptions allow. The assumptions say
what the code or its inputs guarantee: bounds are naturals, sets that hold different things are
disjoint, what a document lists is finite. TLC evaluates each of them in the runs.

`OperationProofs`, first part, proves for every time limit, interval, request timeout and number
of phases that `OperationWaitAssumption` allows (naturals, the time limit and the phases positive):

- `TypeCorrect`: every variable stays in its set;
- `OutcomeCorrect`: a wait returns only for an operation that succeeded or is gone, and reports a
  failure only for one that failed;
- `TimeoutCorrect`: a timeout comes after the deadline, and what it overlooks finished no earlier
  than one poll and one sleep before it;
- `WaitIsBounded`: the call is over one request after its deadline at the latest;
- `RefusalCorrect`: `cancel` refuses only what is finished;
- `Refinement`: every behaviour satisfies `OperationResolution!SafetySpec`.

The properties are not inductive. `OutcomeMatchesOperation` depends on the answer under way, which
was true when the server gave it: `AnswerInv` says why it still is (no step leaves a done state or
brings a record back). `BoundedWait` depends on the clock standing still while the program can act
and on the phases adding up: `ClockInv` bounds the clock state by state. `TimeoutIsJustified`
depends on how long ago the loop last looked: `FreshInv` says that what it has not heard of
happened after the last poll was sent, and that the sleep ends one poll and one interval after it
at the latest. `IInv` is the conjunction of these with the properties; each part has a lemma that
a step keeps it, with one case for each action.

`OperationProofs`, second part, proves of the tools that provision, for any calls, resources,
tools and number of crashes, `ReturnedIsComplete` and `OneAtATime`. The plans of the tools are
shown to be well made first (`PlansAreWell`): every operation is waited for in the next step,
none is started twice, a deploy comes after its configuration. The invariant `ProvisioningInv`
then says of a call under way that it has asked for the operations of the steps behind it only and
that all but the one it waits for are done (`AskedOK`). A call that returns stands at the end of
its plan, so that all are done; `run_command`, which goes on to the logs after an operation that
failed, ends with that failure. Two operations cannot run at once because the one asked for last
is the only one that is not done. `ProvisioningTypes` is the type invariant.

`ResourceProofs`, first part, proves of the database tools, for any concurrent calls, databases,
handles and accounts, `ReturnsDone`, `RemovesInScope`, `ReturnsOwn` and the types
(`DbTypeCorrect`). `DbInv` says what each call
holds at each place it goes through. The scope a delete was given fits the database it found,
and a database never changes its account, so that no rename in between matters (`ScopeOK`). A
status is success, or its operation's record is gone, only if what the operation was for has
happened (`StatusOK`). A restore discovers by handle: every database of its account that bears the
handle was there before, and is then in the snapshot, or is its own, or another call contends for
the handle (`SnapshotOK` and the parts after it).

`ResourceProofs`, second part, proves `ListedCorrect` and `ListTypes` for any pages, links and
limit: what was read is a chain of links from the first page without repetition (`Chain`), and the
loop goes on from the last page's link (`Position`), so that a listing that is returned ends where
the chain does.

`ReportStoreProofs` proves, for any writers, documents and bounds:

- `TypeCorrect`;
- `RetainedForever`: the evidence of a main or release audit whose write returned stays whole;
- `Immutable`: a retained file changes only from absent to a text, and back to absent only in the
  withdrawal of the call that created it;
- `AllOrNothing`: a call that raises leaves the directory as it found it, and one that returns has
  written all it had to, unless another call overlapped it or undoing failed too.

What is retained depends on who may unlink it: the invariant says that a file is withdrawn only by
the call that created it, which has not returned, and that a call returns only after it saw both
files hold its text, which no other call can then withdraw. For `AllOrNothing` a clean call is
alone, and `Traced` says, for every place of the call and of its rollback, how the directory
differs from the one it found: by what was done and is not undone yet.

`AuditRunProofs` proves, for any packages, records, identifiers, services, policies and number of
gaps that `AuditRunAssumption` allows (a record carries its own identifier, the two kinds of
records are disjoint, a secondary source is not named as a primary one):

- `AuditTypes`;
- `VerdictIsEvidenced`: a verdict other than unavailable rests on a whole inventory and on sound
  answers of every required source;
- `ExploitationBlocks`: known exploitation of an installed package never ends in exit 0;
- `AnswersAreKept`: no record for an installed package is lost on its way to the findings;
- `DecisionsRise`: neither a policy nor a secondary source takes a decision back.

The argument about findings is that correlation is a partition: the components of linked records
are disjoint (`GroupsAreDisjoint`), so that a canonical identifier names one group only and a
finding cannot overwrite that of another (`GroupHasKey`). From there the invariant `FindingsOK`
says that the findings are those of the primary evidence, up to a severity that was raised, and
that each decision is the one the rules take on its finding. The argument about the verdict is
`EvidenceOK`: once a step of the audit is past, the answer of its source is there, and a
contradiction of the native auditors is on record, on every path except the one of an unchanged
graph, which exists for a change only.

`AuditInputsProofs`, first part, proves, for all sources and what they hold, packages, pages,
batch sizes and numbers of faults, `WholeAnswer`, `AbsenceProved`, `FailureEarned`,
`NoMatchCorrect` and `InputsTypes`. `FactsInv` has a part for each thing a later conclusion rests
on. While OSV is asked, and unless the answer is partial already, what a page holds is listed or a
query is still out that will come to the page, although the queries that go on change their places
from one reply to the next (`OsvInv`); what was listed is fetched or still to be fetched. An
advisory search has asked the owner of its identifier or still will, and an answer that is whole
put what the source holds among the records (`CallInv`). As long as no fault was earned, nothing
is partial, sticky or dented (in each part), from which `FailureEarned` follows; and what the
prefetch stored as empty is empty but for entries that could not be read (`StoredIsReal`). Each
kind of search then completes only on such answers.

`AuditInputsProofs`, second part, proves `CaptureCorrect` and `CaptureTypes` for any limit, pipe
and volume, and `InventoryCorrect` and `InventoryTypes` for any projects and documents. What a
reader has not kept is in its pipe until it gives up, and it gives up only after it set the flag
that the main thread looks at last (`ReaderInv`); the rows so far are those of the documents read
(`RowsAgree`), and a command that is over was read or is named as a gap (`StageInv`). The walk of
an npm tree is recursive in the code. The model says which nodes it comes to by an equation
instead: those of the root, and the children of those it descends into, which depends on earlier
nodes alone. `OneWalk` proves that no two sets satisfy it. `WalkMeets` proves, by a least
counterexample, that the walk of a tree whose versions are exact comes to every node but those
beneath a repeated one, so that nothing else is missing from a result that is complete.
`DocumentsAssumption` says no more than that scopes are those of the code and that the nodes of a
tree are numbered in the order of the document.

`OrcaBridgeProofs` proves, for any tasks, stages, graphs and numbers of interruptions,
`ReceiptsCorrect`, `DepsCorrect`, `WorkersWait`, `MirrorComplete` and `BridgeTypeCorrect`. A
receipt is saved after the record it is for was made, and what is made later never changes an
earlier record's references (`RefersBack`); a sync creates a task only when all it depends on have
receipts (`SyncInv`), and a dispatch picks a task whose dependencies were checked off when it read
the list, and boxes stay checked for its duration (`DispatchInv`). A sync comes to its end only
with nothing left to mirror; and until a call is interrupted, a checkpoint that has a mirror is
checked off, has its gate, or is the one whose gate is being made (`GatesInv`). The types add that
no dispatch creates more terminals than it was granted (`TerminalsInv`), for which the tasks are
finitely many.

`DependencyGateProofs` proves, for all windows, locks, modes and numbers of audits, edits, commits
and copies, `ChangeBracketed`, `DeliveryAudited` and `RecordOutside`. Every report under any name
is that of an audit in the log (`SourcesAreAudits`), the log is in the order of the audits' times
(`LogIsOrdered`) and names revisions of the past only (`RevisionsArePast`); what the gate has read
so far is then the report of an audit, whatever is copied over its name meanwhile. It also proves
`OwnershipClosed`, for any tree of files and any families of names that `OwnershipAssumption`
allows: after one round of additions only the locks that a workspace takes a member for can be
missing, and after two nothing (`OwnInv`). The assumption says that a name is of one family, and
that a lock is no manifest and belongs to the family of its manifest, as the constants of
`spec-check.py:796-819` have it.

`SpecExecutionProofs`, first part, proves of the search of `spec-check.py`, for lists of any
length, any dependencies and any order in which they are visited, `CyclesReported` and
`StagesAreLongest`:

- the open calls are a path of dependencies from the root down that never comes back to itself,
  and a cached stage is one more than the greatest of the stages it depends on, which are all
  known (`SearchInv`);
- an elementary cycle that is not reported yet starts at the root of the search or later, and if
  it starts at the root and the open calls follow it so far, its next task is still to be visited
  (`CyclesArePursued`). This is why the cache loses no cycle: a task with a cached stage is on
  none;
- a task that got no stage needs one that is missing or lies on a cycle (`MissingIsJustified`).

Statements on all chains of a graph call for induction on their length. Where one is needed it is
made as an argument on a least counterexample, from the library's theorem that the naturals are
well founded (`LeastNatural`).

`SpecExecutionProofs`, second part, proves of the execution of an accepted list `SomethingIsReady`,
`WavesSafe`, `NothingRedone`, `FlowchartTruthful`, `TypeCorrect`, and `SearchIsKept`: the execution
takes steps of the search only as `TaskGraph` allows them. On an accepted list stages grow along
dependencies (`AcceptedList`), so that a task of the active stage waits for nothing that is left to
do (`ReadyExists`). Whoever holds a copy of the boxes holds boxes of verified tasks only,
whatever the watcher writes back (`BoxesAreEarned`); this is what keeps waves safe beside it.
Without it the boxes are the verified tasks at every place where a copy is about to be used
(`FilesAgree`).

## What is only model-checked

- Liveness is out of the prover's reach: `WaitEnds`, `CommandsEnd`, `PlanIsCompleted`,
  `InventoryEnds`, and the fairness of `OperationResolution` in `ImplementsResolution`.
- That the equation for the walk of an npm tree has a solution for every document is not proved:
  that is an induction over the tree. In a run a tree without one would have no reading.
- `AccountRelationExposed` is violated, see above.

## What is abstracted, and what is not modelled

- Payloads are reduced to what the properties tell apart: a page stands for its items, a database
  for its handle and account, a tool's fields for the operation it starts.
- The platform is modelled as the code uses it: it may take, lose or refuse any request, make a
  database late to appear and fail any operation. Its paging is a fixed set of pages, so a listing
  that changes while it is read is not covered.
- `DatabaseTools` leaves out a stop of the server, which `Provisioning` has. In `Provisioning`,
  `renameApp`, `updateServiceSettings` and `modifyEndpoint` are single PUTs and left out.
- Two report writes may overlap in any way, and the latest pair may then be of two audits: the
  code takes no lock and promises a whole pair to a single writer only.
- `AuditRun` reduces a version to whether a fix is known, a severity to high or not, and evidence
  of unreachability to the package. The rows of native auditors' output are left out.
- `AuditInputs` takes its inventory as a constant and is not composed with `ProjectInventory`. Of
  NVD's prefetch only the identifiers of OSV's records are asked for. The lengths of sleeps are
  left out.
- In `AuditRun` a package has a recommended version exactly if each of its findings has a fix. The
  callback `is_safe_version`, which a caller may pass and which may refuse such a version or take
  another (`policy.py:185-197`), is left out but for whether there is one.
- In `ReportStore` a link and the note that it was made are one step (`reporting.py:570-582`). A
  fault between the two would leave the evidence in place when the call is rolled back.
- `OrcaBridge` leaves out that a run can be named with `--run`, and the error if another is saved
  (`spec-orca.py:207-215`); its run is the one it creates or has saved.
- In `SpecExecution` the watcher compares the colours of a flowchart, where the code compares and
  rewrites the whole text (`sync_orca_flowchart.py:69-93`).
- In `AuditInputs` the states of the native auditors' answers are kept but no property speaks of
  them; the auditors are there because sources are asked before and after them.
- Commands of the Orca bridge run one at a time, and a save is one step: two commands at once
  would lose each other's receipts.
- In `SpecExecution`, `NothingIsRedone` and `FlowchartIsTruthful` hold without the watcher only,
  which may undo a box. A replace of a file is one step. What the controller does between scripts
  is taken from its instructions, not from code.
- `DependencyGate` leaves out the form of records and the Context7, edit and test records beside
  them: a leaf that is wrong in these is refused whatever else is true. A record is written once;
  audits, edits and writing wait while the gate runs, for it is the last command of a leaf, while
  commits, the clock and copies of files do not; one audit runs at a time.
- **Not modelled.** The client session: its token, organization and pool are read or built once
  and kept, with no second actor that changes them, and a refused request is in the modules that
  send it. Accounts, stacks, certificates and maintenance are lookups and single requests. The
  resource models, redaction, examples, renderers' layout and routing tables are data shaping or
  formatting. `reachability.py` scans text. The rules of `spec-check.py` on the Markdown of
  requirements, links and forms are text matching without state.

## Plan

The parts of the system with state, order or failure of their own are modelled, and their safety
is proved. What is left:

1. Composing `AuditInputs` with `AuditRun`: that a state the runner records for a source is one
   that `AuditInputs` lets it record, as a refinement.
2. The rows of the native auditors, with the failures `runner.py` tells apart, as inputs of
   `AuditRun`.
3. `Provisioning`'s and `DatabaseTools`' waits as instances of `OperationResolution`, for which
   their outcomes are now taken one by one.
4. A listing that changes while its pages are read, should the code come to promise something of
   it.
