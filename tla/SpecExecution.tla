--------------------------- MODULE SpecExecution ---------------------------
(***************************************************************************)
(* An approved task list carried out: the controller lets spec-check.py    *)
(* judge and publish the list, starts the waves it names, checks off what  *)
(* is verified, and has render-gantt.py redraw the flowchart, while the    *)
(* watcher sync_orca_flowchart.py recolours the same file on its own.      *)
(*                                                                         *)
(* 04_tasks.md is its boxes and the colours of its flowchart; the ledger   *)
(* in 05_execution.md is the outcome of each task's latest attempt; the    *)
(* sidecar 04_tasks.json is the text it was generated from, which stands   *)
(* for its hash and for all that is computed from that text.               *)
(*                                                                         *)
(* What the controller does between the scripts is instructions to an      *)
(* agent and not code; it follows .agents/skills/spec-execute/SKILL.md.    *)
(***************************************************************************)
EXTENDS TaskGraph

CONSTANTS WatchedPlans,  \* the task lists beside which the watcher may run
          MaxFailures    \* how many attempts may fail in all

ASSUME FailuresAssumption == MaxFailures \in Nat

VARIABLES watching,        \* does the watcher run
          boxes, colours,   \* 04_tasks.md: the tasks checked, the colour of each node
          ledger,           \* 05_execution.md: the outcome of the latest attempt
          sidecar,          \* 04_tasks.json: the text it is of, or None
          pc, text,         \* the controller's script: where it stands, what it read
          running,          \* the tasks that workers have in hand
          verified,         \* the tasks whose work was verified, whatever the files say
          failures,
          watcher           \* where the watcher stands, what it fetched, what it read

vars == <<plan, root, stack, computed, cycles, verdict, watching, boxes, colours, ledger,
          sidecar, pc, text, running, verified, failures, watcher>>

None == [boxes |-> {}, colours |-> <<>>]
Colour == {"pending", "in_progress", "failed", "done"}
Outcome == {"none", "active", "failed", "verified"}
Plain == [t \in Task |-> "pending"]

tasksMd == [boxes |-> boxes, colours |-> colours]

Required == {t \in Task : ~plan[t].optional}

-----------------------------------------------------------------------------
(* What spec-check.py computes from a text: compute_execution_view.        *)

StageSource(b) == IF Required \ b # {} THEN Required \ b ELSE Task \ b

ActiveStage(b) ==
    CHOOSE s \in {plan[t].stage : t \in StageSource(b)} :
        \A t \in StageSource(b) : s <= plan[t].stage

\* A slip: checked tasks stay in the pool.
ActivePoolAll(b) == {t \in Task : plan[t].stage = ActiveStage(b)}

ActivePool(b) ==
    IF Task \ b = {} THEN {} ELSE {t \in Task \ b : plan[t].stage = ActiveStage(b)}

Ready(b) == {t \in ActivePool(b) : Deps(t) \subseteq b}

\* build_task_waves: all parallel tasks at once, otherwise the first of the serial ones.
FirstWave(b) ==
    LET parallel == {t \in Ready(b) : plan[t].parallel}
    IN  IF parallel # {} THEN parallel
        ELSE {t \in Ready(b) : \A u \in Ready(b) : t <= u}

\* A slip: a failed attempt is not looked at.
StatusNoFailure(t, b) ==
    CASE ledger[t] = "active" -> "in_progress"
      [] ledger[t] # "active" /\ t \in b -> "done"
      [] OTHER -> "pending"

\* derive_task_statuses of render-gantt.py: an open attempt counts more than a box.
StatusOf(t, b) ==
    CASE ledger[t] = "failed" -> "failed"
      [] ledger[t] = "active" -> "in_progress"
      [] ledger[t] \notin {"failed", "active"} /\ t \in b -> "done"
      [] OTHER -> "pending"

\* derive_task_status_projection of spec-check.py, which nothing but its tests uses.
Projection(t, b) ==
    LET done(u) == ledger[u] = "verified" \/ (u \in b /\ ledger[u] = "none")
    IN  CASE done(t) -> "done"
          [] ledger[t] = "active" -> "running"
          [] ledger[t] = "failed" -> "failed"
          [] OTHER -> IF \A d \in Deps(t) : done(d) THEN "ready" ELSE "blocked"

\* ORCA_TO_DIAGRAM: Orca knows an attempt by the events of its worker.
OrcaStatus(t) ==
    CASE ledger[t] = "verified" -> "done"
      [] ledger[t] = "active" -> "in_progress"
      [] ledger[t] = "failed" -> "failed"
      [] OTHER -> "pending"

-----------------------------------------------------------------------------
Init ==
    /\ GraphInit
    /\ watching \in BOOLEAN /\ (watching => plan \in WatchedPlans)
    /\ boxes = {} /\ colours = Plain
    /\ ledger = [t \in Task |-> "none"]
    /\ sidecar = None
    /\ pc = "judge" /\ text = None
    /\ running = {} /\ verified = {} /\ failures = 0
    /\ watcher = [at |-> "idle", status |-> Plain, text |-> None]

\* The first check judges the graph; the later ones judge the same graph again.
Graph ==
    /\ pc = "judge" /\ verdict = "open"
    /\ GraphNext
    /\ pc' = CASE verdict' = "accepted" -> "emit"
               [] verdict' = "refused" -> "refused"
               [] OTHER -> "judge"
    /\ UNCHANGED <<watching, boxes, colours, ledger, sidecar, text, running, verified,
                   failures, watcher>>

\* A slip: the sidecar is not written again after the flowchart is injected.
CheckInjected(from, to) ==
    /\ pc = from /\ pc' = to
    /\ text' = tasksMd
    /\ sidecar' = IF from = "check" THEN sidecar ELSE text'
    /\ UNCHANGED <<watching, boxes, colours, ledger, running, verified, failures, watcher>>
    /\ UNCHANGED graphVars

\* main reads 04_tasks.md once; what it computes and the sidecar it writes are of that text.
\* Nobody else reads the sidecar, so the writing of it can be one step with the reading.
Check(from, to) ==
    /\ pc = from /\ pc' = to
    /\ text' = tasksMd
    /\ sidecar' = text'
    /\ UNCHANGED <<watching, boxes, colours, ledger, running, verified, failures, watcher>>
    /\ UNCHANGED graphVars

\* The freshness check reads the Markdown again.
Stale == sidecar # tasksMd

\* A stale sidecar fails the check, and a check that failed names no ready task.
Answer ==
    /\ pc = "answer"
    /\ pc' = CASE Stale -> "check"
               [] ~Stale /\ running # {} -> "wave"
               [] ~Stale /\ running = {} /\ text.boxes # Task -> "dispatch"
               [] OTHER -> "complete"
    /\ UNCHANGED <<watching, boxes, colours, ledger, sidecar, text, running, verified,
                   failures, watcher>>
    /\ UNCHANGED graphVars

\* The controller gives the first wave to workers and opens their rows of the ledger.
Dispatch ==
    /\ pc = "dispatch"
    /\ FirstWave(text.boxes) # {}
    /\ running' = FirstWave(text.boxes)
    /\ ledger' = [t \in Task |-> IF t \in running' THEN "active" ELSE ledger[t]]
    /\ pc' = "emit"
    /\ UNCHANGED <<watching, boxes, colours, sidecar, text, verified, failures, watcher>>
    /\ UNCHANGED graphVars

\* A worker's result is verified: the box is checked and the row closed at once.
Verify(t) ==
    /\ pc = "wave" /\ t \in running
    /\ running' = running \ {t}
    /\ verified' = verified \union {t}
    /\ boxes' = boxes \union {t}
    /\ ledger' = [ledger EXCEPT ![t] = "verified"]
    /\ pc' = "emit"
    /\ UNCHANGED <<watching, colours, sidecar, text, failures, watcher>>
    /\ UNCHANGED graphVars

Fail(t) ==
    /\ pc = "wave" /\ t \in running /\ failures < MaxFailures
    /\ running' = running \ {t}
    /\ failures' = failures + 1
    /\ ledger' = [ledger EXCEPT ![t] = "failed"]
    /\ pc' = "emit"
    /\ UNCHANGED <<watching, boxes, colours, sidecar, text, verified, watcher>>
    /\ UNCHANGED graphVars

\* render-gantt.py --flowchart-only --write: colours from the sidecars, into the text it read.
RenderRead ==
    /\ pc = "render" /\ pc' = "inject"
    /\ text' = tasksMd
    /\ UNCHANGED <<watching, boxes, colours, ledger, sidecar, running, verified, failures,
                   watcher>>
    /\ UNCHANGED graphVars

RenderWrite ==
    /\ pc = "inject" /\ pc' = "check"
    /\ boxes' = text.boxes
    /\ colours' = [t \in Task |-> StatusOf(t, sidecar.boxes)]
    /\ UNCHANGED <<watching, ledger, sidecar, text, running, verified, failures, watcher>>
    /\ UNCHANGED graphVars

Controller ==
    \/ Graph
    \/ Check("emit", "render")
    \/ RenderRead
    \/ RenderWrite
    \/ Check("check", "answer")
    \/ Answer
    \/ Dispatch

-----------------------------------------------------------------------------
(* The watcher: every interval it fetches the statuses, reads the task     *)
(* list, and replaces it if a colour has changed.                          *)

WatcherOnly == UNCHANGED <<watching, ledger, sidecar, pc, text, running, verified, failures>>
               /\ UNCHANGED graphVars

Fetch ==
    /\ watching /\ watcher.at = "idle" /\ verdict = "accepted"
    /\ watcher' = [watcher EXCEPT !.at = "fetched", !.status = [t \in Task |-> OrcaStatus(t)]]
    /\ UNCHANGED <<boxes, colours>> /\ WatcherOnly

ReadForUpdate ==
    /\ watcher.at = "fetched"
    /\ watcher' = IF colours = watcher.status
                  THEN [at |-> "idle", status |-> Plain, text |-> None]
                  ELSE [watcher EXCEPT !.at = "read", !.text = tasksMd]
    /\ UNCHANGED <<boxes, colours>> /\ WatcherOnly

Replace ==
    /\ watcher.at = "read"
    /\ boxes' = watcher.text.boxes
    /\ colours' = watcher.status
    /\ watcher' = [at |-> "idle", status |-> Plain, text |-> None]
    /\ WatcherOnly

Watcher == Fetch \/ ReadForUpdate \/ Replace

Next ==
    \/ Controller
    \/ \E t \in Task : Verify(t) \/ Fail(t)
    \/ Watcher

\* The scripts run to their ends, and a worker ends one way or the other; nothing is
\* assumed of the watcher.
Fairness ==
    /\ WF_vars(Controller)
    /\ WF_vars(\E t \in Task : Verify(t) \/ Fail(t))

Spec == Init /\ [][Next]_vars /\ Fairness

-----------------------------------------------------------------------------
TypeOK ==
    /\ GraphTypeOK
    /\ watching \in BOOLEAN
    /\ boxes \subseteq Task /\ colours \in [Task -> Colour]
    /\ ledger \in [Task -> Outcome]
    /\ running \subseteq Task /\ verified \subseteq Task
    /\ failures \in 0..MaxFailures
    /\ pc \in {"judge", "refused", "emit", "render", "inject", "check", "answer", "dispatch",
               "wave", "complete"}
    /\ watcher.at \in {"idle", "fetched", "read"}

\* A check that passed while work is left names at least one ready task, or says that workers
\* are at it: an accepted task list cannot leave the controller without a next step, not even
\* when boxes were lost (compute_execution_view, spec-check.py:1774-1811).
NeverStuck == pc = "dispatch" => Ready(text.boxes) # {}

\* Workers have only tasks in hand whose dependencies are all verified, and two at once only
\* if their owned paths do not overlap, although what was dispatched was computed from a text
\* that two other programs rewrite (spec-check.py:1789-1801 and 540-558).
WavesAreSafe ==
    /\ \A t \in running : Deps(t) \subseteq verified
    /\ \A t, u \in running : t # u =>
          /\ t \notin Deps(u)
          /\ \A p \in plan[t].files, q \in plan[u].files : ~OwnedPathsOverlap(p, q)

\* Without the watcher no verified task is given to a worker again, whatever the order in
\* which boxes, sidecars and flowchart are written (render-gantt.py:479-523).
NothingIsRedone == ~watching => running \cap verified = {}

\* Without the watcher the flowchart a check has passed shows each task as it is, done exactly
\* if it was verified, and agrees with the other derivation of a task's state from the same
\* boxes and ledger, in which every task the controller may start is ready or failed
\* (render-gantt.py:209-236, spec-check.py:1830-1883).
FlowchartIsTruthful ==
    ~watching /\ pc \in {"dispatch", "wave", "complete"} =>
        /\ \A t \in Task :
              LET state == Projection(t, boxes)
              IN  /\ colours[t] = "done" <=> t \in verified
                  /\ colours[t] = "done" <=> state = "done"
                  /\ colours[t] = "in_progress" <=> state = "running"
                  /\ colours[t] = "failed" <=> state = "failed"
        /\ pc = "dispatch" =>
              \A t \in Ready(text.boxes) : Projection(t, boxes) \in {"ready", "failed"}

\* An accepted task list is carried out to its end if the watcher leaves the file alone from
\* some point on: no check, wave or refresh waits for ever (spec-check.py:1774-1811, 2310-2364).
PlanIsCompleted ==
    (<>[][~Replace]_vars) => (verdict = "accepted" ~> pc = "complete")
=============================================================================
