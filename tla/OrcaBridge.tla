------------------------------ MODULE OrcaBridge ------------------------------
(***************************************************************************)
(* spec-orca.py: mirror a specification's stages and tasks in an Orca run  *)
(* and hand ready tasks to workers.  Every command is a series of calls to *)
(* the Orca CLI, each followed by a save of its receipt; a call may fail,  *)
(* or take effect and have its receipt lost (the CLI's timeout, a killed   *)
(* process), and either ends the command.  Commands run one at a time.     *)
(*                                                                         *)
(* Since the state is saved after every receipt, what a command holds in   *)
(* memory between calls is what the file holds.                            *)
(***************************************************************************)
EXTENDS Integers, Sequences, FiniteSets

CONSTANTS
    Tasks, Stages,
    StageOf,       \* the stage of each task
    Checkpoints,   \* the tasks with "checkpoint" in their title
    DepGraphs,     \* what the tasks may depend on, functions from Tasks to sets of tasks
    NoTask,
    MaxInterrupts, \* bound: how many calls end a command
    MaxWorkers     \* bound: how many terminals are created

Items == Tasks \cup Stages

ASSUME OrcaBridgeAssumption ==
    /\ IsFiniteSet(Tasks) /\ Tasks \cap Stages = {} /\ NoTask \notin Tasks
    /\ StageOf \in [Tasks -> Stages]
    /\ Checkpoints \subseteq Tasks
    /\ DepGraphs \subseteq [Tasks -> SUBSET Tasks]
    /\ MaxInterrupts \in Nat /\ MaxWorkers \in Nat

VARIABLES
    \* the specification
    deps, checked,
    \* Orca: its tasks in the order they were created, an id being a position
    orca, runs, terminals,
    \* orca_run.json: run 0 for no file, id 0 for none
    file,
    \* the command under way
    cmd,     \* "none", "sync" or "dispatch"
    at,      \* its next call
    seen,    \* the tasks its copy of 04_tasks.json has as checked
    cur,     \* the task it is at
    todo,    \* the stages it has still to complete, the tasks it has still to dispatch
    synced,  \* a sync has returned
    interrupts

spec    == <<deps, checked>>
server  == <<orca, runs, terminals>>
command == <<cmd, at, seen, cur, todo, synced>>
vars    == <<spec, server, file, command, interrupts>>

Init ==
    /\ deps \in DepGraphs /\ checked = {}
    /\ orca = <<>> /\ runs = 0 /\ terminals = 0
    /\ file = [run |-> 0, ids |-> [i \in Items |-> 0], gates |-> {}, dispatches |-> <<>>]
    /\ cmd = "none" /\ at = "none" /\ seen = {} /\ cur = NoTask /\ todo = {}
    /\ synced = FALSE
    /\ interrupts = 0

------------------------------------------------------------------------------
(* Calls. *)

At(c, step) == cmd = c /\ at = step

Goto(step) == at' = step /\ UNCHANGED <<cmd, seen, synced>>

\* The command ends with an error.
Stop == cmd' = "none" /\ at' = "none" /\ UNCHANGED <<seen, cur, todo, synced>>

\* A call raises, whether or not it took effect; nothing is saved.
Interrupted ==
    /\ interrupts < MaxInterrupts
    /\ interrupts' = interrupts + 1
    /\ Stop
    /\ UNCHANGED <<spec, file>>

\* A call fails without effect.
CallFails == cmd # "none" /\ Interrupted /\ UNCHANGED server

Children(s) == {t \in Tasks : StageOf[t] = s}

Unmapped(items) == {i \in items : file.ids[i] = 0}

Ready(t) == \A d \in deps[t] : file.ids[d] # 0

\* A slip: a task is made to depend on the one created before it.
NewTaskAfterLast(item, dependencies, parent) ==
    [item |-> item, run |-> file.run, parent |-> parent, completed |-> FALSE, gates |-> 0,
     workers |-> 0, deps |-> IF dependencies = {} THEN {} ELSE {Len(orca)}]

\* The record of a task-create.
NewTask(item, dependencies, parent) ==
    [item |-> item, run |-> file.run, deps |-> dependencies, parent |-> parent,
     completed |-> FALSE, gates |-> 0, workers |-> 0]

\* A slip: the receipt of another call is saved.
SaveLast(item)  == file' = [file EXCEPT !.ids[item] = Len(orca)]

Save(item) == file' = [file EXCEPT !.ids[item] = Len(orca) + 1]

------------------------------------------------------------------------------
(* sync *)

StartSync ==
    /\ cmd = "none"
    /\ cmd' = "sync" /\ at' = "bind" /\ seen' = checked /\ cur' = NoTask /\ todo' = {}
    /\ UNCHANGED <<spec, server, file, synced, interrupts>>

\* _bind_or_create_run: the run of the file, or a new one.
Bind ==
    /\ At("sync", "bind")
    /\ \/ /\ file.run # 0
          /\ Goto("stages")
          /\ UNCHANGED <<runs, file, cur, todo, interrupts>>
       \/ /\ file.run = 0
          /\ runs' = runs + 1
          /\ \/ /\ file' = [file EXCEPT !.run = runs + 1]
                /\ Goto("stages")
                /\ UNCHANGED <<cur, todo, interrupts>>
             \/ Interrupted
    /\ UNCHANGED <<spec, orca, terminals>>

MirrorStage(s) ==
    /\ At("sync", "stages") /\ s \in Unmapped(Stages)
    /\ orca' = Append(orca, NewTask(s, {}, 0))
    /\ \/ Save(s) /\ Goto("stages") /\ UNCHANGED <<cur, todo, interrupts>>
       \/ Interrupted
    /\ UNCHANGED <<spec, runs, terminals>>

StagesMirrored ==
    /\ At("sync", "stages") /\ Unmapped(Stages) = {}
    /\ Goto("tasks")
    /\ UNCHANGED <<spec, server, file, cur, todo, interrupts>>

\* A slip: checkpoints are tasks like the others.
AfterTaskOnly(t) == IF t \in seen THEN "complete" ELSE "tasks"

\* What follows the task-create of t.
AfterTask(t) ==
    IF t \in seen THEN "complete" ELSE IF t \in Checkpoints THEN "gate" ELSE "tasks"

\* A task whose dependencies are mirrored; the file's order is one of many.
MirrorTask(t) ==
    /\ At("sync", "tasks") /\ t \in Unmapped(Tasks) /\ Ready(t)
    /\ orca' = Append(orca, NewTask(t, {file.ids[d] : d \in deps[t]}, file.ids[StageOf[t]]))
    /\ \/ Save(t) /\ Goto(AfterTask(t)) /\ cur' = t /\ UNCHANGED <<todo, interrupts>>
       \/ Interrupted
    /\ UNCHANGED <<spec, runs, terminals>>

CompleteTask ==
    /\ At("sync", "complete")
    /\ orca' = [orca EXCEPT ![file.ids[cur]].completed = TRUE]
    /\ \/ Goto("tasks") /\ UNCHANGED <<file, cur, todo, interrupts>>
       \/ Interrupted
    /\ UNCHANGED <<spec, runs, terminals>>

CreateGate ==
    /\ At("sync", "gate")
    /\ orca' = [orca EXCEPT ![file.ids[cur]].gates = @ + 1]
    /\ \/ /\ file' = [file EXCEPT !.gates = @ \cup {cur}]
          /\ Goto("tasks")
          /\ UNCHANGED <<cur, todo, interrupts>>
       \/ Interrupted
    /\ UNCHANGED <<spec, runs, terminals>>

\* A slip: a pass that makes no progress is followed by another.
UnresolvableUnseen == At("sync", "tasks") /\ FALSE /\ UNCHANGED vars

\* No pending task is ready: their dependencies form a cycle.
Unresolvable ==
    /\ At("sync", "tasks") /\ Unmapped(Tasks) # {}
    /\ \A t \in Unmapped(Tasks) : ~Ready(t)
    /\ Stop
    /\ UNCHANGED <<spec, server, file, interrupts>>

TasksMirrored ==
    /\ At("sync", "tasks") /\ Unmapped(Tasks) = {}
    /\ Goto("finish")
    /\ todo' = {s \in Stages : Children(s) # {} /\ Children(s) \subseteq seen}
    /\ UNCHANGED <<spec, server, file, cur, interrupts>>

CompleteStage(s) ==
    /\ At("sync", "finish") /\ s \in todo
    /\ orca' = [orca EXCEPT ![file.ids[s]].completed = TRUE]
    /\ \/ todo' = todo \ {s} /\ Goto("finish") /\ UNCHANGED <<file, cur, interrupts>>
       \/ Interrupted
    /\ UNCHANGED <<spec, runs, terminals>>

FinishSync ==
    /\ At("sync", "finish") /\ todo = {}
    /\ cmd' = "none" /\ at' = "none" /\ synced' = TRUE
    /\ UNCHANGED <<spec, server, file, seen, cur, todo, interrupts>>

------------------------------------------------------------------------------
(* dispatch-ready --apply *)

\* A slip: what a task depends on is not looked at.
UncheckedTasks == Tasks \ checked

\* get_ready_dispatches, for a sidecar that lists the tasks whose dependencies are checked.
Dispatchable == {t \in Tasks \ checked : deps[t] \subseteq checked}

\* It raises if a selected task has not been synced.
StartDispatch ==
    /\ cmd = "none" /\ file.run # 0
    /\ \E chosen \in SUBSET Dispatchable :
          /\ chosen # {} /\ Unmapped(chosen) = {}
          /\ terminals + Cardinality(chosen) <= MaxWorkers
          /\ todo' = chosen
    /\ cmd' = "dispatch" /\ at' = "terminal" /\ cur' = NoTask
    /\ UNCHANGED <<spec, server, file, seen, synced, interrupts>>

CreateTerminal(t) ==
    /\ At("dispatch", "terminal") /\ t \in todo
    /\ terminals' = terminals + 1
    /\ \/ Goto("wait") /\ cur' = t /\ todo' = todo \ {t} /\ UNCHANGED <<file, interrupts>>
       \/ Interrupted
    /\ UNCHANGED <<spec, orca, runs>>

WaitForTerminal ==
    /\ At("dispatch", "wait")
    /\ Goto("inject")
    /\ UNCHANGED <<spec, server, file, cur, todo, interrupts>>

Dispatch ==
    /\ At("dispatch", "inject")
    /\ orca' = [orca EXCEPT ![file.ids[cur]].workers = @ + 1]
    /\ \/ /\ file' = [file EXCEPT !.dispatches = Append(@, cur)]
          /\ Goto("terminal")
          /\ UNCHANGED <<cur, todo, interrupts>>
       \/ Interrupted
    /\ UNCHANGED <<spec, runs, terminals>>

FinishDispatch ==
    /\ At("dispatch", "terminal") /\ todo = {}
    /\ cmd' = "none" /\ at' = "none"
    /\ UNCHANGED <<spec, server, file, seen, cur, todo, synced, interrupts>>

\* The coordinator checks a task off.
CheckOff(t) ==
    /\ t \in Tasks \ checked
    /\ checked' = checked \cup {t}
    /\ UNCHANGED <<deps, server, file, command, interrupts>>

SyncStep ==
    \/ Bind \/ StagesMirrored \/ CompleteTask \/ CreateGate \/ Unresolvable
    \/ TasksMirrored \/ FinishSync
    \/ \E s \in Stages : MirrorStage(s) \/ CompleteStage(s)
    \/ \E t \in Tasks : MirrorTask(t)

DispatchStep ==
    \/ WaitForTerminal \/ Dispatch \/ FinishDispatch
    \/ \E t \in Tasks : CreateTerminal(t)

Next ==
    \/ StartSync \/ StartDispatch \/ CallFails
    \/ SyncStep \/ DispatchStep
    \/ \E t \in Tasks : CheckOff(t)

\* Every call of the CLI returns or is given up after its timeout.
Spec == Init /\ [][Next]_vars /\ WF_vars(SyncStep) /\ WF_vars(DispatchStep)

------------------------------------------------------------------------------
(* Properties. *)

\* Every variable stays in its set.
TypeOK ==
    /\ deps \in DepGraphs /\ checked \subseteq Tasks
    /\ \A k \in 1..Len(orca) :
          /\ orca[k].item \in Items /\ orca[k].run \in 1..runs
          /\ orca[k].deps \subseteq 1..k - 1 /\ orca[k].parent \in 0..k - 1
          /\ orca[k].completed \in BOOLEAN
          /\ orca[k].gates \in Nat /\ orca[k].workers \in Nat
    /\ runs \in Nat /\ terminals \in 0..MaxWorkers
    /\ file.run \in 0..runs /\ file.ids \in [Items -> 0..Len(orca)]
    /\ file.gates \subseteq Checkpoints /\ file.dispatches \in Seq(Tasks)
    /\ cmd \in {"none", "sync", "dispatch"}
    /\ at \in {"none", "bind", "stages", "tasks", "complete", "gate", "finish", "terminal",
               "wait", "inject"}
    /\ seen \subseteq Tasks /\ cur \in Tasks \cup {NoTask} /\ todo \subseteq Items
    /\ synced \in BOOLEAN /\ interrupts \in 0..MaxInterrupts

\* The file's receipts are those of the tasks they are filed under, in the file's run.
ReceiptsAreReal ==
    \A i \in Items : file.ids[i] # 0 =>
        orca[file.ids[i]].item = i /\ orca[file.ids[i]].run = file.run

\* A mirrored task depends on, and is grouped under, the mirrors in its own run of what
\* the specification says, whatever interruptions came before.
DepsAreMirrored ==
    \A k \in 1..Len(orca) : orca[k].item \in Tasks =>
        /\ {orca[d].item : d \in orca[k].deps} = deps[orca[k].item]
        /\ orca[orca[k].parent].item = StageOf[orca[k].item]
        /\ \A d \in orca[k].deps \cup {orca[k].parent} : orca[d].run = orca[k].run

\* Once a sync has returned every stage and task is mirrored, and if no call was ever
\* interrupted, the checkpoints still open have their gates.
SyncedIsMirrored ==
    synced => /\ Unmapped(Items) = {}
              /\ interrupts = 0 => Checkpoints \ checked \subseteq file.gates

\* Nobody works on a task before what it depends on is checked off.
WorkersWaitForDeps ==
    \A k \in 1..Len(orca) :
        orca[k].workers > 0 => \A d \in orca[k].deps : orca[d].item \in checked

\* Every command ends.
CommandsEnd == cmd # "none" ~> cmd = "none"
==============================================================================
