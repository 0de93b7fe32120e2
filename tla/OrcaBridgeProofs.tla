--------------------------- MODULE OrcaBridgeProofs ---------------------------
(***************************************************************************)
(* What the bridge's receipts are worth, for every specification, every    *)
(* graph of dependencies and any number of interrupted calls.              *)
(***************************************************************************)
EXTENDS OrcaBridge, FiniteSetTheorems, SequenceTheorems, TLAPS

Records ==
    [item : Items, run : Nat, deps : SUBSET Nat, parent : Nat, completed : BOOLEAN, gates : Nat,
     workers : Nat]

TypeInv ==
    /\ deps \in [Tasks -> SUBSET Tasks] /\ checked \subseteq Tasks
    /\ orca \in Seq(Records) /\ runs \in Nat
    /\ file \in [run : Nat, ids : [Items -> Nat], gates : SUBSET (Tasks \cup {NoTask}),
                 dispatches : Seq(Tasks \cup {NoTask})]
    /\ cur \in Tasks \cup {NoTask} /\ todo \subseteq Items

(* Orca's tasks only refer to earlier ones. *)
RefersBack ==
    \A k \in 1..Len(orca) :
        /\ \A d \in orca[k].deps : d \in 1..k - 1
        /\ orca[k].item \in Tasks => orca[k].parent \in 1..k - 1

(* A receipt is for what it is filed under, in the file's run.              *)
ReceiptsInv ==
    \A i \in Items : file.ids[i] # 0 =>
        /\ file.ids[i] \in 1..Len(orca) /\ file.run # 0
        /\ orca[file.ids[i]].item = i /\ orca[file.ids[i]].run = file.run

(* A sync has a run before it mirrors anything, and the stages before it    *)
(* mirrors a task.                                                          *)
SyncInv ==
    /\ at \in {"stages", "tasks", "complete", "gate"} => file.run # 0
    /\ at \in {"tasks", "complete", "gate"} => \A s \in Stages : file.ids[s] # 0

(* A task of Orca depends on the mirrors of what its own depends on.         *)
Mirrored(k) ==
    /\ {orca[d].item : d \in orca[k].deps} = deps[orca[k].item]
    /\ orca[orca[k].parent].item = StageOf[orca[k].item]
    /\ \A d \in orca[k].deps \cup {orca[k].parent} : orca[d].run = orca[k].run

(* Somebody who works, or will, is waited for by nobody unchecked.          *)
MayWork(t) == t \in Tasks /\ file.ids[t] # 0 /\ deps[t] \subseteq checked

DispatchInv ==
    /\ cmd = "dispatch" => \A t \in todo : MayWork(t)
    /\ at \in {"wait", "inject"} => cmd = "dispatch" /\ MayWork(cur)

IInv ==
    /\ TypeInv /\ RefersBack /\ ReceiptsInv /\ SyncInv /\ DispatchInv
    /\ DepsAreMirrored /\ WorkersWaitForDeps

LEMMA Starts == Init => IInv
<1> SUFFICES ASSUME Init PROVE IInv
  OBVIOUS
<1> USE OrcaBridgeAssumption DEF Init
<1>1. deps \in [Tasks -> SUBSET Tasks]
  OBVIOUS
<1>2. orca = <<>> /\ Len(orca) = 0
  OBVIOUS
<1>3. TypeInv
  BY <1>1 DEF TypeInv
<1>4. RefersBack /\ DepsAreMirrored /\ WorkersWaitForDeps
  BY <1>2 DEF RefersBack, DepsAreMirrored, WorkersWaitForDeps
<1>5. ReceiptsInv /\ SyncInv /\ DispatchInv
  BY DEF ReceiptsInv, SyncInv, DispatchInv
<1> QED
  BY <1>3, <1>4, <1>5 DEF IInv

-----------------------------------------------------------------------------
(* What Orca holds changes in three ways. *)

(* Not at all, and no receipt is filed; a task may be checked off. *)
LEMMA NothingKeeps ==
    ASSUME IInv, UNCHANGED <<deps, orca, file>>, checked \subseteq checked',
           checked' \subseteq Tasks
    PROVE  RefersBack' /\ ReceiptsInv' /\ DepsAreMirrored' /\ WorkersWaitForDeps'
           /\ \A t : MayWork(t) => MayWork(t)'
  BY DEF IInv, RefersBack, ReceiptsInv, DepsAreMirrored, WorkersWaitForDeps, MayWork

(* A flag or a count of one task. *)
Touched ==
    /\ orca' \in Seq(Records) /\ Len(orca') = Len(orca)
    /\ \A k \in 1..Len(orca) :
          /\ orca'[k].item = orca[k].item /\ orca'[k].run = orca[k].run
          /\ orca'[k].deps = orca[k].deps /\ orca'[k].parent = orca[k].parent

LEMMA TouchedKeeps ==
    ASSUME IInv, Touched, UNCHANGED <<deps, checked, file.run, file.ids>>
    PROVE  RefersBack' /\ ReceiptsInv' /\ DepsAreMirrored' /\ \A t : MayWork(t) => MayWork(t)'
<1>1. RefersBack'
  BY DEF IInv, Touched, RefersBack
<1>2. ReceiptsInv'
  BY DEF IInv, Touched, ReceiptsInv
<1>3. DepsAreMirrored'
  <2> DEFINE Kept(k) ==
        /\ {orca'[d].item : d \in orca'[k].deps} = deps[orca'[k].item]
        /\ orca'[orca'[k].parent].item = StageOf[orca'[k].item]
        /\ \A d \in orca'[k].deps \cup {orca'[k].parent} : orca'[d].run = orca'[k].run
  <2>1. ASSUME NEW k \in 1..Len(orca), orca[k].item \in Tasks PROVE Kept(k)
    <3>1. \A d \in orca[k].deps \cup {orca[k].parent} : d \in 1..Len(orca)
      BY <2>1 DEF IInv, RefersBack, TypeInv
    <3>2. {orca'[d].item : d \in orca[k].deps} = {orca[d].item : d \in orca[k].deps}
      BY <3>1 DEF Touched
    <3>3. /\ orca'[k].item = orca[k].item /\ orca'[k].run = orca[k].run
          /\ orca'[k].deps = orca[k].deps /\ orca'[k].parent = orca[k].parent
      BY DEF Touched
    <3>4. /\ {orca[d].item : d \in orca[k].deps} = deps[orca[k].item]
          /\ orca[orca[k].parent].item = StageOf[orca[k].item]
          /\ \A d \in orca[k].deps \cup {orca[k].parent} : orca[d].run = orca[k].run
      BY <2>1 DEF IInv, DepsAreMirrored
    <3> QED
      BY <3>1, <3>2, <3>3, <3>4 DEF Touched
  <2>2. \A k \in 1..Len(orca) : orca'[k].item = orca[k].item
    BY DEF Touched
  <2>3. Len(orca') = Len(orca) /\ deps' = deps
    BY DEF Touched
  <2>4. \A k \in 1..Len(orca') : orca'[k].item \in Tasks => Kept(k)
    BY <2>1, <2>2, <2>3
  <2> QED
    BY <2>3, <2>4 DEF DepsAreMirrored
<1>4. \A t : MayWork(t) => MayWork(t)'
  BY DEF MayWork
<1> QED
  BY <1>1, <1>2, <1>3, <1>4

(* One more task, with the receipt saved or lost.                           *)
LEMMA NewKeeps ==
    ASSUME IInv, NEW item \in Items, NEW ds \in SUBSET (1..Len(orca)), NEW parent \in 0..Len(orca),
           file.run # 0, UNCHANGED <<deps, checked>>,
           orca' = Append(orca, NewTask(item, ds, parent)),
           Save(item) \/ file' = file,
           item \in Tasks =>
              /\ {orca[d].item : d \in ds} = deps[item]
              /\ parent # 0 /\ orca[parent].item = StageOf[item]
              /\ \A d \in ds \cup {parent} : orca[d].run = file.run
    PROVE  /\ orca' \in Seq(Records) /\ file' \in
                [run : Nat, ids : [Items -> Nat], gates : SUBSET (Tasks \cup {NoTask}),
                 dispatches : Seq(Tasks \cup {NoTask})]
           /\ RefersBack' /\ ReceiptsInv' /\ DepsAreMirrored' /\ WorkersWaitForDeps'
           /\ \A t : MayWork(t) => MayWork(t)'
           /\ file'.run = file.run /\ \A i \in Items : file.ids[i] # 0 => file'.ids[i] # 0
<1> DEFINE new == NewTask(item, ds, parent)
           n == Len(orca)
<1>1. TypeInv /\ n \in Nat
  BY DEF IInv, TypeInv
<1>2. /\ new \in Records /\ new.item = item /\ new.run = file.run /\ new.deps = ds
      /\ new.parent = parent /\ new.workers = 0
  BY <1>1 DEF NewTask, Records, TypeInv
<1> HIDE DEF new
<1>3. /\ orca' \in Seq(Records) /\ Len(orca') = n + 1 /\ orca'[n + 1] = new
      /\ \A k \in 1..n : orca'[k] = orca[k]
  BY <1>1, <1>2 DEF new, TypeInv
<1>4. /\ file' \in [run : Nat, ids : [Items -> Nat], gates : SUBSET (Tasks \cup {NoTask}),
                    dispatches : Seq(Tasks \cup {NoTask})]
      /\ file'.run = file.run
      /\ \A i \in Items : file'.ids[i] = file.ids[i] \/ (i = item /\ file'.ids[i] = n + 1)
  <2>1. CASE file' = file
    BY <2>1, <1>1 DEF TypeInv
  <2>2. CASE Save(item)
    <3>1. file' = [run |-> file.run, ids |-> [file.ids EXCEPT ![item] = n + 1],
                   gates |-> file.gates, dispatches |-> file.dispatches]
      BY <2>2, <1>1 DEF TypeInv, Save
    <3> QED
      BY <3>1, <1>1 DEF TypeInv
  <2> QED
    BY <2>1, <2>2
<1>5. RefersBack'
  <2> SUFFICES ASSUME NEW k \in 1..n + 1
               PROVE  /\ \A d \in orca'[k].deps : d \in 1..k - 1
                      /\ orca'[k].item \in Tasks => orca'[k].parent \in 1..k - 1
    BY <1>3 DEF RefersBack
  <2>1. CASE k \in 1..n
    <3>1. orca'[k] = orca[k] /\ k \in 1..Len(orca)
      BY <2>1, <1>3
    <3> QED
      BY <3>1 DEF IInv, RefersBack
  <2>2. CASE k = n + 1
    <3>1. orca'[k] = new /\ 1..k - 1 = 1..n
      BY <2>2, <1>1, <1>3
    <3>2. \A d \in ds : d \in 1..n
      OBVIOUS
    <3>3. item \in Tasks => parent \in 1..n
      BY <1>1
    <3> QED
      BY <3>1, <3>2, <3>3, <1>2
  <2> QED
    BY <2>1, <2>2, <1>1
<1>6. ReceiptsInv'
  BY <1>1, <1>2, <1>3, <1>4 DEF IInv, ReceiptsInv
<1>7. DepsAreMirrored'
  <2> SUFFICES ASSUME NEW k \in 1..n + 1, orca'[k].item \in Tasks PROVE Mirrored(k)'
    BY <1>3 DEF DepsAreMirrored, Mirrored
  <2>0. k \in 1..n \/ k = n + 1
    BY <1>1
  <2>1. CASE k \in 1..n
    <3>1. orca'[k] = orca[k] /\ orca[k].item \in Tasks
      BY <2>1, <1>3
    <3>2. \A d \in orca[k].deps \cup {orca[k].parent} : d \in 1..n
      BY <2>1, <3>1, <1>1 DEF IInv, RefersBack
    <3>3. \A d \in orca[k].deps \cup {orca[k].parent} : orca'[d] = orca[d]
      BY <3>2, <1>3
    <3>4. {orca'[d].item : d \in orca[k].deps} = {orca[d].item : d \in orca[k].deps}
      BY <3>3
    <3>5. /\ {orca[d].item : d \in orca[k].deps} = deps[orca[k].item]
          /\ orca[orca[k].parent].item = StageOf[orca[k].item]
          /\ \A d \in orca[k].deps \cup {orca[k].parent} : orca[d].run = orca[k].run
      BY <2>1, <3>1 DEF IInv, DepsAreMirrored
    <3>6. {orca'[d].item : d \in orca'[k].deps} = deps'[orca'[k].item]
      BY <3>1, <3>4, <3>5
    <3>7. orca'[orca'[k].parent].item = StageOf[orca'[k].item]
      BY <3>1, <3>3, <3>5
    <3>8. \A d \in orca'[k].deps \cup {orca'[k].parent} : orca'[d].run = orca'[k].run
      BY <3>1, <3>3, <3>5
    <3> QED
      BY <3>6, <3>7, <3>8 DEF Mirrored
  <2>2. CASE k = n + 1
    <3>1. orca'[k] = new /\ item \in Tasks
      BY <2>2, <1>2, <1>3
    <3>2. \A d \in ds \cup {parent} : d \in 1..n
      BY <3>1, <1>1
    <3>3. \A d \in ds \cup {parent} : orca'[d] = orca[d]
      BY <3>2, <1>3
    <3>4. {orca'[d].item : d \in ds} = {orca[d].item : d \in ds}
      BY <3>3
    <3> QED
      BY <3>1, <3>3, <3>4, <1>2 DEF Mirrored
  <2> QED
    BY <2>0, <2>1, <2>2
<1>8. WorkersWaitForDeps'
  <2> SUFFICES ASSUME NEW k \in 1..n + 1, orca'[k].workers > 0, NEW d \in orca'[k].deps
               PROVE  orca'[d].item \in checked
    BY <1>3 DEF WorkersWaitForDeps
  <2>1. k \in 1..n /\ orca'[k] = orca[k]
    BY <1>1, <1>2, <1>3
  <2>2. d \in 1..n
    BY <2>1 DEF IInv, RefersBack
  <2> QED
    BY <2>1, <2>2, <1>3 DEF IInv, WorkersWaitForDeps
<1>9. \A t : MayWork(t) => MayWork(t)'
  BY <1>1, <1>4 DEF MayWork, Items
<1>10. \A i \in Items : file.ids[i] # 0 => file'.ids[i] # 0
  BY <1>1, <1>4
<1> QED
  BY <1>3, <1>4, <1>5, <1>6, <1>7, <1>8, <1>9, <1>10

-----------------------------------------------------------------------------
(* The steps. *)

LEMMA QuietKeeps ==
    ASSUME IInv, UNCHANGED <<spec, orca, file>>, runs' \in Nat,
           cur' \in Tasks \cup {NoTask}, todo' \subseteq Items, SyncInv', DispatchInv'
    PROVE  IInv'
<1>1. TypeInv'
  BY DEF IInv, TypeInv, spec
<1>2. RefersBack' /\ ReceiptsInv' /\ DepsAreMirrored' /\ WorkersWaitForDeps'
  BY NothingKeeps DEF spec, IInv, TypeInv
<1> QED
  BY <1>1, <1>2 DEF IInv

(* A call that ends its command without effect. *)
LEMMA StopKeeps ==
    ASSUME IInv, Stop, UNCHANGED <<spec, orca, file>>, runs' \in Nat
    PROVE  IInv'
<1>1. SyncInv' /\ DispatchInv'
  BY DEF Stop, SyncInv, DispatchInv
<1> QED
  BY <1>1, QuietKeeps DEF Stop, IInv, TypeInv

LEMMA BindKeeps == ASSUME IInv, Bind PROVE IInv'
<1>1. runs \in Nat /\ runs' \in Nat
  BY DEF IInv, TypeInv, Bind, Interrupted, server
<1>2. CASE Interrupted
  BY <1>2, <1>1, StopKeeps DEF Bind, Interrupted
<1>3. CASE file.run # 0 /\ Goto("stages") /\ UNCHANGED <<file, cur, todo>>
  <2>1. SyncInv' /\ DispatchInv'
    BY <1>3 DEF Bind, At, Goto, SyncInv, DispatchInv
  <2> QED
    BY <2>1, <1>1, <1>3, QuietKeeps DEF Bind, IInv, TypeInv
<1>4. CASE file.run = 0 /\ file' = [file EXCEPT !.run = runs + 1] /\ Goto("stages")
           /\ UNCHANGED <<cur, todo>>
  <2>1. file' = [run |-> runs + 1, ids |-> file.ids, gates |-> file.gates,
                 dispatches |-> file.dispatches]
    BY <1>4 DEF IInv, TypeInv
  <2>2. UNCHANGED <<deps, checked, orca>> /\ \A i \in Items : file.ids[i] = 0
    BY <1>4 DEF Bind, spec, IInv, ReceiptsInv
  <2>3. TypeInv'
    BY <2>1, <2>2, <1>1, <1>4 DEF IInv, TypeInv
  <2>4. RefersBack' /\ DepsAreMirrored' /\ WorkersWaitForDeps'
    <3>1. RefersBack'
      BY <2>2 DEF IInv, RefersBack
    <3>2. DepsAreMirrored'
      BY <2>2 DEF IInv, DepsAreMirrored
    <3>3. WorkersWaitForDeps'
      BY <2>2 DEF IInv, WorkersWaitForDeps
    <3> QED
      BY <3>1, <3>2, <3>3
  <2>5. ReceiptsInv'
    BY <2>1, <2>2 DEF ReceiptsInv
  <2>6. SyncInv' /\ DispatchInv'
    BY <1>4, <1>1, <2>1 DEF Bind, At, Goto, SyncInv, DispatchInv
  <2> QED
    BY <2>3, <2>4, <2>5, <2>6 DEF IInv
<1> QED
  BY <1>2, <1>3, <1>4 DEF Bind

(* How a task-create ends. *)
LEMMA CreateKeeps ==
    ASSUME IInv, NEW item \in Items, NEW ds \in SUBSET (1..Len(orca)), NEW parent \in 0..Len(orca),
           at \in {"stages", "tasks"}, cmd = "sync", UNCHANGED <<spec, runs, terminals>>,
           orca' = Append(orca, NewTask(item, ds, parent)),
           \/ /\ Save(item) /\ at' \in {"stages", "tasks", "complete", "gate"} /\ cmd' = cmd
              /\ at' = "stages" \/ at = "tasks"
              /\ cur' \in Tasks \cup {NoTask} /\ UNCHANGED todo
           \/ Interrupted,
           item \in Tasks =>
              /\ {orca[d].item : d \in ds} = deps[item]
              /\ parent # 0 /\ orca[parent].item = StageOf[item]
              /\ \A d \in ds \cup {parent} : orca[d].run = file.run
    PROVE  IInv'
<1>1. file.run # 0 /\ (Save(item) \/ file' = file)
  BY DEF IInv, SyncInv, Interrupted
<1>2. UNCHANGED <<deps, checked>>
  BY DEF spec
<1>3. /\ orca' \in Seq(Records) /\ file' \in
            [run : Nat, ids : [Items -> Nat], gates : SUBSET (Tasks \cup {NoTask}),
             dispatches : Seq(Tasks \cup {NoTask})]
      /\ RefersBack' /\ ReceiptsInv' /\ DepsAreMirrored' /\ WorkersWaitForDeps'
      /\ file'.run = file.run /\ \A i \in Items : file.ids[i] # 0 => file'.ids[i] # 0
  BY <1>1, <1>2, NewKeeps
<1>4. TypeInv'
  BY <1>2, <1>3 DEF IInv, TypeInv, Interrupted, Stop
<1>5. SyncInv'
  BY <1>1, <1>3 DEF IInv, SyncInv, Interrupted, Stop, Items
<1>6. DispatchInv'
  BY DEF DispatchInv, Interrupted, Stop
<1> QED
  BY <1>3, <1>4, <1>5, <1>6 DEF IInv

LEMMA MirrorStageKeeps == ASSUME IInv, NEW s \in Stages, MirrorStage(s) PROVE IInv'
<1>1. s \in Items /\ s \notin Tasks
  BY OrcaBridgeAssumption DEF Items
<1>2. {} \in SUBSET (1..Len(orca)) /\ 0 \in 0..Len(orca) /\ cur \in Tasks \cup {NoTask}
  BY DEF IInv, TypeInv
<1>3. at = "stages" /\ cmd = "sync"
  BY DEF MirrorStage, At
<1>4. orca' = Append(orca, NewTask(s, {}, 0)) /\ UNCHANGED <<spec, runs, terminals>>
  BY DEF MirrorStage
<1>5. \/ Save(s) /\ Goto("stages") /\ UNCHANGED <<cur, todo>>
      \/ Interrupted
  BY DEF MirrorStage
<1> QED
  BY <1>1, <1>2, <1>3, <1>4, <1>5, CreateKeeps DEF Goto

(* A task is only made once the stage it is in and all it depends on are.   *)
LEMMA MirrorTaskKeeps == ASSUME IInv, NEW t \in Tasks, MirrorTask(t) PROVE IInv'
<1> DEFINE ds == {file.ids[d] : d \in deps[t]}
           parent == file.ids[StageOf[t]]
<1>1. t \in Items /\ StageOf[t] \in Stages /\ StageOf[t] \in Items /\ deps[t] \subseteq Tasks
      /\ deps[t] \subseteq Items
  BY OrcaBridgeAssumption DEF Items, IInv, TypeInv
<1>2. at = "tasks" /\ cmd = "sync" /\ Ready(t)
  BY DEF MirrorTask, At
<1>3. \A d \in deps[t] \cup {StageOf[t]} :
         /\ file.ids[d] \in 1..Len(orca)
         /\ orca[file.ids[d]].item = d /\ orca[file.ids[d]].run = file.run
  BY <1>1, <1>2 DEF IInv, SyncInv, ReceiptsInv, Ready
<1>4. ds \in SUBSET (1..Len(orca)) /\ parent \in 1..Len(orca) /\ parent \in 0..Len(orca)
  BY <1>3
<1>5. parent # 0
  BY <1>4
<1>6. {orca[k].item : k \in ds} = deps[t]
  BY <1>3
<1>7. \A k \in ds \cup {parent} : orca[k].run = file.run
  BY <1>3
<1>8. orca[parent].item = StageOf[t]
  BY <1>3
<1>9. orca' = Append(orca, NewTask(t, ds, parent)) /\ UNCHANGED <<spec, runs, terminals>>
  BY DEF MirrorTask
<1>10. \/ Save(t) /\ Goto(AfterTask(t)) /\ cur' = t /\ UNCHANGED todo
       \/ Interrupted
  BY DEF MirrorTask
<1>11. AfterTask(t) \in {"stages", "tasks", "complete", "gate"}
  BY DEF AfterTask
<1> HIDE DEF ds, parent
<1> QED
  BY <1>1, <1>2, <1>4, <1>5, <1>6, <1>7, <1>8, <1>9, <1>10, <1>11, CreateKeeps DEF Goto

(* One record's flag or count is set. *)
Same(q, r) == r \in Records /\ r.item = q.item /\ r.run = q.run /\ r.deps = q.deps
              /\ r.parent = q.parent

Update(j, r) ==
    orca' = [orca EXCEPT ![j] = r] /\ (j \in 1..Len(orca) => Same(orca[j], r))

LEMMA UpdateTouches ==
    ASSUME IInv, NEW j, NEW r, Update(j, r)
    PROVE  Touched /\ \A k \in 1..Len(orca) : orca'[k] = IF k = j THEN r ELSE orca[k]
<1> USE DEF Update, Same
<1>1. orca \in Seq(Records)
  BY DEF IInv, TypeInv
<1>2. orca' \in Seq(Records) /\ Len(orca') = Len(orca)
  <2>1. CASE j \in 1..Len(orca)
    BY <2>1, <1>1, ExceptSeq
  <2>2. CASE j \notin 1..Len(orca)
    <3>1. orca' = orca
      BY <2>2, <1>1
    <3> QED
      BY <3>1, <1>1
  <2> QED
    BY <2>1, <2>2
<1>3. \A k \in 1..Len(orca) : orca'[k] = IF k = j THEN r ELSE orca[k]
  BY <1>1
<1> QED
  BY <1>2, <1>3 DEF Touched

LEMMA ChangeKeeps ==
    ASSUME IInv, Touched, UNCHANGED <<deps, checked, file.run, file.ids, runs>>,
           file' \in [run : Nat, ids : [Items -> Nat], gates : SUBSET (Tasks \cup {NoTask}),
                      dispatches : Seq(Tasks \cup {NoTask})],
           cur' \in Tasks \cup {NoTask}, todo' \subseteq Items, SyncInv', DispatchInv',
           \A k \in 1..Len(orca) : orca'[k].workers > 0 =>
              orca[k].workers > 0 \/ \A d \in orca[k].deps : orca[d].item \in checked
    PROVE  IInv'
<1>1. TypeInv'
  BY DEF IInv, TypeInv, Touched
<1>2. RefersBack' /\ ReceiptsInv' /\ DepsAreMirrored'
  BY TouchedKeeps
<1>3. WorkersWaitForDeps'
  <2> SUFFICES ASSUME NEW k \in 1..Len(orca), orca'[k].workers > 0, NEW d \in orca[k].deps
               PROVE  orca'[d].item \in checked
    BY DEF WorkersWaitForDeps, Touched
  <2>1. d \in 1..Len(orca)
    BY DEF IInv, RefersBack, TypeInv
  <2>2. orca[d].item \in checked
    BY DEF IInv, WorkersWaitForDeps
  <2> QED
    BY <2>1, <2>2 DEF Touched
<1> QED
  BY <1>1, <1>2, <1>3 DEF IInv

(* A completion or a gate, after which the next task is taken up. *)
LEMMA CompletionKeeps ==
    ASSUME IInv, NEW j, NEW r, Update(j, r), j \in 1..Len(orca) => r.workers = orca[j].workers,
           UNCHANGED <<deps, checked, file.run, file.ids, runs>>,
           file' \in [run : Nat, ids : [Items -> Nat], gates : SUBSET (Tasks \cup {NoTask}),
                      dispatches : Seq(Tasks \cup {NoTask})],
           \/ /\ cmd = "sync" /\ cmd' = cmd /\ UNCHANGED cur /\ todo' \subseteq todo
              /\ at' = "finish" \/ (at \in {"complete", "gate"} /\ at' = "tasks")
           \/ Stop
    PROVE  IInv'
<1>1. Touched /\ \A k \in 1..Len(orca) : orca'[k] = IF k = j THEN r ELSE orca[k]
  BY UpdateTouches
<1>2. SyncInv'
  BY DEF IInv, SyncInv, Stop
<1>3. DispatchInv'
  BY DEF DispatchInv, Stop
<1>4. \A k \in 1..Len(orca) : orca'[k].workers = orca[k].workers
  BY <1>1
<1>5. cur' \in Tasks \cup {NoTask} /\ todo' \subseteq Items
  BY DEF IInv, TypeInv, Stop
<1> QED
  BY <1>1, <1>2, <1>3, <1>4, <1>5, ChangeKeeps

LEMMA FileIsTyped ==
    ASSUME IInv
    PROVE  file \in [run : Nat, ids : [Items -> Nat], gates : SUBSET (Tasks \cup {NoTask}),
                     dispatches : Seq(Tasks \cup {NoTask})]
  BY DEF IInv, TypeInv

LEMMA RecordUpdates ==
    ASSUME NEW q \in Records
    PROVE  /\ Same(q, [q EXCEPT !.completed = TRUE]) /\ Same(q, [q EXCEPT !.gates = @ + 1])
           /\ Same(q, [q EXCEPT !.workers = @ + 1])
           /\ [q EXCEPT !.completed = TRUE].workers = q.workers
           /\ [q EXCEPT !.gates = @ + 1].workers = q.workers
<1> USE DEF Records, Same
<1>1. Same(q, [q EXCEPT !.completed = TRUE])
  OBVIOUS
<1>2. Same(q, [q EXCEPT !.gates = @ + 1])
  OBVIOUS
<1>3. Same(q, [q EXCEPT !.workers = @ + 1])
  OBVIOUS
<1>4. /\ [q EXCEPT !.completed = TRUE].workers = q.workers
      /\ [q EXCEPT !.gates = @ + 1].workers = q.workers
  OBVIOUS
<1> QED
  BY <1>1, <1>2, <1>3, <1>4

LEMMA RecordIsTyped == ASSUME IInv, NEW j \in 1..Len(orca) PROVE orca[j] \in Records
  BY DEF IInv, TypeInv

LEMMA CompleteTaskKeeps == ASSUME IInv, CompleteTask PROVE IInv'
<1> DEFINE j == file.ids[cur]
           r == [orca[j] EXCEPT !.completed = TRUE]
<1>1. orca' = [orca EXCEPT ![j] = r]
  BY DEF CompleteTask
<1>2. UNCHANGED <<deps, checked, file, runs>>
  BY DEF CompleteTask, Interrupted, spec
<1>3. Update(j, r) /\ (j \in 1..Len(orca) => r.workers = orca[j].workers)
  BY <1>1, RecordIsTyped, RecordUpdates DEF Update
<1>4. \/ /\ cmd = "sync" /\ cmd' = cmd /\ UNCHANGED <<cur, todo>>
         /\ at = "complete" /\ at' = "tasks"
      \/ Stop
  BY DEF CompleteTask, At, Goto, Interrupted
<1> HIDE DEF j, r
<1> QED
  BY <1>2, <1>3, <1>4, FileIsTyped, CompletionKeeps

LEMMA CreateGateKeeps == ASSUME IInv, CreateGate PROVE IInv'
<1> DEFINE j == file.ids[cur]
           r == [orca[j] EXCEPT !.gates = @ + 1]
<1>1. orca' = [orca EXCEPT ![j] = r]
  BY DEF CreateGate
<1>2. UNCHANGED <<deps, checked, runs>>
  BY DEF CreateGate, Interrupted, spec
<1>3. Update(j, r) /\ (j \in 1..Len(orca) => r.workers = orca[j].workers)
  BY <1>1, RecordIsTyped, RecordUpdates DEF Update
<1>4. \/ /\ cmd = "sync" /\ cmd' = cmd /\ UNCHANGED <<cur, todo>>
         /\ at = "gate" /\ at' = "tasks"
      \/ Stop
  BY DEF CreateGate, At, Goto, Interrupted
<1>5. file' = file \/ file' = [file EXCEPT !.gates = @ \cup {cur}]
  BY DEF CreateGate, Interrupted
<1>6. /\ UNCHANGED <<file.run, file.ids>>
      /\ file' \in [run : Nat, ids : [Items -> Nat], gates : SUBSET (Tasks \cup {NoTask}),
                    dispatches : Seq(Tasks \cup {NoTask})]
  BY <1>5 DEF IInv, TypeInv
<1> HIDE DEF j, r
<1> QED
  BY <1>2, <1>3, <1>4, <1>6, CompletionKeeps

LEMMA CompleteStageKeeps == ASSUME IInv, NEW s \in Stages, CompleteStage(s) PROVE IInv'
<1> DEFINE j == file.ids[s]
           r == [orca[j] EXCEPT !.completed = TRUE]
<1>1. orca' = [orca EXCEPT ![j] = r]
  BY DEF CompleteStage
<1>2. UNCHANGED <<deps, checked, file, runs>>
  BY DEF CompleteStage, Interrupted, spec
<1>3. Update(j, r) /\ (j \in 1..Len(orca) => r.workers = orca[j].workers)
  BY <1>1, RecordIsTyped, RecordUpdates DEF Update
<1>4. \/ /\ cmd = "sync" /\ cmd' = cmd /\ UNCHANGED cur /\ todo' \subseteq todo
         /\ at' = "finish"
      \/ Stop
  BY DEF CompleteStage, At, Goto, Interrupted
<1> HIDE DEF j, r
<1> QED
  BY <1>2, <1>3, <1>4, FileIsTyped, CompletionKeeps

(* A worker gets a task: one whose dependencies were checked off when the   *)
(* command began, and still are.                                            *)
LEMMA DispatchKeeps == ASSUME IInv, Dispatch PROVE IInv'
<1> DEFINE j == file.ids[cur]
           r == [orca[j] EXCEPT !.workers = @ + 1]
<1>1. orca' = [orca EXCEPT ![j] = r]
  BY DEF Dispatch
<1>2. UNCHANGED <<deps, checked, runs>>
  BY DEF Dispatch, Interrupted, spec
<1>3. Update(j, r)
  BY <1>1, RecordIsTyped, RecordUpdates DEF Update
<1>4. MayWork(cur) /\ cmd = "dispatch" /\ at = "inject"
  BY DEF Dispatch, At, IInv, DispatchInv
<1>5. file' = file \/ file' = [file EXCEPT !.dispatches = Append(@, cur)]
  BY DEF Dispatch, Interrupted
<1>6. /\ UNCHANGED <<file.run, file.ids>>
      /\ file' \in [run : Nat, ids : [Items -> Nat], gates : SUBSET (Tasks \cup {NoTask}),
                    dispatches : Seq(Tasks \cup {NoTask})]
  <2>1. CASE file' = file
    BY <2>1, FileIsTyped
  <2>2. CASE file' = [file EXCEPT !.dispatches = Append(@, cur)]
    <3>1. file' = [run |-> file.run, ids |-> file.ids, gates |-> file.gates,
                   dispatches |-> Append(file.dispatches, cur)]
      BY <2>2, FileIsTyped
    <3>2. Append(file.dispatches, cur) \in Seq(Tasks \cup {NoTask})
      BY FileIsTyped DEF IInv, TypeInv
    <3> QED
      BY <3>1, <3>2, FileIsTyped
  <2> QED
    BY <2>1, <2>2, <1>5
<1>7. j \in 1..Len(orca) /\ orca[j].item = cur /\ cur \in Tasks
  BY <1>4 DEF MayWork, Items, IInv, ReceiptsInv
<1>8. \A d \in orca[j].deps : orca[d].item \in checked
  <2>1. {orca[d].item : d \in orca[j].deps} = deps[cur]
    BY <1>7 DEF IInv, DepsAreMirrored
  <2> QED
    BY <2>1, <1>4 DEF MayWork
<1>9. Touched /\ \A k \in 1..Len(orca) : orca'[k] = IF k = j THEN r ELSE orca[k]
  <2> HIDE DEF j, r
  <2> QED
    BY <1>3, UpdateTouches
<1> HIDE DEF j, r
<1>10. \A k \in 1..Len(orca) : orca'[k].workers > 0 =>
          orca[k].workers > 0 \/ \A d \in orca[k].deps : orca[d].item \in checked
  BY <1>8, <1>9
<1>11. \/ Goto("terminal") /\ UNCHANGED <<cur, todo>>
       \/ Stop
  BY DEF Dispatch, Interrupted
<1>12. SyncInv' /\ DispatchInv'
  BY <1>2, <1>6, <1>11 DEF Goto, Stop, IInv, SyncInv, DispatchInv, MayWork
<1>13. cur' \in Tasks \cup {NoTask} /\ todo' \subseteq Items
  BY <1>11 DEF IInv, TypeInv, Stop
<1> QED
  BY <1>2, <1>6, <1>9, <1>10, <1>12, <1>13, ChangeKeeps

-----------------------------------------------------------------------------

LEMMA SyncStepKeeps == ASSUME IInv, SyncStep PROVE IInv'
<1>0. runs \in Nat /\ cur \in Tasks \cup {NoTask} /\ todo \subseteq Items
  BY DEF IInv, TypeInv
<1>1. CASE Bind
  BY <1>1, BindKeeps
<1>2. CASE StagesMirrored
  <2>1. SyncInv' /\ DispatchInv'
    BY <1>2 DEF StagesMirrored, At, Goto, IInv, SyncInv, DispatchInv, Unmapped
  <2> QED
    BY <2>1, <1>0, <1>2, QuietKeeps DEF StagesMirrored, server
<1>3. CASE CompleteTask \/ CreateGate
  BY <1>3, CompleteTaskKeeps, CreateGateKeeps
<1>4. CASE Unresolvable
  BY <1>4, <1>0, StopKeeps DEF Unresolvable, server
<1>5. CASE TasksMirrored
  <2>1. SyncInv' /\ DispatchInv'
    BY <1>5 DEF TasksMirrored, At, Goto, SyncInv, DispatchInv
  <2> QED
    BY <2>1, <1>0, <1>5, QuietKeeps DEF TasksMirrored, server, Items
<1>6. CASE FinishSync
  <2>1. SyncInv' /\ DispatchInv'
    BY <1>6 DEF FinishSync, SyncInv, DispatchInv
  <2> QED
    BY <2>1, <1>0, <1>6, QuietKeeps DEF FinishSync, server
<1>7. CASE \E s \in Stages : MirrorStage(s) \/ CompleteStage(s)
  BY <1>7, MirrorStageKeeps, CompleteStageKeeps
<1>8. CASE \E t \in Tasks : MirrorTask(t)
  BY <1>8, MirrorTaskKeeps
<1> QED
  BY <1>1, <1>2, <1>3, <1>4, <1>5, <1>6, <1>7, <1>8 DEF SyncStep

LEMMA StartDispatchKeeps == ASSUME IInv, StartDispatch PROVE IInv'
<1>1. PICK chosen \in SUBSET Dispatchable : Unmapped(chosen) = {} /\ todo' = chosen
  BY DEF StartDispatch
<1>2. UNCHANGED <<deps, checked, file, orca, runs>> /\ at' = "terminal"
  BY DEF StartDispatch, spec, server
<1>3. \A t \in chosen : MayWork(t)
  BY <1>1 DEF Dispatchable, Unmapped, MayWork
<1>4. DispatchInv'
  BY <1>1, <1>2, <1>3 DEF DispatchInv, MayWork
<1>5. SyncInv'
  BY <1>2 DEF SyncInv
<1>6. runs \in Nat /\ cur' \in Tasks \cup {NoTask} /\ todo' \subseteq Items
  BY <1>1 DEF StartDispatch, Dispatchable, IInv, TypeInv, Items
<1> QED
  BY <1>2, <1>4, <1>5, <1>6, QuietKeeps DEF spec

LEMMA CreateTerminalKeeps == ASSUME IInv, NEW t \in Tasks, CreateTerminal(t) PROVE IInv'
<1>1. UNCHANGED <<spec, deps, checked, orca, runs, file>>
  BY DEF CreateTerminal, Interrupted, spec
<1>2. runs \in Nat /\ todo \subseteq Items
  BY DEF IInv, TypeInv
<1>3. CASE Interrupted
  BY <1>1, <1>2, <1>3, StopKeeps DEF Interrupted
<1>4. CASE Goto("wait") /\ cur' = t /\ todo' = todo \ {t}
  <2>1. MayWork(t) /\ cmd = "dispatch"
    BY DEF CreateTerminal, At, IInv, DispatchInv
  <2>2. SyncInv' /\ DispatchInv'
    BY <1>1, <1>4, <2>1 DEF Goto, IInv, SyncInv, DispatchInv, MayWork
  <2> QED
    BY <1>1, <1>2, <1>4, <2>2, QuietKeeps
<1> QED
  BY <1>3, <1>4 DEF CreateTerminal

LEMMA DispatchStepKeeps == ASSUME IInv, DispatchStep PROVE IInv'
<1>0. runs \in Nat /\ cur \in Tasks \cup {NoTask} /\ todo \subseteq Items
  BY DEF IInv, TypeInv
<1>1. CASE WaitForTerminal
  <2>1. SyncInv' /\ DispatchInv'
    BY <1>1 DEF WaitForTerminal, At, Goto, spec, IInv, SyncInv, DispatchInv, MayWork
  <2> QED
    BY <2>1, <1>0, <1>1, QuietKeeps DEF WaitForTerminal, server
<1>2. CASE Dispatch
  BY <1>2, DispatchKeeps
<1>3. CASE FinishDispatch
  <2>1. SyncInv' /\ DispatchInv'
    BY <1>3 DEF FinishDispatch, SyncInv, DispatchInv
  <2> QED
    BY <2>1, <1>0, <1>3, QuietKeeps DEF FinishDispatch, server
<1>4. CASE \E t \in Tasks : CreateTerminal(t)
  BY <1>4, CreateTerminalKeeps
<1> QED
  BY <1>1, <1>2, <1>3, <1>4 DEF DispatchStep

LEMMA CheckOffKeeps == ASSUME IInv, NEW t \in Tasks, CheckOff(t) PROVE IInv'
<1>1. /\ UNCHANGED <<deps, orca, runs, file, cmd, at, cur, todo>>
      /\ checked \subseteq checked' /\ checked' \subseteq Tasks
  BY DEF CheckOff, server, command, IInv, TypeInv
<1>2. RefersBack' /\ ReceiptsInv' /\ DepsAreMirrored' /\ WorkersWaitForDeps'
  BY <1>1, NothingKeeps
<1>3. TypeInv' /\ SyncInv' /\ DispatchInv'
  BY <1>1 DEF IInv, TypeInv, SyncInv, DispatchInv, MayWork
<1> QED
  BY <1>2, <1>3 DEF IInv

LEMMA NextKeeps == ASSUME IInv, [Next]_vars PROVE IInv'
<1>0. runs \in Nat /\ cur \in Tasks \cup {NoTask} /\ todo \subseteq Items
  BY DEF IInv, TypeInv
<1>1. CASE StartSync
  <2>1. SyncInv' /\ DispatchInv'
    BY <1>1 DEF StartSync, SyncInv, DispatchInv
  <2> QED
    BY <2>1, <1>0, <1>1, QuietKeeps DEF StartSync, server
<1>2. CASE StartDispatch
  BY <1>2, StartDispatchKeeps
<1>3. CASE CallFails
  BY <1>3, <1>0, StopKeeps DEF CallFails, Interrupted, server
<1>4. CASE SyncStep
  BY <1>4, SyncStepKeeps
<1>5. CASE DispatchStep
  BY <1>5, DispatchStepKeeps
<1>6. CASE \E t \in Tasks : CheckOff(t)
  BY <1>6, CheckOffKeeps
<1>7. CASE UNCHANGED vars
  <2>1. SyncInv' /\ DispatchInv'
    BY <1>7 DEF vars, spec, command, IInv, SyncInv, DispatchInv, MayWork
  <2> QED
    BY <2>1, <1>0, <1>7, QuietKeeps DEF vars, server, command
<1> QED
  BY <1>1, <1>2, <1>3, <1>4, <1>5, <1>6, <1>7 DEF Next

LEMMA AlwaysIInv == Spec => []IInv
  BY Starts, NextKeeps, PTL DEF Spec

(* A receipt in orca_run.json names the mirror of what it is filed under,   *)
(* in the run of the file, however often syncs were interrupted.            *)
THEOREM ReceiptsCorrect == Spec => []ReceiptsAreReal
<1>1. IInv => ReceiptsAreReal
  BY DEF IInv, ReceiptsInv, ReceiptsAreReal
<1> QED
  BY AlwaysIInv, <1>1, PTL

(* Orca is told of exactly the dependencies and the stage that the          *)
(* specification has, by mirrors in the same run.                           *)
THEOREM DepsCorrect == Spec => []DepsAreMirrored
<1>1. IInv => DepsAreMirrored
  BY DEF IInv
<1> QED
  BY AlwaysIInv, <1>1, PTL

(* No worker is given a task before everything it depends on is checked off.*)
THEOREM WorkersWait == Spec => []WorkersWaitForDeps
<1>1. IInv => WorkersWaitForDeps
  BY DEF IInv
<1> QED
  BY AlwaysIInv, <1>1, PTL

-----------------------------------------------------------------------------
(* What a sync that returned has mirrored.  The copy of the file a sync     *)
(* works from is no newer than the file, receipts and gates are never       *)
(* dropped, and until a call is interrupted an open checkpoint that has a   *)
(* mirror has its gate or is getting it.                                    *)

GatePending(t) == At("sync", "gate") /\ cur = t

GatesInv ==
    interrupts = 0 => \A t \in Checkpoints : file.ids[t] # 0 =>
                          t \in checked \cup file.gates \/ GatePending(t)

(* A sync ends only when nothing is left to mirror, and no gate is forgotten *)
(* unless a call was interrupted.                                           *)
MirrorInv ==
    /\ interrupts \in Nat
    /\ seen \subseteq checked
    /\ synced \/ at = "finish" => Unmapped(Items) = {}
    /\ synced => at # "gate"
    /\ GatesInv

SInv == IInv /\ MirrorInv

(* Receipts and gates are only added. *)
FileGrows ==
    /\ \A i \in Items : file.ids[i] # 0 => file'.ids[i] # 0
    /\ file.gates \subseteq file'.gates

(* What is left to show of a step other than the end of a sync. *)
LEMMA MirrorKept ==
    ASSUME SInv, FileGrows, UNCHANGED synced, interrupts' \in Nat,
           checked \subseteq checked', seen' \subseteq checked',
           at' = "finish" => at = "finish", synced => at' # "gate",
           interrupts' = 0 =>
              /\ interrupts = 0
              /\ \A t \in Checkpoints :
                    /\ file'.ids[t] # 0 =>
                          file.ids[t] # 0 \/ t \in checked' \/ GatePending(t)'
                    /\ GatePending(t) => t \in file'.gates \/ GatePending(t)'
    PROVE  MirrorInv'
<1>1. (synced \/ at = "finish") => Unmapped(Items)' = {}
  BY DEF SInv, MirrorInv, Unmapped, FileGrows
<1>2. GatesInv'
  BY DEF SInv, MirrorInv, GatesInv, FileGrows
<1> QED BY <1>1, <1>2 DEF SInv, MirrorInv

(* A call that is interrupted. *)
LEMMA MirrorInterrupted ==
    ASSUME SInv, Interrupted PROVE MirrorInv'
<1>1. interrupts' \in Nat /\ interrupts' # 0
  BY DEF Interrupted, SInv, MirrorInv
<1> QED BY <1>1, MirrorKept
        DEF Interrupted, Stop, spec, FileGrows, SInv, MirrorInv

(* What saving a receipt does to the file. *)
LEMMA SaveGrows ==
    ASSUME IInv, NEW item \in Items, Save(item)
    PROVE  FileGrows /\ \A i \in Items : i # item => file'.ids[i] = file.ids[i]
<1>1. file \in [run : Nat, ids : [Items -> Nat], gates : SUBSET (Tasks \cup {NoTask}),
                dispatches : Seq(Tasks \cup {NoTask})] /\ Len(orca) \in Nat
  BY DEF IInv, TypeInv
<1>2. file' = [run |-> file.run, ids |-> [file.ids EXCEPT ![item] = Len(orca) + 1],
               gates |-> file.gates, dispatches |-> file.dispatches]
  BY <1>1 DEF Save
<1> QED BY <1>1, <1>2 DEF FileGrows

LEMMA SyncStepMirrors ==
    ASSUME SInv, SyncStep, ~Interrupted PROVE MirrorInv'
<1> USE OrcaBridgeAssumption
<1>0. /\ seen \subseteq checked /\ interrupts \in Nat /\ IInv /\ MirrorInv
      /\ file \in [run : Nat, ids : [Items -> Nat], gates : SUBSET (Tasks \cup {NoTask}),
                   dispatches : Seq(Tasks \cup {NoTask})]
  BY DEF SInv, MirrorInv, IInv, TypeInv
<1>1. CASE Bind
  <2>1. Goto("stages") /\ UNCHANGED <<spec, interrupts, cur>> /\ At("sync", "bind")
    BY <1>1 DEF Bind
  <2>2. UNCHANGED <<file.ids, file.gates>>
    BY <1>0, <1>1 DEF Bind
  <2> QED BY <1>0, <2>1, <2>2, MirrorKept DEF Goto, At, spec, FileGrows, GatePending, Items
<1>2. CASE StagesMirrored \/ CompleteTask
  <2>1. /\ Goto("tasks") /\ UNCHANGED <<spec, file, interrupts>>
        /\ cmd = "sync" /\ at \in {"stages", "complete"}
    BY <1>2 DEF StagesMirrored, CompleteTask, At
  <2> QED BY <1>0, <2>1, MirrorKept DEF Goto, At, spec, FileGrows, GatePending
<1>3. CASE CreateGate
  <2>1. /\ Goto("tasks") /\ UNCHANGED <<spec, interrupts, cur>>
        /\ cmd = "sync" /\ at = "gate"
        /\ file' = [file EXCEPT !.gates = @ \cup {cur}]
    BY <1>3 DEF CreateGate, At
  <2>2. file'.ids = file.ids /\ file'.gates = file.gates \cup {cur}
    BY <1>0, <2>1
  <2> QED BY <1>0, <2>1, <2>2, MirrorKept DEF Goto, At, spec, FileGrows, GatePending
<1>4. CASE Unresolvable
  BY <1>0, <1>4, MirrorKept DEF Unresolvable, Stop, At, spec, FileGrows, GatePending
<1>5. CASE TasksMirrored
  <2>1. /\ UNCHANGED <<spec, file, cur, interrupts, synced, seen>> /\ at' = "finish"
        /\ at = "tasks"
    BY <1>5 DEF TasksMirrored, At, Goto
  <2>2. Unmapped(Items) = {}
    <3>1. Unmapped(Tasks) = {} /\ at = "tasks"
      BY <1>5 DEF TasksMirrored, At
    <3>2. \A s \in Stages : file.ids[s] # 0
      BY <1>0, <3>1 DEF IInv, SyncInv
    <3> QED BY <3>1, <3>2 DEF Unmapped, Items
  <2>3. GatesInv'
    BY <1>0, <2>1 DEF MirrorInv, GatesInv, GatePending, At, spec
  <2> QED BY <1>0, <2>1, <2>2, <2>3 DEF MirrorInv, Unmapped, spec
<1>6. CASE FinishSync
  <2>1. /\ UNCHANGED <<spec, file, cur, interrupts, seen>> /\ at' = "none" /\ at = "finish"
    BY <1>6 DEF FinishSync, At
  <2>2. GatesInv' /\ Unmapped(Items) = {}
    BY <1>0, <2>1 DEF MirrorInv, GatesInv, GatePending, At, spec
  <2> QED BY <1>0, <2>1, <2>2 DEF MirrorInv, Unmapped, spec
<1>7. CASE \E s \in Stages : MirrorStage(s)
  <2>1. PICK s \in Stages : MirrorStage(s)
    BY <1>7
  <2>2. /\ Save(s) /\ Goto("stages") /\ UNCHANGED <<spec, cur, interrupts>> /\ s \in Items
        /\ at = "stages"
    BY <2>1 DEF MirrorStage, Items, At
  <2>3. FileGrows /\ \A t \in Checkpoints : file'.ids[t] = file.ids[t]
    BY <1>0, <2>2, SaveGrows DEF Items
  <2> QED BY <1>0, <2>2, <2>3, MirrorKept DEF Goto, At, spec, GatePending
<1>8. CASE \E s \in Stages : CompleteStage(s)
  <2>1. /\ Goto("finish") /\ UNCHANGED <<spec, file, cur, interrupts>> /\ at = "finish"
    BY <1>8 DEF CompleteStage, At
  <2> QED BY <1>0, <2>1, MirrorKept DEF Goto, At, spec, FileGrows, GatePending
<1>9. CASE \E t \in Tasks : MirrorTask(t)
  <2>1. PICK t \in Tasks : MirrorTask(t)
    BY <1>9
  <2>2. /\ Save(t) /\ Goto(AfterTask(t)) /\ UNCHANGED <<spec, interrupts>> /\ cur' = t
        /\ at = "tasks" /\ cmd = "sync" /\ t \in Items /\ file.ids[t] = 0
    BY <2>1 DEF MirrorTask, Items, At, Unmapped
  <2>3. FileGrows /\ \A i \in Items : i # t => file'.ids[i] = file.ids[i]
    BY <1>0, <2>2, SaveGrows
  <2>4. ~synced
    BY <1>0, <2>2 DEF MirrorInv, Unmapped
  <2>5. at' \in {"complete", "gate", "tasks"} /\ cmd' = "sync" /\ seen' = seen
        /\ (t \in Checkpoints => t \in seen \/ at' = "gate")
    BY <2>2 DEF AfterTask, Goto
  <2> QED BY <1>0, <2>2, <2>3, <2>4, <2>5, MirrorKept DEF Goto, At, spec, GatePending, Items
<1> QED BY <1>1, <1>2, <1>3, <1>4, <1>5, <1>6, <1>7, <1>8, <1>9 DEF SyncStep

LEMMA MirrorKeeps == ASSUME SInv, [Next]_vars PROVE MirrorInv'
<1>0. /\ seen \subseteq checked /\ interrupts \in Nat /\ IInv /\ MirrorInv
      /\ file \in [run : Nat, ids : [Items -> Nat], gates : SUBSET (Tasks \cup {NoTask}),
                   dispatches : Seq(Tasks \cup {NoTask})]
  BY DEF SInv, MirrorInv, IInv, TypeInv
<1>1. CASE Interrupted
  BY <1>1, MirrorInterrupted
<1>2. CASE StartSync
  BY <1>0, <1>2, MirrorKept DEF StartSync, spec, FileGrows, GatePending, At
<1>3. CASE StartDispatch
  BY <1>0, <1>3, MirrorKept DEF StartDispatch, spec, FileGrows, GatePending, At
<1>4. CASE SyncStep /\ ~Interrupted
  BY <1>4, SyncStepMirrors
<1>5. CASE DispatchStep /\ ~Interrupted
  <2>1. /\ UNCHANGED <<spec, interrupts, synced, seen>> /\ cmd = "dispatch"
        /\ at' \notin {"gate", "finish"}
    BY <1>5 DEF DispatchStep, WaitForTerminal, Dispatch, FinishDispatch, CreateTerminal, Goto, At
  <2>2. UNCHANGED <<file.ids, file.gates>>
    <3>1. file' = file \/ file' = [file EXCEPT !.dispatches = Append(@, cur)]
      BY <1>5 DEF DispatchStep, WaitForTerminal, Dispatch, FinishDispatch, CreateTerminal
    <3> QED BY <1>0, <3>1
  <2> QED BY <1>0, <2>1, <2>2, MirrorKept DEF spec, FileGrows, GatePending, At
<1>6. CASE \E t \in Tasks : CheckOff(t)
  <2>1. UNCHANGED <<file, cmd, at, cur, seen, synced, interrupts>> /\ checked \subseteq checked'
    BY <1>6 DEF CheckOff, command
  <2> QED BY <1>0, <2>1, MirrorKept DEF FileGrows, GatePending, At, MirrorInv
<1>7. CASE UNCHANGED vars
  <2>1. UNCHANGED <<file, cmd, at, cur, seen, synced, interrupts, checked>>
    BY <1>7 DEF vars, command, spec
  <2> QED BY <1>0, <2>1, MirrorKept DEF FileGrows, GatePending, At, MirrorInv
<1> QED BY <1>1, <1>2, <1>3, <1>4, <1>5, <1>6, <1>7 DEF Next, CallFails

LEMMA AlwaysMirrorInv == Spec => []MirrorInv
<1>1. Init => MirrorInv
  <2> SUFFICES ASSUME Init PROVE MirrorInv
    OBVIOUS
  <2>1. \A t \in Checkpoints : file.ids[t] = 0
    BY OrcaBridgeAssumption DEF Init, Items
  <2>2. interrupts \in Nat /\ seen \subseteq checked /\ ~synced /\ at = "none"
    BY DEF Init
  <2> QED BY <2>1, <2>2 DEF MirrorInv, GatesInv
<1>2. IInv /\ MirrorInv /\ [Next]_vars => MirrorInv'
  BY MirrorKeeps DEF SInv
<1> QED BY <1>1, <1>2, AlwaysIInv, PTL DEF Spec

(* Once a sync has returned, whatever was interrupted before, every stage   *)
(* and task has a mirror whose receipt is in the file; and in a history     *)
(* without interruption every checkpoint still open has its gate.           *)
THEOREM MirrorComplete == Spec => []SyncedIsMirrored
<1>1. IInv /\ MirrorInv => SyncedIsMirrored
  <2> SUFFICES ASSUME IInv, MirrorInv, synced PROVE
                 /\ Unmapped(Items) = {}
                 /\ interrupts = 0 => Checkpoints \ checked \subseteq file.gates
    BY DEF SyncedIsMirrored
  <2>1. Unmapped(Items) = {} /\ at # "gate"
    BY DEF MirrorInv
  <2>2. \A t \in Checkpoints : file.ids[t] # 0
    BY <2>1, OrcaBridgeAssumption DEF Unmapped, Items
  <2> QED BY <2>1, <2>2 DEF MirrorInv, GatesInv, GatePending, At
<1> QED BY <1>1, AlwaysIInv, AlwaysMirrorInv, PTL

-----------------------------------------------------------------------------
(* The types of the bridge: runs are numbered as they are made, only        *)
(* checkpoints get gates and only tasks workers, and no more terminals are  *)
(* created than a dispatch was granted.                                     *)

RecordsInv ==
    \A k \in 1..Len(orca) : orca[k].run \in 1..runs /\ orca[k].parent \in 0..k - 1

FileInv ==
    /\ file.run \in 0..runs
    /\ file.gates \subseteq Checkpoints /\ file.dispatches \in Seq(Tasks)

ControlInv ==
    /\ cmd \in {"none", "sync", "dispatch"}
    /\ at \in {"none", "bind", "stages", "tasks", "complete", "gate", "finish", "terminal",
               "wait", "inject"}
    /\ at = "gate" => cur \in Checkpoints
    /\ synced \in BOOLEAN /\ interrupts \in 0..MaxInterrupts

\* The tasks of a dispatch that have no terminal yet are within the bound.
TerminalsInv ==
    /\ terminals \in 0..MaxWorkers
    /\ cmd = "dispatch" => terminals + Cardinality(todo) <= MaxWorkers

BridgeTypes == deps \in DepGraphs /\ RecordsInv /\ FileInv /\ ControlInv /\ TerminalsInv

LEMMA BridgeTypesStart == Init => BridgeTypes
<1> SUFFICES ASSUME Init PROVE BridgeTypes
  OBVIOUS
<1> USE OrcaBridgeAssumption DEF Init
<1>1. orca = <<>> /\ Len(orca) = 0
  OBVIOUS
<1>2. RecordsInv
  BY <1>1 DEF RecordsInv
<1>3. <<>> \in Seq(Tasks)
  OBVIOUS
<1>4. /\ file.run = 0 /\ file.gates = {} /\ file.dispatches = <<>>
      /\ cmd = "none" /\ at = "none" /\ terminals = 0 /\ runs = 0 /\ interrupts = 0
  OBVIOUS
<1>5. FileInv
  BY <1>3, <1>4 DEF FileInv
<1>6. synced \in BOOLEAN
  OBVIOUS
<1>7. interrupts \in 0..MaxInterrupts /\ terminals \in 0..MaxWorkers
  BY <1>4
<1>8. ControlInv /\ TerminalsInv
  BY <1>4, <1>6, <1>7 DEF ControlInv, TerminalsInv
<1> QED
  BY <1>2, <1>5, <1>8 DEF BridgeTypes

(* One more task, under one of Orca's earlier ones or none.                 *)
Added ==
    /\ file.run # 0 /\ UNCHANGED runs
    /\ \E item \in Items, parent \in 0..Len(orca) :
          \E ds : orca' = Append(orca, NewTask(item, ds, parent))

LEMMA OrcaSteps == ASSUME IInv, [Next]_vars PROVE orca' = orca \/ Touched \/ Added
<1>0. TypeInv /\ ReceiptsInv /\ SyncInv /\ Len(orca) \in Nat
  BY DEF IInv, TypeInv
<1>1. CASE StartSync \/ StartDispatch \/ CallFails \/ UNCHANGED vars
  BY <1>1 DEF StartSync, StartDispatch, CallFails, vars, server
<1>2. CASE \E t \in Tasks : CheckOff(t)
  BY <1>2 DEF CheckOff, server
<1>3. CASE DispatchStep
  <2>1. ASSUME Dispatch PROVE Touched
    <3>1. Update(file.ids[cur], [orca[file.ids[cur]] EXCEPT !.workers = @ + 1])
      BY <2>1, RecordIsTyped, RecordUpdates DEF Dispatch, Update
    <3> QED
      BY <3>1, UpdateTouches
  <2> QED
    BY <1>3, <2>1 DEF DispatchStep, WaitForTerminal, FinishDispatch, CreateTerminal, server
<1>4. CASE Bind \/ StagesMirrored \/ Unresolvable \/ TasksMirrored \/ FinishSync
  BY <1>4 DEF Bind, StagesMirrored, Unresolvable, TasksMirrored, FinishSync, server
<1>5. CASE CompleteTask
  <2>1. Update(file.ids[cur], [orca[file.ids[cur]] EXCEPT !.completed = TRUE])
    BY <1>5, RecordIsTyped, RecordUpdates DEF CompleteTask, Update
  <2> QED
    BY <2>1, UpdateTouches
<1>6. CASE CreateGate
  <2>1. Update(file.ids[cur], [orca[file.ids[cur]] EXCEPT !.gates = @ + 1])
    BY <1>6, RecordIsTyped, RecordUpdates DEF CreateGate, Update
  <2> QED
    BY <2>1, UpdateTouches
<1>7. ASSUME NEW s \in Stages, CompleteStage(s) PROVE Touched
  <2>1. Update(file.ids[s], [orca[file.ids[s]] EXCEPT !.completed = TRUE])
    BY <1>7, RecordIsTyped, RecordUpdates DEF CompleteStage, Update
  <2> QED
    BY <2>1, UpdateTouches
<1>8. ASSUME NEW s \in Stages, MirrorStage(s) PROVE Added
  <2>1. s \in Items /\ 0 \in 0..Len(orca) /\ file.run # 0
    BY <1>0, <1>8 DEF MirrorStage, Items, SyncInv, At
  <2>2. orca' = Append(orca, NewTask(s, {}, 0)) /\ UNCHANGED runs
    BY <1>8 DEF MirrorStage
  <2> QED
    BY <2>1, <2>2 DEF Added
<1>9. ASSUME NEW t \in Tasks, MirrorTask(t) PROVE Added
  <2>1. file.ids[StageOf[t]] \in 0..Len(orca)
    BY <1>0, OrcaBridgeAssumption DEF TypeInv, ReceiptsInv, Items
  <2>2. t \in Items /\ file.run # 0
    BY <1>0, <1>9 DEF MirrorTask, Items, SyncInv, At
  <2>3. /\ orca' = Append(orca, NewTask(t, {file.ids[d] : d \in deps[t]}, file.ids[StageOf[t]]))
        /\ UNCHANGED runs
    BY <1>9 DEF MirrorTask
  <2> QED
    BY <2>1, <2>2, <2>3 DEF Added
<1>10. CASE SyncStep
  BY <1>10, <1>4, <1>5, <1>6, <1>7, <1>8, <1>9 DEF SyncStep
<1> QED
  BY <1>1, <1>2, <1>3, <1>10 DEF Next

(* What a step makes of the file: a sync may bind it to a new run, and add  *)
(* a gate for the checkpoint it is at, a dispatch the task it is at.        *)
LEMMA FileSteps ==
    ASSUME IInv, [Next]_vars
    PROVE  /\ runs' \in {runs, runs + 1}
           /\ file'.run = file.run \/ file'.run = runs'
           /\ file'.gates = file.gates \/ (at = "gate" /\ file'.gates = file.gates \cup {cur})
           /\ \/ file'.dispatches = file.dispatches
              \/ at = "inject" /\ file'.dispatches = Append(file.dispatches, cur)
<1> DEFINE F == [run : Nat, ids : [Items -> Nat], gates : SUBSET (Tasks \cup {NoTask}),
                 dispatches : Seq(Tasks \cup {NoTask})]
<1>0. file \in F
  BY FileIsTyped
<1>1. CASE Bind
  BY <1>0, <1>1 DEF Bind, Interrupted
<1>2. CASE CreateGate
  BY <1>0, <1>2 DEF CreateGate, Interrupted, At
<1>3. CASE Dispatch
  BY <1>0, <1>3 DEF Dispatch, Interrupted, At
<1>4. ASSUME NEW i \in Items, Save(i)
      PROVE  file'.run = file.run /\ file'.gates = file.gates
             /\ file'.dispatches = file.dispatches
  BY <1>0, <1>4 DEF Save
<1>5. CASE \E s \in Stages : MirrorStage(s)
  BY <1>4, <1>5 DEF MirrorStage, Interrupted, Items
<1>6. CASE \E t \in Tasks : MirrorTask(t)
  BY <1>4, <1>6 DEF MirrorTask, Interrupted, Items
<1>7. CASE StartSync \/ StartDispatch \/ CallFails \/ UNCHANGED vars
           \/ \E t \in Tasks : CheckOff(t)
  BY <1>7 DEF StartSync, StartDispatch, CallFails, Interrupted, CheckOff, server, vars
<1>8. CASE StagesMirrored \/ CompleteTask \/ Unresolvable \/ TasksMirrored \/ FinishSync
           \/ \E s \in Stages : CompleteStage(s)
  BY <1>8 DEF StagesMirrored, CompleteTask, Unresolvable, TasksMirrored, FinishSync,
              CompleteStage, Interrupted, server
<1>9. CASE WaitForTerminal \/ FinishDispatch \/ \E t \in Tasks : CreateTerminal(t)
  BY <1>9 DEF WaitForTerminal, FinishDispatch, CreateTerminal, Interrupted, server
<1> QED
  BY <1>1, <1>2, <1>3, <1>5, <1>6, <1>7, <1>8, <1>9 DEF Next, SyncStep, DispatchStep

LEMMA RecordsKept ==
    ASSUME IInv, BridgeTypes, [Next]_vars PROVE RecordsInv' /\ FileInv'
<1> USE OrcaBridgeAssumption
<1>0. /\ RecordsInv /\ FileInv /\ orca \in Seq(Records) /\ runs \in Nat
      /\ file \in [run : Nat, ids : [Items -> Nat], gates : SUBSET (Tasks \cup {NoTask}),
                   dispatches : Seq(Tasks \cup {NoTask})]
  BY DEF IInv, TypeInv, BridgeTypes
<1>1. /\ runs' \in {runs, runs + 1}
      /\ file'.run = file.run \/ file'.run = runs'
      /\ file'.gates = file.gates \/ (at = "gate" /\ file'.gates = file.gates \cup {cur})
      /\ \/ file'.dispatches = file.dispatches
         \/ at = "inject" /\ file'.dispatches = Append(file.dispatches, cur)
  BY FileSteps
<1>2. RecordsInv'
  <2>1. CASE orca' = orca
    BY <1>0, <1>1, <2>1 DEF RecordsInv
  <2>2. CASE Touched
    <3> SUFFICES ASSUME NEW k \in 1..Len(orca)
                 PROVE  orca'[k].run \in 1..runs' /\ orca'[k].parent \in 0..k - 1
      BY <2>2 DEF RecordsInv, Touched
    <3>1. orca'[k].run = orca[k].run /\ orca'[k].parent = orca[k].parent
      BY <2>2 DEF Touched
    <3>2. orca[k].run \in 1..runs /\ orca[k].parent \in 0..k - 1
      BY <1>0 DEF RecordsInv
    <3> QED
      BY <1>0, <1>1, <3>1, <3>2
  <2>3. CASE Added
    <3>1. PICK item \in Items, parent \in 0..Len(orca) :
             \E ds : orca' = Append(orca, NewTask(item, ds, parent))
      BY <2>3 DEF Added
    <3>2. PICK ds : orca' = Append(orca, NewTask(item, ds, parent))
      BY <3>1
    <3>3. NewTask(item, ds, parent).run = file.run /\ NewTask(item, ds, parent).parent = parent
      BY DEF NewTask
    <3>4. /\ Len(orca') = Len(orca) + 1 /\ orca'[Len(orca) + 1] = NewTask(item, ds, parent)
          /\ \A k \in 1..Len(orca) : orca'[k] = orca[k]
      BY <1>0, <3>2
    <3>5. file.run \in 1..runs /\ runs' = runs /\ Len(orca) \in Nat
      BY <1>0, <2>3 DEF Added, FileInv
    <3> SUFFICES ASSUME NEW k \in 1..Len(orca')
                 PROVE  orca'[k].run \in 1..runs' /\ orca'[k].parent \in 0..k - 1
      BY DEF RecordsInv
    <3>6. CASE k = Len(orca) + 1
      BY <3>3, <3>4, <3>5, <3>6
    <3>7. CASE k \in 1..Len(orca)
      BY <1>0, <3>4, <3>5, <3>7 DEF RecordsInv
    <3> QED
      BY <3>4, <3>5, <3>6, <3>7
  <2> QED
    BY <2>1, <2>2, <2>3, OrcaSteps
<1>3. file'.run \in 0..runs'
  BY <1>0, <1>1 DEF FileInv
<1>4. file'.gates \subseteq Checkpoints
  BY <1>0, <1>1 DEF FileInv, BridgeTypes, ControlInv
<1>5. file'.dispatches \in Seq(Tasks)
  <2>1. at = "inject" => cur \in Tasks
    BY DEF IInv, DispatchInv, MayWork
  <2>2. file.dispatches \in Seq(Tasks)
    BY <1>0 DEF FileInv
  <2>3. cur \in Tasks => Append(file.dispatches, cur) \in Seq(Tasks)
    BY <2>2
  <2> QED
    BY <1>1, <2>1, <2>2, <2>3
<1> QED
  BY <1>2, <1>3, <1>4, <1>5 DEF FileInv

\* A call that is interrupted leaves the bridge idle, and one more call has been.
LEMMA ControlInterrupted == ASSUME ControlInv, Interrupted PROVE ControlInv'
<1>1. interrupts \in Nat /\ interrupts < MaxInterrupts
  BY OrcaBridgeAssumption DEF ControlInv, Interrupted
<1>2. interrupts' \in 0..MaxInterrupts
  BY <1>1, OrcaBridgeAssumption DEF Interrupted
<1> QED
  BY <1>2 DEF ControlInv, Interrupted, Stop

LEMMA ControlKept == ASSUME BridgeTypes, [Next]_vars PROVE ControlInv'
<1>0. ControlInv
  BY DEF BridgeTypes
<1>1. CASE Interrupted
  BY <1>0, <1>1, ControlInterrupted
<1>2. CASE StartSync \/ StartDispatch
  BY <1>0, <1>2 DEF StartSync, StartDispatch, ControlInv
<1>3. CASE SyncStep /\ ~Interrupted
  <2>1. CASE Bind \/ StagesMirrored \/ CompleteTask \/ CreateGate \/ TasksMirrored
    BY <1>0, <1>3, <2>1
       DEF Bind, StagesMirrored, CompleteTask, CreateGate, TasksMirrored, Goto, ControlInv
  <2>2. CASE Unresolvable
    BY <1>0, <2>2 DEF Unresolvable, Stop, ControlInv
  <2>3. CASE FinishSync
    BY <1>0, <2>3 DEF FinishSync, ControlInv
  <2>4. CASE \E s \in Stages : MirrorStage(s) \/ CompleteStage(s)
    BY <1>0, <1>3, <2>4 DEF MirrorStage, CompleteStage, Goto, ControlInv
  <2>5. CASE \E t \in Tasks : MirrorTask(t)
    BY <1>0, <1>3, <2>5 DEF MirrorTask, AfterTask, Goto, ControlInv
  <2> QED
    BY <1>3, <2>1, <2>2, <2>3, <2>4, <2>5 DEF SyncStep
<1>4. CASE DispatchStep /\ ~Interrupted
  BY <1>0, <1>4
     DEF DispatchStep, WaitForTerminal, Dispatch, FinishDispatch, CreateTerminal, Goto,
         ControlInv
<1>5. CASE (\E t \in Tasks : CheckOff(t)) \/ UNCHANGED vars
  BY <1>0, <1>5 DEF CheckOff, command, vars, ControlInv
<1> QED
  BY <1>1, <1>2, <1>3, <1>4, <1>5 DEF Next, CallFails

(* A dispatch begins with room for all its terminals, and each it creates   *)
(* is one fewer still to create.                                            *)
LEMMA TerminalsKept == ASSUME IInv, BridgeTypes, [Next]_vars PROVE TerminalsInv'
<1> USE OrcaBridgeAssumption
<1>0. TerminalsInv /\ DispatchInv
  BY DEF BridgeTypes, IInv
<1>1. ASSUME NEW chosen \in SUBSET Tasks
      PROVE  IsFiniteSet(chosen) /\ Cardinality(chosen) \in Nat
  BY FS_Subset, FS_CardinalityType
<1>2. CASE StartDispatch
  <2>1. Dispatchable \subseteq Tasks
    BY DEF Dispatchable
  <2>2. terminals + Cardinality(todo') <= MaxWorkers /\ terminals' = terminals
    BY <1>2 DEF StartDispatch, server
  <2> QED
    BY <1>0, <2>2 DEF TerminalsInv
<1>3. ASSUME NEW t \in Tasks, CreateTerminal(t) PROVE TerminalsInv'
  <2>1. /\ cmd = "dispatch" /\ t \in todo /\ terminals' = terminals + 1
        /\ \/ cmd' = cmd /\ todo' = todo \ {t}
           \/ cmd' = "none"
    BY <1>3 DEF CreateTerminal, At, Goto, Interrupted, Stop
  <2>2. todo \in SUBSET Tasks
    BY <1>0, <2>1 DEF DispatchInv, MayWork
  <2>3. /\ IsFiniteSet(todo) /\ Cardinality(todo) \in Nat /\ Cardinality(todo \ {t}) \in Nat
        /\ Cardinality(todo \ {t}) = Cardinality(todo) - 1
    BY <1>1, <2>1, <2>2, FS_RemoveElement
  <2>4. terminals \in 0..MaxWorkers /\ terminals + Cardinality(todo) <= MaxWorkers
    BY <1>0, <2>1 DEF TerminalsInv
  <2>5. terminals' \in 0..MaxWorkers
    BY <2>1, <2>3, <2>4
  <2>6. cmd' = "dispatch" => terminals' + Cardinality(todo') <= MaxWorkers
    BY <2>1, <2>3, <2>4
  <2> QED
    BY <2>5, <2>6 DEF TerminalsInv
<1>4. CASE terminals' = terminals /\ cmd' # "dispatch"
  BY <1>0, <1>4 DEF TerminalsInv
<1>5. CASE UNCHANGED <<terminals, todo, cmd>>
  BY <1>0, <1>5 DEF TerminalsInv
<1>6. CASE StartSync \/ CallFails
  BY <1>4, <1>6 DEF StartSync, CallFails, Interrupted, Stop, server
<1>7. CASE SyncStep
  <2>1. terminals' = terminals
    BY <1>7 DEF SyncStep, Bind, StagesMirrored, CompleteTask, CreateGate, Unresolvable,
                TasksMirrored, FinishSync, MirrorStage, CompleteStage, MirrorTask, server
  <2>2. cmd' # "dispatch"
    BY <1>7 DEF SyncStep, Bind, StagesMirrored, CompleteTask, CreateGate, Unresolvable,
                TasksMirrored, FinishSync, MirrorStage, CompleteStage, MirrorTask,
                Interrupted, Stop, Goto, At
  <2> QED
    BY <1>4, <2>1, <2>2
<1>8. CASE WaitForTerminal \/ FinishDispatch
  BY <1>4, <1>5, <1>8 DEF WaitForTerminal, FinishDispatch, Goto, server
<1>9. CASE Dispatch
  BY <1>4, <1>5, <1>9 DEF Dispatch, Interrupted, Stop, Goto
<1>10. CASE (\E t \in Tasks : CheckOff(t)) \/ UNCHANGED vars
  BY <1>5, <1>10 DEF CheckOff, server, command, vars
<1> QED
  BY <1>2, <1>3, <1>6, <1>7, <1>8, <1>9, <1>10 DEF Next, DispatchStep

LEMMA BridgeTypesKept == ASSUME IInv, BridgeTypes, [Next]_vars PROVE BridgeTypes'
<1>1. deps' = deps
  BY DEF BridgeTypes, Next, StartSync, StartDispatch, CallFails, Interrupted, SyncStep,
         DispatchStep, Bind, StagesMirrored, CompleteTask, CreateGate, Unresolvable,
         TasksMirrored, FinishSync, MirrorStage, CompleteStage, MirrorTask, WaitForTerminal,
         Dispatch, FinishDispatch, CreateTerminal, CheckOff, spec, vars
<1> QED
  BY <1>1, RecordsKept, ControlKept, TerminalsKept DEF BridgeTypes

(* Every variable of the bridge stays in its set (spec-orca.py): every      *)
(* record of Orca is of a run and under an earlier one, only checkpoints    *)
(* have gates, only tasks are dispatched, and no dispatch creates more      *)
(* terminals than it has tasks.                                             *)
THEOREM BridgeTypeCorrect == Spec => []TypeOK
<1>1. IInv /\ MirrorInv /\ BridgeTypes => TypeOK
  <2> SUFFICES ASSUME IInv, MirrorInv, BridgeTypes PROVE TypeOK
    OBVIOUS
  <2>0. /\ TypeInv /\ RefersBack /\ ReceiptsInv
        /\ RecordsInv /\ FileInv /\ ControlInv /\ TerminalsInv /\ deps \in DepGraphs
    BY DEF IInv, BridgeTypes
  <2>1. ASSUME NEW k \in 1..Len(orca)
        PROVE  /\ orca[k].item \in Items /\ orca[k].run \in 1..runs
               /\ orca[k].deps \subseteq 1..k - 1 /\ orca[k].parent \in 0..k - 1
               /\ orca[k].completed \in BOOLEAN
               /\ orca[k].gates \in Nat /\ orca[k].workers \in Nat
    <3>1. orca[k] \in Records
      BY RecordIsTyped
    <3>2. orca[k].deps \subseteq 1..k - 1
      BY <2>0 DEF RefersBack
    <3> QED
      BY <2>0, <3>1, <3>2 DEF Records, RecordsInv
  <2>2. file.ids \in [Items -> 0..Len(orca)]
    BY <2>0 DEF TypeInv, ReceiptsInv
  <2>3. seen \subseteq Tasks
    BY <2>0 DEF MirrorInv, TypeInv
  <2> QED
    BY <2>0, <2>1, <2>2, <2>3 DEF TypeOK, TypeInv, FileInv, ControlInv, TerminalsInv
<1>2. IInv /\ BridgeTypes /\ [Next]_vars => BridgeTypes'
  BY BridgeTypesKept
<1> QED
  BY <1>1, <1>2, BridgeTypesStart, AlwaysIInv, AlwaysMirrorInv, PTL DEF Spec
=============================================================================
