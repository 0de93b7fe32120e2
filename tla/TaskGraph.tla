----------------------------- MODULE TaskGraph -----------------------------
(***************************************************************************)
(* How spec-check.py judges the task list of a specification: the checks   *)
(* on every leaf task, the depth-first search that computes the stage of   *)
(* each task from its dependencies and reports the cycles it meets, and    *)
(* the comparison of the stages it found with the declared ones.           *)
(*                                                                         *)
(* A task list is a function from the tasks, numbered in the order of the  *)
(* checklist, to what their blocks declare.  The fields whose only effect  *)
(* is an error when they are malformed (Files, Delegation, Documentation,  *)
(* Risk, ...) are one Boolean.  A task without "Depends on" is one without *)
(* dependencies: the error of lines 328-331 is also a stage error.         *)
(***************************************************************************)
EXTENDS Naturals, Sequences, FiniteSets, SequencesExt

CONSTANTS N,        \* how many leaf tasks the list has
          Paths,    \* the paths tasks may own, as sequences of their parts
          Plans     \* the task lists under consideration

ASSUME NAssumption == N \in Nat \ {0}

Task == 1..N

\* An identifier that no task of the list has.
Nobody == 0

Block == [deps : SUBSET (0..N), stage : 0..N, optional : BOOLEAN, parallel : BOOLEAN,
          files : SUBSET Paths, contract : BOOLEAN]

ASSUME PlansAssumption == Plans \subseteq [Task -> Block]

VARIABLES plan,      \* the task list
          root,      \* the task whose stage the main loop asks for next
          stack,     \* the calls of compute_stage that are open, the outermost first
          computed,  \* the stages found so far; 0 for None and for "not yet"
          cycles,    \* the cycles reported, each from its least task on
          verdict    \* "open", then "accepted" or "refused"

graphVars == <<plan, root, stack, computed, cycles, verdict>>

Frame == [task : Task, todo : SUBSET (0..N), found : SUBSET Task]

MaxOf(S) == CHOOSE m \in S : \A n \in S : n <= m

Deps(t) == plan[t].deps

Visiting == {stack[i].task : i \in DOMAIN stack}

-----------------------------------------------------------------------------
(* The errors that need no search.                                         *)

BadFields == {t \in Task : ~plan[t].contract \/ plan[t].stage = 0}

\* A slip: a required task may depend on an optional one.
BadReferenceAny(t, d) == d = t \/ d \notin Task \/ d >= t

\* The four cases in the order of the code: a dependency has at most one of these errors.
BadReference(t, d) ==
    \/ d = t
    \/ d \notin Task
    \/ ~plan[t].optional /\ plan[d].optional
    \/ d >= t

BadReferences == {t \in Task : \E d \in Deps(t) : BadReference(t, d)}

OwnedPathsOverlap(p, q) == IsPrefix(p, q) \/ IsPrefix(q, p)

IsGlob(p) == \E i \in DOMAIN p : p[i] = "*"

ParallelIn(s) == {t \in Task : plan[t].parallel /\ plan[t].stage = s}

Globs == {t \in Task : plan[t].parallel /\ plan[t].stage # 0
                       /\ \E p \in plan[t].files : IsGlob(p)}

\* A slip: two owned paths collide only if they are the same.
CollisionsExact ==
    {t \in Task : /\ plan[t].parallel /\ plan[t].stage # 0
                  /\ \E u \in ParallelIn(plan[t].stage) \ {t} :
                        plan[t].files \cap plan[u].files # {}}

Collisions ==
    {t \in Task : /\ plan[t].parallel /\ plan[t].stage # 0
                  /\ \E u \in ParallelIn(plan[t].stage) \ {t} :
                        \E p \in plan[t].files, q \in plan[u].files : OwnedPathsOverlap(p, q)}

\* A declared stage that differs from the computed one, or falls behind an earlier task's.
WrongStages ==
    {t \in Task : plan[t].stage # 0 /\ computed[t] # 0 /\ plan[t].stage # computed[t]}

Unordered == {t \in Task : /\ plan[t].stage # 0
                           /\ \E u \in 1..(t - 1) : plan[u].stage > plan[t].stage}

-----------------------------------------------------------------------------
(* compute_stage, one step per call and per return.                        *)

GraphInit ==
    /\ plan \in Plans
    /\ root = 1
    /\ stack = <<>>
    /\ computed = [t \in Task |-> 0]
    /\ cycles = {}
    /\ verdict = "open"

Open(t) == [task |-> t, todo |-> Deps(t), found |-> {}]

\* A slip: cycles are compared as they were met.
AsMet(c) == c

\* A cycle as the code compares it: the rotation that starts with its least task.
Canonical(c) ==
    LET low == CHOOSE i \in DOMAIN c : \A j \in DOMAIN c : c[i] <= c[j]
    IN  SubSeq(c, low, Len(c)) \o SubSeq(c, 1, low - 1)

\* The open calls from the one for d on, which now asks for d again.
CycleThrough(d) ==
    LET start == CHOOSE i \in DOMAIN stack : stack[i].task = d
    IN  [i \in 1..(Len(stack) - start + 1) |-> stack[start + i - 1].task]

\* The main loop asks for the stage of the next task; a known stage is returned at once.
NextRoot ==
    /\ stack = <<>> /\ root \in Task
    /\ IF computed[root] # 0
       THEN root' = root + 1 /\ stack' = stack
       ELSE stack' = <<Open(root)>> /\ root' = root
    /\ UNCHANGED <<plan, computed, cycles, verdict>>

\* The innermost call turns to its dependency d, in whatever order the list names them.
Visit(d) ==
    /\ stack # <<>>
    /\ LET n   == Len(stack)
           top == stack[n]
           rest == [top EXCEPT !.todo = @ \ {d}]
       IN  /\ d \in top.todo
           /\ \/ /\ d \notin Task \/ d = top.task                       \* skipped
                 /\ stack' = [stack EXCEPT ![n] = rest]
                 /\ UNCHANGED cycles
              \/ /\ d \in Task /\ d # top.task /\ computed[d] # 0       \* cached
                 /\ stack' = [stack EXCEPT ![n] = [rest EXCEPT !.found = @ \union {d}]]
                 /\ UNCHANGED cycles
              \/ /\ d \in Visiting \ {top.task} /\ computed[d] = 0      \* a cycle
                 /\ cycles' = cycles \union {Canonical(CycleThrough(d))}
                 /\ stack' = [stack EXCEPT ![n] = rest]
              \/ /\ d \in Task \ Visiting /\ computed[d] = 0            \* a call
                 /\ stack' = Append([stack EXCEPT ![n] = rest], Open(d))
                 /\ UNCHANGED cycles
    /\ UNCHANGED <<plan, root, computed, verdict>>

\* A slip: a call gives a stage whatever its dependencies gave.
AnyKnown(frame) == TRUE

\* Every dependency the innermost call asked for has a stage.
AllKnown(frame) == frame.found = Deps(frame.task)

\* The innermost call returns: a stage if every dependency has one, otherwise None.
Return ==
    /\ stack # <<>>
    /\ LET n     == Len(stack)
           top   == stack[n]
           known == AllKnown(top)
           below == SubSeq(stack, 1, n - 1)
       IN  /\ top.todo = {}
           /\ computed' = IF known
                          THEN [computed EXCEPT ![top.task] =
                                    1 + MaxOf({0} \union {computed[d] : d \in top.found})]
                          ELSE computed
           /\ stack' = IF known /\ n > 1
                       THEN [below EXCEPT ![n - 1].found = @ \union {top.task}]
                       ELSE below
           /\ root' = IF n = 1 THEN root + 1 ELSE root
    /\ UNCHANGED <<plan, cycles, verdict>>

Accepted ==
    /\ BadFields = {} /\ BadReferences = {} /\ Globs = {} /\ Collisions = {}
    /\ WrongStages = {} /\ Unordered = {}
    /\ cycles = {}

Searched == stack = <<>> /\ root = N + 1 /\ verdict = "open"

Judge ==
    /\ Searched
    /\ verdict' = IF Accepted THEN "accepted" ELSE "refused"
    /\ UNCHANGED <<plan, root, stack, computed, cycles>>

GraphNext ==
    \/ NextRoot
    \/ \E d \in 0..N : Visit(d)
    \/ Return
    \/ Judge

-----------------------------------------------------------------------------
GraphTypeOK ==
    /\ plan \in [Task -> Block]
    /\ root \in 1..(N + 1)
    /\ stack \in Seq(Frame)
    /\ computed \in [Task -> 0..N]
    /\ cycles \subseteq Seq(Task)
    /\ verdict \in {"open", "accepted", "refused"}

\* The chains of tasks in which each is a dependency of the next, without repetition.
Chains ==
    {c \in UNION {[1..k -> Task] : k \in 1..N} :
        /\ \A i, j \in DOMAIN c : i # j => c[i] # c[j]
        /\ \A i \in 1..(Len(c) - 1) : c[i] \in Deps(c[i + 1])}

\* The elementary cycles of the dependencies, self-loops aside; the search walks from a
\* task to its dependencies, so it meets them in that direction.
ElementaryCycles ==
    {c \in UNION {[1..k -> Task] : k \in 2..N} :
        /\ \A i, j \in DOMAIN c : i # j => c[i] # c[j]
        /\ \A i \in DOMAIN c : c[1] <= c[i]
        /\ \A i \in 1..(Len(c) - 1) : c[i + 1] \in Deps(c[i])
        /\ c[1] \in Deps(c[Len(c)])}

\* The tasks t needs, t among them.
Needs(t) == {c[1] : c \in {x \in Chains : x[Len(x)] = t}}

Stageable(t) ==
    \A u \in Needs(t) :
        /\ Deps(u) \subseteq Task \ {u}
        /\ ~\E c \in ElementaryCycles : u \in Range(c)

\* When the search is over, the cycles reported are exactly the elementary cycles of the
\* dependencies: none is missed because a stage was cached, none is reported twice under
\* two rotations, and none is invented (compute_stage, spec-check.py:487-517).
CyclesAreReported == Searched => cycles = ElementaryCycles

\* When the search is over, a task has a stage exactly if all it needs exists and is free of
\* cycles, and the stage is the length of the longest chain of dependencies that ends in it,
\* in whatever order the search met the tasks (spec-check.py:487-517).
StagesAreLongestChains ==
    Searched =>
        \A t \in Task :
            computed[t] = IF Stageable(t)
                          THEN MaxOf({Len(c) : c \in {x \in Chains : x[Len(x)] = t}})
                          ELSE 0
=============================================================================
