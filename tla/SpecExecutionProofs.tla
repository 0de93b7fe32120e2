------------------------- MODULE SpecExecutionProofs -------------------------
(***************************************************************************)
(* The search of spec-check.py finds exactly the elementary cycles and the *)
(* longest chains of a task list, for every list of every length and in    *)
(* whatever order the dependencies are visited; and an approved list is    *)
(* carried out in its order, never twice and never stuck, whatever the     *)
(* watcher does to the file that can be said of it at all.                 *)
(***************************************************************************)
EXTENDS SpecExecution, WellFoundedInduction, FiniteSetTheorems, SequenceTheorems, TLAPS

------------------------------------------------------------------------------
(* The search of spec-check.py. *)

-----------------------------------------------------------------------------
(* Numbers.                                                                *)

\* A non-empty set of naturals has a least element.
LEMMA LeastNatural ==
    ASSUME NEW S \in SUBSET Nat, S # {}
    PROVE  \E m \in S : \A n \in S : m <= n
<1> DEFINE R == OpToRel(<, Nat)
<1>1. IsWellFoundedOn(R, Nat)
  BY NatLessThanWellFounded
<1>2. \A i, j \in Nat : j < i => <<j, i>> \in R
  BY Zenon DEF OpToRel
<1> HIDE DEF R
<1>3. PICK i \in S : \A j \in S : ~(<<j, i>> \in R)
  BY <1>1, WFMin
<1>4. \A j \in S : ~(j < i)
  BY <1>2, <1>3, Zenon
<1> QED BY <1>4

\* A non-empty bounded set of naturals has a greatest element, and MaxOf is that.
LEMMA MaxIs ==
    ASSUME NEW S \in SUBSET Nat, S # {}, NEW b \in Nat, \A x \in S : x <= b
    PROVE  MaxOf(S) \in S /\ \A x \in S : x <= MaxOf(S)
<1> DEFINE D == {b - x : x \in S}
<1>1. D \in SUBSET Nat /\ D # {}
  <2>1. \A x \in S : b - x \in Nat
    OBVIOUS
  <2> QED BY <2>1
<1>2. PICK m \in D : \A n \in D : m <= n
  BY <1>1, LeastNatural
<1>3. PICK y \in S : m = b - y
  OBVIOUS
<1>4. ASSUME NEW x \in S PROVE x <= y
  <2>1. b - x \in D
    OBVIOUS
  <2>2. b - y <= b - x
    BY <1>2, <1>3, <2>1
  <2> QED BY <2>2
<1>5. \E z \in S : \A x \in S : x <= z
  BY <1>4
<1> QED BY <1>5 DEF MaxOf

\* MaxOf is the member of the set that bounds it.
LEMMA MaxIsMember ==
    ASSUME NEW S \in SUBSET Nat, NEW m \in S, \A x \in S : x <= m
    PROVE  MaxOf(S) = m
<1>1. \E z \in S : \A x \in S : x <= z
  OBVIOUS
<1>2. MaxOf(S) \in S /\ \A x \in S : x <= MaxOf(S)
  BY <1>1 DEF MaxOf
<1>3. MaxOf(S) <= m /\ m <= MaxOf(S)
  BY <1>2
<1>4. m \in Nat /\ MaxOf(S) \in Nat
  BY <1>2
<1> QED BY <1>3, <1>4

\* Tasks that are all different are at most N.
LEMMA AtMostN ==
    ASSUME NEW k \in Nat, NEW c \in [1..k -> Task], \A i, j \in 1..k : i # j => c[i] # c[j]
    PROVE  k <= N
<1> USE NAssumption
<1>1. IsFiniteSet(1..k) /\ Cardinality(1..k) = k
  BY FS_Interval
<1>2. IsFiniteSet(Task) /\ Cardinality(Task) = N
  BY FS_Interval DEF Task
<1>3. ~(N < k)
  BY <1>1, <1>2, FS_PigeonHole
<1> QED BY <1>3

-----------------------------------------------------------------------------
(* The frames of the search.                                               *)

\* The types of the search; that no stage exceeds N is a consequence proved below.
SearchTypes ==
    /\ plan \in [Task -> Block]
    /\ root \in 1..(N + 1)
    /\ stack \in Seq(Frame)
    /\ \E b \in Nat : computed \in [Task -> 0..b]
    /\ verdict \in {"open", "accepted", "refused"}

\* The open calls are a path of dependencies from the root, which never comes back to itself.
StackIsPath ==
    /\ stack # <<>> => root \in Task /\ stack[1].task = root
    /\ \A i, j \in 1..Len(stack) : i # j => stack[i].task # stack[j].task
    /\ \A i \in 1..(Len(stack) - 1) :
          /\ stack[i + 1].task \in Deps(stack[i].task)
          /\ stack[i + 1].task \notin stack[i].todo

\* An open call has no stage yet, and found stages only for dependencies it has asked for.
FramesAreHonest ==
    \A i \in 1..Len(stack) :
        /\ computed[stack[i].task] = 0
        /\ stack[i].todo \subseteq Deps(stack[i].task)
        /\ stack[i].found \subseteq Deps(stack[i].task) \ (stack[i].todo \cup {stack[i].task})
        /\ \A d \in stack[i].found : computed[d] # 0

\* A stage is one more than the greatest of the dependencies, which have all one.
StagesFollow ==
    \A t \in Task :
        computed[t] # 0 =>
            /\ Deps(t) \subseteq Task \ {t}
            /\ \A d \in Deps(t) : computed[d] # 0
            /\ computed[t] = 1 + MaxOf({0} \cup {computed[d] : d \in Deps(t)})

SearchInv == SearchTypes /\ StackIsPath /\ FramesAreHonest /\ StagesFollow

\* What a call that is opened looks like.
LEMMA OpenFrame ==
    ASSUME SearchTypes, NEW t \in Task
    PROVE  /\ Open(t) \in Frame
           /\ Open(t).task = t /\ Open(t).todo = Deps(t) /\ Open(t).found = {}
BY DEF SearchTypes, Open, Frame, Deps, Block

\* The innermost call turns to a dependency and stays innermost, or opens a call for it.
LEMMA VisitSteps ==
    ASSUME SearchTypes, NEW d \in 0..N, Visit(d)
    PROVE  /\ Len(stack) \in Nat \ {0} /\ Len(stack') \in Nat /\ stack' \in Seq(Frame)
           /\ d \in stack[Len(stack)].todo
           /\ \A i \in 1..(Len(stack) - 1) : stack'[i] = stack[i]
           /\ stack'[Len(stack)].task = stack[Len(stack)].task
           /\ stack'[Len(stack)].todo = stack[Len(stack)].todo \ {d}
           /\ \/ /\ d \notin Task \/ d = stack[Len(stack)].task
                 /\ Len(stack') = Len(stack) /\ cycles' = cycles
                 /\ stack'[Len(stack)].found = stack[Len(stack)].found
              \/ /\ d \in Task /\ d # stack[Len(stack)].task /\ computed[d] # 0
                 /\ Len(stack') = Len(stack) /\ cycles' = cycles
                 /\ stack'[Len(stack)].found = stack[Len(stack)].found \cup {d}
              \/ /\ d \in Visiting \ {stack[Len(stack)].task} /\ computed[d] = 0
                 /\ Len(stack') = Len(stack)
                 /\ cycles' = cycles \cup {Canonical(CycleThrough(d))}
                 /\ stack'[Len(stack)].found = stack[Len(stack)].found
              \/ /\ d \in Task \ Visiting /\ computed[d] = 0 /\ cycles' = cycles
                 /\ Len(stack') = Len(stack) + 1
                 /\ stack'[Len(stack)].found = stack[Len(stack)].found
                 /\ stack'[Len(stack) + 1] = Open(d)
<1> DEFINE n == Len(stack)
           rest == [stack[n] EXCEPT !.todo = @ \ {d}]
           more == [rest EXCEPT !.found = @ \cup {d}]
<1>1. stack \in Seq(Frame) /\ stack # <<>>
  BY DEF SearchTypes, Visit
<1>2. n \in Nat \ {0}
  BY <1>1, EmptySeq
<1>3. stack[n] \in Frame /\ d \in stack[n].todo
  BY <1>1, <1>2, ElementOfSeq DEF Visit
<1>4. /\ rest \in Frame
      /\ rest.task = stack[n].task /\ rest.todo = stack[n].todo \ {d}
      /\ rest.found = stack[n].found
  BY <1>3 DEF Frame
<1>5. d \in Task => /\ more \in Frame /\ more.task = stack[n].task
                    /\ more.todo = stack[n].todo \ {d}
                    /\ more.found = stack[n].found \cup {d}
  BY <1>3 DEF Frame
<1>6. \/ (d \notin Task \/ d = stack[n].task) /\ stack' = [stack EXCEPT ![n] = rest]
         /\ cycles' = cycles
      \/ /\ d \in Task /\ d # stack[n].task /\ computed[d] # 0
         /\ stack' = [stack EXCEPT ![n] = more] /\ cycles' = cycles
      \/ /\ d \in Visiting \ {stack[n].task} /\ computed[d] = 0
         /\ cycles' = cycles \cup {Canonical(CycleThrough(d))}
         /\ stack' = [stack EXCEPT ![n] = rest]
      \/ /\ d \in Task \ Visiting /\ computed[d] = 0
         /\ stack' = Append([stack EXCEPT ![n] = rest], Open(d)) /\ cycles' = cycles
  BY DEF Visit
<1> HIDE DEF rest, more
<1>7. ASSUME NEW e \in Frame
      PROVE  /\ [stack EXCEPT ![n] = e] \in Seq(Frame) /\ Len([stack EXCEPT ![n] = e]) = n
             /\ \A i \in 1..(n - 1) : [stack EXCEPT ![n] = e][i] = stack[i]
             /\ [stack EXCEPT ![n] = e][n] = e
  BY <1>1, <1>2, ExceptSeq
<1>8. CASE /\ stack' = [stack EXCEPT ![n] = rest]
           /\ \/ (d \notin Task \/ d = stack[n].task) /\ cycles' = cycles
              \/ /\ d \in Visiting \ {stack[n].task} /\ computed[d] = 0
                 /\ cycles' = cycles \cup {Canonical(CycleThrough(d))}
  <2>1. /\ stack' \in Seq(Frame) /\ Len(stack') = n /\ stack'[n] = rest
        /\ \A i \in 1..(n - 1) : stack'[i] = stack[i]
    BY <1>4, <1>7, <1>8
  <2> QED BY <1>2, <1>3, <1>4, <1>8, <2>1
<1>9. CASE d \in Task /\ d # stack[n].task /\ computed[d] # 0
           /\ stack' = [stack EXCEPT ![n] = more] /\ cycles' = cycles
  BY <1>2, <1>3, <1>5, <1>7, <1>9
<1>10. CASE /\ d \in Task \ Visiting /\ computed[d] = 0 /\ cycles' = cycles
            /\ stack' = Append([stack EXCEPT ![n] = rest], Open(d))
  <2> DEFINE s == [stack EXCEPT ![n] = rest]
  <2>1. s \in Seq(Frame) /\ Len(s) = n /\ s[n] = rest
        /\ \A i \in 1..(n - 1) : s[i] = stack[i]
    BY <1>4, <1>7
  <2>2. Open(d) \in Frame
    BY <1>10, OpenFrame
  <2> HIDE DEF s
  <2>3. stack' = Append(s, Open(d))
    BY <1>10 DEF s
  <2>4. /\ stack' \in Seq(Frame) /\ Len(stack') = n + 1
        /\ \A i \in 1..n : stack'[i] = s[i]
        /\ stack'[n + 1] = Open(d)
    BY <2>1, <2>2, <2>3, AppendProperties
  <2> QED BY <1>2, <1>3, <1>4, <1>10, <2>1, <2>4
<1> QED BY <1>6, <1>8, <1>9, <1>10

\* The stage of a call whose dependencies all have one exceeds theirs.
LEMMA StageOf ==
    ASSUME NEW b \in Nat, computed \in [Task -> 0..b], NEW S \in SUBSET Task
    PROVE  LET m == MaxOf({0} \cup {computed[d] : d \in S})
           IN  m \in 0..b /\ \A d \in S : computed[d] <= m
<1> DEFINE C == {0} \cup {computed[d] : d \in S}
<1>1. C \in SUBSET Nat /\ C # {} /\ \A x \in C : x <= b
  OBVIOUS
<1>2. MaxOf(C) \in C /\ \A x \in C : x <= MaxOf(C)
  BY <1>1, MaxIs
<1>3. \A d \in S : computed[d] \in C
  OBVIOUS
<1> QED BY <1>1, <1>2, <1>3

\* The innermost call ends, and the one below it hears of a stage if there is one.
LEMMA ReturnSteps ==
    ASSUME SearchTypes, Return
    PROVE  LET n == Len(stack)
               known == stack[n].found = Deps(stack[n].task)
           IN  /\ n \in Nat \ {0} /\ stack' \in Seq(Frame) /\ Len(stack') = n - 1
               /\ stack[n].todo = {}
               /\ computed' = IF known
                              THEN [computed EXCEPT ![stack[n].task] =
                                      1 + MaxOf({0} \cup {computed[d] : d \in stack[n].found})]
                              ELSE computed
               /\ \A i \in 1..(n - 1) : stack'[i].task = stack[i].task
                                        /\ stack'[i].todo = stack[i].todo
               /\ \A i \in 1..(n - 2) : stack'[i].found = stack[i].found
               /\ n > 1 => stack'[n - 1].found =
                             IF known THEN stack[n - 1].found \cup {stack[n].task}
                             ELSE stack[n - 1].found
               /\ root' = IF n = 1 THEN root + 1 ELSE root
<1> DEFINE n == Len(stack)
           below == SubSeq(stack, 1, n - 1)
           known == stack[n].found = Deps(stack[n].task)
           told == [below[n - 1] EXCEPT !.found = @ \cup {stack[n].task}]
<1>1. stack \in Seq(Frame) /\ stack # <<>>
  BY DEF SearchTypes, Return
<1>2. n \in Nat \ {0}
  BY <1>1, EmptySeq
<1>3. \A i \in 1..n : stack[i] \in Frame
  BY <1>1, ElementOfSeq
<1>4. /\ below \in Seq(Frame) /\ Len(below) = n - 1
      /\ \A i \in 1..(n - 1) : below[i] = stack[i]
  BY <1>2, <1>3, SubSeqProperties
<1>5. /\ stack[n].todo = {}
      /\ computed' = IF known
                     THEN [computed EXCEPT ![stack[n].task] =
                             1 + MaxOf({0} \cup {computed[d] : d \in stack[n].found})]
                     ELSE computed
      /\ root' = IF n = 1 THEN root + 1 ELSE root
  BY DEF Return, AllKnown
<1>6. stack' = IF known /\ n > 1 THEN [below EXCEPT ![n - 1] = told] ELSE below
  BY DEF Return, AllKnown
<1>7. CASE known /\ n > 1
  <2>1. stack[n] \in Frame /\ stack[n - 1] \in Frame /\ below[n - 1] = stack[n - 1]
    BY <1>2, <1>3, <1>4, <1>7
  <2>2. /\ told \in Frame /\ told.task = stack[n - 1].task /\ told.todo = stack[n - 1].todo
        /\ told.found = stack[n - 1].found \cup {stack[n].task}
    BY <2>1 DEF Frame
  <2> HIDE DEF told, below
  <2>3. stack' = [below EXCEPT ![n - 1] = told]
    BY <1>6, <1>7
  <2>4. /\ stack' \in Seq(Frame) /\ Len(stack') = n - 1 /\ stack'[n - 1] = told
        /\ \A i \in 1..(n - 2) : stack'[i] = stack[i]
    BY <1>2, <1>4, <1>7, <2>2, <2>3, ExceptSeq
  <2>5. \A i \in 1..(n - 1) : i = n - 1 \/ i \in 1..(n - 2)
    BY <1>2
  <2> QED BY <1>2, <1>5, <1>7, <2>2, <2>4, <2>5
<1>8. CASE ~(known /\ n > 1)
  <2> HIDE DEF below
  <2>1. stack' = below
    BY <1>6, <1>8
  <2>2. \A i \in 1..(n - 1) : stack'[i] = stack[i]
    BY <1>4, <2>1
  <2> QED BY <1>2, <1>4, <1>5, <1>8, <2>1, <2>2
<1> QED BY <1>7, <1>8

\* The main loop passes over a task that has a stage, or opens a call for it.
LEMMA RootSteps ==
    ASSUME SearchTypes, NextRoot
    PROVE  /\ stack = <<>> /\ root \in Task
           /\ \/ computed[root] # 0 /\ root' = root + 1 /\ stack' = <<>>
              \/ /\ computed[root] = 0 /\ root' = root /\ Len(stack') = 1
                 /\ stack' \in Seq(Frame) /\ stack'[1] = Open(root)
<1>1. root \in Task => Open(root) \in Frame
  BY OpenFrame
<1>2. /\ stack = <<>> /\ root \in Task
      /\ computed[root] # 0 => root' = root + 1 /\ stack' = stack
      /\ computed[root] = 0 => stack' = <<Open(root)>> /\ root' = root
  BY DEF NextRoot
<1>3. ASSUME NEW e \in Frame
      PROVE  <<e>> \in Seq(Frame) /\ Len(<<e>>) = 1 /\ <<e>>[1] = e
  OBVIOUS
<1> QED BY <1>1, <1>2, <1>3

\* The tasks of the open calls are those at the positions of the stack.
LEMMA VisitingIs ==
    ASSUME SearchTypes
    PROVE  /\ Len(stack) \in Nat /\ DOMAIN stack = 1..Len(stack)
           /\ \A i \in 1..Len(stack) : stack[i] \in Frame /\ stack[i].task \in Task
           /\ \A t : t \in Visiting <=> \E i \in 1..Len(stack) : stack[i].task = t
<1>1. stack \in Seq(Frame)
  BY DEF SearchTypes
<1>2. Len(stack) \in Nat /\ DOMAIN stack = 1..Len(stack)
      /\ \A i \in 1..Len(stack) : stack[i] \in Frame
  BY <1>1, LenProperties, ElementOfSeq
<1>3. \A f \in Frame : f.task \in Task
  BY DEF Frame
<1> QED BY <1>2, <1>3 DEF Visiting

LEMMA SearchInit == GraphInit => SearchInv
<1> SUFFICES ASSUME GraphInit PROVE SearchInv
  OBVIOUS
<1> USE NAssumption, PlansAssumption
<1>1. stack = <<>> /\ Len(stack) = 0 /\ stack \in Seq(Frame)
  BY EmptySeq DEF GraphInit
<1>2. computed \in [Task -> 0..0] /\ \A t \in Task : computed[t] = 0
  BY DEF GraphInit
<1>3. SearchTypes
  BY <1>1, <1>2 DEF GraphInit, SearchTypes
<1>4. StackIsPath /\ FramesAreHonest
  BY <1>1 DEF StackIsPath, FramesAreHonest
<1>5. StagesFollow
  BY <1>2 DEF StagesFollow
<1> QED BY <1>3, <1>4, <1>5 DEF SearchInv

\* A call that turns to a dependency keeps the stack a path of honest frames.
LEMMA VisitKeeps ==
    ASSUME SearchInv, NEW d \in 0..N, Visit(d)
    PROVE  SearchInv'
<1> DEFINE n == Len(stack)
<1>1. SearchTypes /\ StackIsPath /\ FramesAreHonest /\ StagesFollow
  BY DEF SearchInv
<1>2. plan' = plan /\ root' = root /\ computed' = computed /\ verdict' = verdict
  BY DEF Visit
<1>3. /\ n \in Nat \ {0} /\ stack' \in Seq(Frame) /\ d \in stack[n].todo
      /\ \A i \in 1..(n - 1) : stack'[i] = stack[i]
      /\ stack'[n].task = stack[n].task /\ stack'[n].todo = stack[n].todo \ {d}
      /\ \/ /\ Len(stack') = n
            /\ \/ stack'[n].found = stack[n].found
               \/ /\ stack'[n].found = stack[n].found \cup {d}
                  /\ d # stack[n].task /\ computed[d] # 0
         \/ /\ Len(stack') = n + 1 /\ stack'[n].found = stack[n].found
            /\ stack'[n + 1] = Open(d) /\ d \in Task \ Visiting /\ computed[d] = 0
  BY <1>1, VisitSteps
<1>4. SearchTypes'
  BY <1>1, <1>2, <1>3 DEF SearchTypes
<1>5. \A t : Deps(t)' = Deps(t)
  BY <1>2 DEF Deps
<1>6. d \in Deps(stack[n].task)
  BY <1>1, <1>3 DEF FramesAreHonest
<1>7. Len(stack') = n + 1 =>
        /\ stack'[n + 1].task = d /\ stack'[n + 1].todo = Deps(d) /\ stack'[n + 1].found = {}
        /\ \A i \in 1..n : stack[i].task # d
  <2> SUFFICES ASSUME Len(stack') = n + 1
               PROVE  /\ stack'[n + 1].task = d /\ stack'[n + 1].todo = Deps(d)
                      /\ stack'[n + 1].found = {} /\ \A i \in 1..n : stack[i].task # d
    OBVIOUS
  <2>1. stack'[n + 1] = Open(d) /\ d \in Task \ Visiting
    BY <1>3
  <2>2. \A i \in 1..n : stack[i].task # d
    BY <1>1, <2>1, VisitingIs
  <2> QED BY <1>1, <2>1, <2>2, OpenFrame
<1>8. \A i \in 1..n : stack'[i].task = stack[i].task
  BY <1>3
<1>9. StackIsPath'
  <2>1. stack' # <<>> /\ root' \in Task /\ stack'[1].task = root'
    <3>1. stack # <<>> /\ stack' # <<>>
      BY <1>3, EmptySeq
    <3> QED BY <3>1, <1>1, <1>2, <1>3, <1>8 DEF StackIsPath
  <2>2. ASSUME NEW i \in 1..Len(stack'), NEW j \in 1..Len(stack'), i # j
        PROVE  stack'[i].task # stack'[j].task
    <3>1. CASE i \in 1..n /\ j \in 1..n
      BY <1>1, <1>8, <2>2, <3>1 DEF StackIsPath
    <3>2. CASE ~(i \in 1..n /\ j \in 1..n)
      BY <1>3, <1>7, <1>8, <2>2, <3>2
    <3> QED BY <3>1, <3>2
  <2>3. ASSUME NEW i \in 1..(Len(stack') - 1)
        PROVE  /\ stack'[i + 1].task \in Deps(stack'[i].task)
               /\ stack'[i + 1].task \notin stack'[i].todo
    <3>1. CASE i \in 1..(n - 1)
      BY <1>1, <1>3, <1>8, <3>1 DEF StackIsPath
    <3>2. CASE i = n
      BY <1>3, <1>6, <1>7, <1>8, <3>2
    <3> QED BY <1>3, <3>1, <3>2
  <2> QED BY <1>2, <2>1, <2>2, <2>3 DEF StackIsPath, Deps
<1>10. FramesAreHonest'
  <2> DEFINE Honest(f) == /\ computed[f.task] = 0 /\ f.todo \subseteq Deps(f.task)
                          /\ f.found \subseteq Deps(f.task) \ (f.todo \cup {f.task})
                          /\ \A e \in f.found : computed[e] # 0
  <2>1. ASSUME NEW i \in 1..Len(stack') PROVE Honest(stack'[i])
    <3>1. CASE i \in 1..(n - 1)
      BY <1>1, <1>3, <3>1 DEF FramesAreHonest
    <3>2. CASE i = n
      <4>1. Honest(stack[n])
        BY <1>1, <1>3 DEF FramesAreHonest
      <4> QED BY <4>1, <1>3, <1>6, <3>2
    <3>3. CASE i = n + 1 /\ Len(stack') = n + 1
      BY <1>3, <1>7, <3>3
    <3> QED BY <1>3, <3>1, <3>2, <3>3
  <2> QED BY <1>2, <1>5, <2>1 DEF FramesAreHonest
<1>11. StagesFollow'
  BY <1>1, <1>2 DEF StagesFollow, Deps
<1> QED BY <1>4, <1>9, <1>10, <1>11 DEF SearchInv

LEMMA RootKeeps == ASSUME SearchInv, NextRoot PROVE SearchInv'
<1>1. SearchTypes /\ StackIsPath /\ FramesAreHonest /\ StagesFollow
  BY DEF SearchInv
<1>2. plan' = plan /\ computed' = computed /\ verdict' = verdict
  BY DEF NextRoot
<1>3. /\ stack = <<>> /\ root \in Task
      /\ \/ computed[root] # 0 /\ root' = root + 1 /\ stack' = <<>>
         \/ /\ computed[root] = 0 /\ root' = root /\ Len(stack') = 1
            /\ stack' \in Seq(Frame) /\ stack'[1] = Open(root)
  BY <1>1, RootSteps
<1>4. Open(root).task = root /\ Open(root).todo = Deps(root) /\ Open(root).found = {}
  BY <1>1, <1>3, OpenFrame
<1>5. Len(<<>>) = 0 /\ <<>> \in Seq(Frame)
  BY EmptySeq
<1>6. SearchTypes'
  <2>1. root' \in 1..(N + 1)
    BY <1>3, NAssumption DEF Task
  <2>2. stack' \in Seq(Frame)
    BY <1>3, <1>5
  <2> QED BY <1>1, <1>2, <2>1, <2>2 DEF SearchTypes
<1>7. StackIsPath'
  <2>1. CASE stack' = <<>>
    BY <1>5, <2>1 DEF StackIsPath
  <2>2. CASE Len(stack') = 1 /\ stack'[1].task = root /\ root' = root
    BY <1>3, <2>2 DEF StackIsPath
  <2> QED BY <1>3, <1>4, <2>1, <2>2
<1>8. FramesAreHonest'
  <2>1. CASE stack' = <<>>
    BY <1>5, <2>1 DEF FramesAreHonest
  <2>2. CASE computed[root] = 0 /\ Len(stack') = 1 /\ stack'[1] = Open(root)
    BY <1>2, <1>4, <2>2 DEF FramesAreHonest, Deps
  <2> QED BY <1>3, <2>1, <2>2
<1>9. StagesFollow'
  BY <1>1, <1>2 DEF StagesFollow, Deps
<1> QED BY <1>6, <1>7, <1>8, <1>9 DEF SearchInv

\* A call that returns gives its task the stage its dependencies call for, or none.
LEMMA ReturnKeeps == ASSUME SearchInv, Return PROVE SearchInv'
<1> DEFINE n == Len(stack)
           t == stack[n].task
           known == stack[n].found = Deps(t)
           top == MaxOf({0} \cup {computed[d] : d \in stack[n].found})
<1>1. SearchTypes /\ StackIsPath /\ FramesAreHonest /\ StagesFollow
  BY DEF SearchInv
<1>2. plan' = plan /\ verdict' = verdict
  BY DEF Return
<1>3. /\ n \in Nat \ {0} /\ stack' \in Seq(Frame) /\ Len(stack') = n - 1
      /\ stack[n].todo = {}
      /\ computed' = IF known THEN [computed EXCEPT ![t] = 1 + top] ELSE computed
      /\ \A i \in 1..(n - 1) : stack'[i].task = stack[i].task /\ stack'[i].todo = stack[i].todo
      /\ \A i \in 1..(n - 2) : stack'[i].found = stack[i].found
      /\ n > 1 => stack'[n - 1].found = IF known THEN stack[n - 1].found \cup {t}
                                        ELSE stack[n - 1].found
      /\ root' = IF n = 1 THEN root + 1 ELSE root
  BY <1>1, ReturnSteps
<1>4. t \in Task /\ stack[n].found \subseteq Task /\ computed[t] = 0
      /\ \A d \in stack[n].found : computed[d] # 0 /\ d # t
  <2>1. stack[n] \in Frame /\ t \in Task
    BY <1>1, <1>3, VisitingIs
  <2> QED BY <1>1, <1>3, <2>1 DEF FramesAreHonest, Frame
<1>5. PICK b \in Nat : computed \in [Task -> 0..b]
  BY <1>1 DEF SearchTypes
<1>6. top \in 0..b
  BY <1>4, <1>5, StageOf
<1> HIDE DEF top
<1>7. /\ computed' \in [Task -> 0..(b + 1)]
      /\ \A u \in Task \ {t} : computed'[u] = computed[u]
      /\ IF known THEN computed'[t] = 1 + top /\ computed'[t] # 0 ELSE computed'[t] = 0
  BY <1>3, <1>4, <1>5, <1>6
<1>8. stack # <<>> /\ root \in Task
  BY <1>1, <1>3, EmptySeq DEF StackIsPath
<1>9. SearchTypes'
  <2>1. root' \in 1..(N + 1)
    BY <1>3, <1>8, NAssumption DEF Task
  <2>2. b + 1 \in Nat
    OBVIOUS
  <2> QED BY <1>1, <1>2, <1>3, <1>7, <2>1, <2>2 DEF SearchTypes
<1>10. StackIsPath'
  <2>1. stack' # <<>> => root' \in Task /\ stack'[1].task = root'
    <3> SUFFICES ASSUME stack' # <<>> PROVE root' = root /\ stack'[1].task = stack[1].task
      BY <1>1, <1>8 DEF StackIsPath
    <3>1. Len(stack') # 0
      BY <1>3, EmptySeq
    <3> QED BY <1>3, <3>1
  <2>2. \A i, j \in 1..Len(stack') : i # j => stack'[i].task # stack'[j].task
    BY <1>1, <1>3 DEF StackIsPath
  <2>3. ASSUME NEW i \in 1..(Len(stack') - 1)
        PROVE  /\ stack'[i + 1].task \in Deps(stack'[i].task)
               /\ stack'[i + 1].task \notin stack'[i].todo
    <3>1. i \in 1..(n - 1) /\ i + 1 \in 1..(n - 1)
      BY <1>3
    <3>2. /\ stack[i + 1].task \in Deps(stack[i].task)
          /\ stack[i + 1].task \notin stack[i].todo
      BY <1>1, <3>1 DEF StackIsPath
    <3> QED BY <1>3, <3>1, <3>2
  <2> QED BY <1>2, <2>1, <2>2, <2>3 DEF StackIsPath, Deps
<1>11. FramesAreHonest'
  <2> SUFFICES ASSUME NEW i \in 1..(n - 1)
               PROVE  /\ computed'[stack'[i].task] = 0
                      /\ stack'[i].todo \subseteq Deps(stack'[i].task)
                      /\ stack'[i].found \subseteq
                           Deps(stack'[i].task) \ (stack'[i].todo \cup {stack'[i].task})
                      /\ \A d \in stack'[i].found : computed'[d] # 0
    BY <1>2, <1>3 DEF FramesAreHonest, Deps
  <2>1. /\ stack'[i].task = stack[i].task /\ stack'[i].todo = stack[i].todo
        /\ stack[i].task \in Task /\ stack[i].task # t
    BY <1>1, <1>3, VisitingIs DEF StackIsPath
  <2>2. /\ computed[stack[i].task] = 0 /\ stack[i].todo \subseteq Deps(stack[i].task)
        /\ stack[i].found \subseteq Deps(stack[i].task) \ (stack[i].todo \cup {stack[i].task})
        /\ \A d \in stack[i].found : computed[d] # 0
    BY <1>1, <1>3 DEF FramesAreHonest
  <2>3. stack[i].found \subseteq Task
    BY <1>1, <1>3, VisitingIs DEF Frame
  <2>4. \A d \in stack[i].found : computed'[d] # 0
    BY <1>4, <1>7, <2>2, <2>3
  <2>5. CASE stack'[i].found = stack[i].found
    BY <1>7, <2>1, <2>2, <2>4, <2>5
  <2>6. CASE known /\ i = n - 1 /\ stack'[i].found = stack[i].found \cup {t}
    <3>1. t \in Deps(stack[i].task) /\ t \notin stack[i].todo
      BY <1>1, <1>3, <2>6 DEF StackIsPath
    <3> QED BY <1>7, <2>1, <2>2, <2>4, <2>6, <3>1
  <2>7. i \in 1..(n - 2) \/ i = n - 1
    BY <1>3
  <2> QED BY <1>3, <2>5, <2>6, <2>7
<1>12. StagesFollow'
  <2> SUFFICES ASSUME NEW u \in Task, computed'[u] # 0
               PROVE  /\ Deps(u) \subseteq Task \ {u}
                      /\ \A d \in Deps(u) : computed'[d] # 0
                      /\ computed'[u] = 1 + MaxOf({0} \cup {computed'[d] : d \in Deps(u)})
    BY <1>2 DEF StagesFollow, Deps
  <2>1. CASE u # t
    <3>1. /\ computed[u] # 0 /\ Deps(u) \subseteq Task \ {u}
          /\ \A d \in Deps(u) : computed[d] # 0
          /\ computed[u] = 1 + MaxOf({0} \cup {computed[d] : d \in Deps(u)})
      BY <1>1, <1>7, <2>1 DEF StagesFollow
    <3>2. \A d \in Deps(u) : computed'[d] = computed[d]
      BY <1>4, <1>7, <3>1
    <3>3. {computed'[d] : d \in Deps(u)} = {computed[d] : d \in Deps(u)}
      BY <3>2
    <3> QED BY <1>7, <2>1, <3>1, <3>2, <3>3
  <2>2. CASE u = t
    <3>1. known /\ computed'[t] = 1 + top
      BY <1>7, <2>2
    <3>2. Deps(t) \subseteq Task \ {t} /\ \A d \in Deps(t) : computed[d] # 0
      BY <1>4, <3>1
    <3>3. \A d \in Deps(t) : computed'[d] = computed[d]
      BY <1>7, <3>2
    <3>4. {computed'[d] : d \in Deps(t)} = {computed[d] : d \in Deps(t)}
      BY <3>3
    <3>5. top = MaxOf({0} \cup {computed'[d] : d \in Deps(t)})
      BY <3>1, <3>4 DEF top
    <3> QED BY <2>2, <3>1, <3>2, <3>3, <3>5
  <2> QED BY <2>1, <2>2
<1> QED BY <1>9, <1>10, <1>11, <1>12 DEF SearchInv

LEMMA SearchStep == SearchInv /\ [GraphNext]_graphVars => SearchInv'
<1> SUFFICES ASSUME SearchInv, [GraphNext]_graphVars PROVE SearchInv'
  OBVIOUS
<1>1. CASE UNCHANGED <<plan, root, stack, computed>> /\ verdict' \in {"open", "accepted", "refused"}
  <2>1. plan' = plan /\ root' = root /\ stack' = stack /\ computed' = computed
    BY <1>1
  <2>2. SearchTypes'
    BY <1>1, <2>1 DEF SearchInv, SearchTypes
  <2>3. StackIsPath'
    BY <2>1 DEF SearchInv, StackIsPath, Deps
  <2>4. FramesAreHonest'
    BY <2>1 DEF SearchInv, FramesAreHonest, Deps
  <2>5. StagesFollow'
    BY <2>1 DEF SearchInv, StagesFollow, Deps
  <2> QED BY <2>2, <2>3, <2>4, <2>5 DEF SearchInv
<1>2. CASE Judge
  BY <1>1, <1>2 DEF Judge
<1>3. CASE UNCHANGED graphVars
  BY <1>1, <1>3 DEF graphVars, SearchInv, SearchTypes
<1> QED BY <1>2, <1>3, RootKeeps, ReturnKeeps, VisitKeeps DEF GraphNext

-----------------------------------------------------------------------------
(* The cycles reported are the elementary cycles.                          *)

\* A function on 1..k is a sequence of length k.
LEMMA FunctionIsSeq ==
    ASSUME NEW S, NEW k \in Nat, NEW c \in [1..k -> S]
    PROVE  c \in Seq(S) /\ Len(c) = k /\ DOMAIN c = 1..k
<1>1. c \in Seq(S)
  BY SeqDef
<1>2. Len(c) \in Nat /\ DOMAIN c = 1..Len(c) /\ DOMAIN c = 1..k
  BY <1>1, LenProperties
<1>3. Len(c) = k
  <2>1. k \in 1..k => k \in 1..Len(c)
    BY <1>2
  <2>2. Len(c) \in 1..Len(c) => Len(c) \in 1..k
    BY <1>2
  <2> QED BY <1>2, <2>1, <2>2
<1> QED BY <1>1, <1>2, <1>3

\* The task that follows the one at position m of a cycle.
After(c, m) == IF m = Len(c) THEN c[1] ELSE c[m + 1]

LEMMA CycleIs ==
    ASSUME NEW c \in ElementaryCycles
    PROVE  /\ Len(c) \in 2..N /\ c \in [1..Len(c) -> Task] /\ c \in Seq(Task)
           /\ \A i, j \in 1..Len(c) : i # j => c[i] # c[j]
           /\ \A i \in 1..Len(c) : c[1] <= c[i]
           /\ \A m \in 1..Len(c) :
                 /\ After(c, m) \in Deps(c[m]) /\ After(c, m) # c[m] /\ After(c, m) \in Task
<1> USE NAssumption
<1>1. PICK k \in 2..N : c \in [1..k -> Task]
  BY DEF ElementaryCycles
<1>2. c \in Seq(Task) /\ Len(c) = k /\ DOMAIN c = 1..k
  BY <1>1, FunctionIsSeq
<1>3. /\ \A i, j \in 1..k : i # j => c[i] # c[j]
      /\ \A i \in 1..k : c[1] <= c[i]
      /\ \A i \in 1..(k - 1) : c[i + 1] \in Deps(c[i])
      /\ c[1] \in Deps(c[k])
  BY <1>2 DEF ElementaryCycles
<1>4. ASSUME NEW m \in 1..k
      PROVE  After(c, m) \in Deps(c[m]) /\ After(c, m) # c[m] /\ After(c, m) \in Task
  BY <1>1, <1>2, <1>3 DEF After
<1> QED BY <1>1, <1>2, <1>3, <1>4

\* Such a sequence of tasks is an elementary cycle.
LEMMA CycleFrom ==
    ASSUME NEW k \in Nat, k >= 2, NEW c \in [1..k -> Task],
           \A i, j \in 1..k : i # j => c[i] # c[j],
           \A i \in 1..k : c[1] <= c[i],
           \A i \in 1..(k - 1) : c[i + 1] \in Deps(c[i]),
           c[1] \in Deps(c[k])
    PROVE  c \in ElementaryCycles
<1>1. k \in 2..N
  BY AtMostN, NAssumption
<1>2. Len(c) = k /\ DOMAIN c = 1..k
  BY FunctionIsSeq
<1>3. c \in UNION {[1..j -> Task] : j \in 2..N}
  BY <1>1
<1> QED BY <1>2, <1>3 DEF ElementaryCycles

\* A dependency has a lower stage than the task that needs it.
LEMMA StageExceeds ==
    ASSUME SearchInv, NEW t \in Task, computed[t] # 0, NEW d \in Deps(t)
    PROVE  /\ d \in Task \ {t} /\ computed[d] # 0 /\ computed[d] < computed[t]
           /\ computed[d] \in Nat /\ computed[t] \in Nat
<1>1. PICK b \in Nat : computed \in [Task -> 0..b]
  BY DEF SearchInv, SearchTypes
<1>2. /\ Deps(t) \subseteq Task \ {t} /\ computed[d] # 0
      /\ computed[t] = 1 + MaxOf({0} \cup {computed[e] : e \in Deps(t)})
  BY DEF SearchInv, StagesFollow
<1> DEFINE m == MaxOf({0} \cup {computed[e] : e \in Deps(t)})
<1>3. m \in 0..b /\ computed[d] <= m
  BY <1>1, <1>2, StageOf
<1> HIDE DEF m
<1>4. computed[t] = 1 + m
  BY <1>2 DEF m
<1> QED BY <1>1, <1>2, <1>3, <1>4

\* No task of a cycle has a stage: the least would have a dependency with a lower one.
LEMMA CyclesHaveNoStage ==
    ASSUME SearchInv, NEW c \in ElementaryCycles, NEW i \in 1..Len(c)
    PROVE  computed[c[i]] = 0
<1> SUFFICES ASSUME computed[c[i]] # 0 PROVE FALSE
  OBVIOUS
<1>1. /\ Len(c) \in Nat /\ c \in [1..Len(c) -> Task]
      /\ \A m \in 1..Len(c) : After(c, m) \in Deps(c[m])
  BY CycleIs
<1>2. PICK b \in Nat : computed \in [Task -> 0..b]
  BY DEF SearchInv, SearchTypes
<1> DEFINE S == {computed[c[j]] : j \in {k \in 1..Len(c) : computed[c[k]] # 0}}
<1>3. S \in SUBSET Nat /\ S # {}
  <2>1. \A j \in 1..Len(c) : computed[c[j]] \in Nat
    BY <1>1, <1>2
  <2> QED BY <2>1
<1>4. PICK j \in 1..Len(c) : /\ computed[c[j]] # 0
                             /\ \A m \in S : computed[c[j]] <= m
  <2>1. PICK m \in S : \A e \in S : m <= e
    BY <1>3, LeastNatural
  <2> QED BY <2>1
<1>5. PICK k \in 1..Len(c) : c[k] = After(c, j)
  <2>1. Len(c) \in Nat /\ j \in 1..Len(c)
    BY <1>1
  <2>2. j = Len(c) => 1 \in 1..Len(c)
    BY <2>1
  <2>3. j # Len(c) => j + 1 \in 1..Len(c)
    BY <2>1
  <2> QED BY <2>2, <2>3 DEF After
<1>6. /\ computed[c[k]] # 0 /\ computed[c[k]] < computed[c[j]]
      /\ computed[c[k]] \in Nat /\ computed[c[j]] \in Nat
  BY <1>1, <1>4, <1>5, StageExceeds
<1>7. computed[c[k]] \in S
  BY <1>6
<1> HIDE DEF S
<1>8. computed[c[j]] <= computed[c[k]]
  BY <1>4, <1>7
<1> QED BY <1>6, <1>8

\* The rotation the code compares: it starts at the least task and goes round once.
LEMMA CanonicalIs ==
    ASSUME NEW k \in Nat \ {0}, NEW c \in [1..k -> Task]
    PROVE  \E low \in 1..k :
              /\ \A j \in 1..k : c[low] <= c[j]
              /\ Canonical(c) \in [1..k -> Task]
              /\ \A i \in 1..(k - low + 1) : Canonical(c)[i] = c[low + i - 1]
              /\ \A i \in (k - low + 2)..k : Canonical(c)[i] = c[i - (k - low + 1)]
<1>1. c \in Seq(Task) /\ Len(c) = k /\ DOMAIN c = 1..k
  BY FunctionIsSeq
<1>2. \A j \in 1..k : c[j] \in Nat
  BY NAssumption DEF Task
<1>3. \E low \in 1..k : \A j \in 1..k : c[low] <= c[j]
  <2> DEFINE S == {c[j] : j \in 1..k}
  <2>1. S \in SUBSET Nat /\ S # {} /\ \A j \in 1..k : c[j] \in S
    BY <1>2
  <2>2. PICK m \in S : \A e \in S : m <= e
    BY <2>1, LeastNatural
  <2> QED BY <2>1, <2>2
<1> DEFINE low == CHOOSE i \in DOMAIN c : \A j \in DOMAIN c : c[i] <= c[j]
           front == SubSeq(c, low, k)
           back == SubSeq(c, 1, low - 1)
<1>4. low \in 1..k /\ \A j \in 1..k : c[low] <= c[j]
  BY <1>1, <1>3
<1>5. Canonical(c) = front \o back
  BY <1>1 DEF Canonical
<1> HIDE DEF low
<1>6. /\ front \in Seq(Task) /\ Len(front) = k - low + 1
      /\ \A i \in 1..(k - low + 1) : front[i] = c[low + i - 1]
  BY <1>4, SubSeqProperties
<1>7. /\ back \in Seq(Task) /\ Len(back) = low - 1
      /\ \A i \in 1..(low - 1) : back[i] = c[i]
  BY <1>4, SubSeqProperties
<1> HIDE DEF front, back
<1>8. /\ front \o back \in Seq(Task) /\ Len(front \o back) = k
      /\ \A i \in 1..k : (front \o back)[i] = IF i <= k - low + 1 THEN front[i]
                                               ELSE back[i - (k - low + 1)]
  <2>1. Len(front) + Len(back) = k
    BY <1>4, <1>6, <1>7
  <2> QED BY <1>6, <1>7, <2>1, ConcatProperties
<1>9. Canonical(c) \in [1..k -> Task]
  BY <1>5, <1>8, LenProperties
<1>10. \A i \in 1..(k - low + 1) : Canonical(c)[i] = c[low + i - 1]
  BY <1>4, <1>5, <1>6, <1>8
<1>11. \A i \in (k - low + 2)..k : Canonical(c)[i] = c[i - (k - low + 1)]
  BY <1>4, <1>5, <1>7, <1>8
<1> QED BY <1>4, <1>9, <1>10, <1>11

\* An elementary cycle is its own canonical rotation.
LEMMA CanonicalOfCycle == ASSUME NEW c \in ElementaryCycles PROVE Canonical(c) = c
<1>1. /\ Len(c) \in 2..N /\ c \in [1..Len(c) -> Task] /\ c \in Seq(Task)
      /\ \A i, j \in 1..Len(c) : i # j => c[i] # c[j]
      /\ \A i \in 1..Len(c) : c[1] <= c[i]
  BY CycleIs
<1> DEFINE k == Len(c)
<1>2. k \in Nat \ {0} /\ \A i \in 1..k : c[i] \in Nat
  BY <1>1, NAssumption DEF Task
<1>3. PICK low \in 1..k :
         /\ \A j \in 1..k : c[low] <= c[j]
         /\ Canonical(c) \in [1..k -> Task]
         /\ \A i \in 1..(k - low + 1) : Canonical(c)[i] = c[low + i - 1]
  BY <1>1, <1>2, CanonicalIs
<1>4. c[low] = c[1]
  <2>1. 1 \in 1..k /\ c[low] <= c[1] /\ c[1] <= c[low] /\ c[low] \in Nat /\ c[1] \in Nat
    BY <1>1, <1>2, <1>3
  <2> QED BY <2>1
<1>5. low = 1
  BY <1>1, <1>2, <1>4
<1>6. \A i \in 1..k : Canonical(c)[i] = c[i]
  BY <1>2, <1>3, <1>5
<1> QED BY <1>1, <1>3, <1>6

\* The canonical rotation of a closed path of dependencies is an elementary cycle.
LEMMA RotationIsCycle ==
    ASSUME NEW k \in Nat, k >= 2, NEW c \in [1..k -> Task],
           \A i, j \in 1..k : i # j => c[i] # c[j],
           \A i \in 1..(k - 1) : c[i + 1] \in Deps(c[i]),
           c[1] \in Deps(c[k])
    PROVE  /\ Canonical(c) \in ElementaryCycles
           /\ \E i \in DOMAIN Canonical(c) : Canonical(c)[i] = c[k]
<1> DEFINE r == Canonical(c)
<1>1. PICK low \in 1..k :
         /\ \A j \in 1..k : c[low] <= c[j]
         /\ r \in [1..k -> Task]
         /\ \A i \in 1..(k - low + 1) : r[i] = c[low + i - 1]
         /\ \A i \in (k - low + 2)..k : r[i] = c[i - (k - low + 1)]
  <2>1. k \in Nat \ {0}
    OBVIOUS
  <2> QED BY <2>1, CanonicalIs, Zenon
<1> DEFINE From(i) == IF i <= k - low + 1 THEN low + i - 1 ELSE i - (k - low + 1)
<1>2. \A i \in 1..k : From(i) \in 1..k /\ r[i] = c[From(i)]
  <2> TAKE i \in 1..k
  <2>1. i \in 1..(k - low + 1) \/ i \in (k - low + 2)..k
    OBVIOUS
  <2> QED BY <1>1, <2>1
<1>3. \A i, j \in 1..k : i # j => From(i) # From(j)
  OBVIOUS
<1>4. \A i \in 1..(k - 1) : From(i + 1) = IF From(i) = k THEN 1 ELSE From(i) + 1
  OBVIOUS
<1>5. From(1) = low /\ From(k) = IF low = 1 THEN k ELSE low - 1
  OBVIOUS
<1> HIDE DEF r, From
<1>6. \A i, j \in 1..k : i # j => r[i] # r[j]
  BY <1>2, <1>3
<1>7. \A i \in 1..k : r[1] <= r[i]
  BY <1>1, <1>2, <1>5
<1>8. ASSUME NEW i \in 1..(k - 1) PROVE r[i + 1] \in Deps(r[i])
  <2>1. /\ i \in 1..k /\ i + 1 \in 1..k
        /\ r[i] = c[From(i)] /\ r[i + 1] = c[From(i + 1)] /\ From(i) \in 1..k
    BY <1>2
  <2>2. CASE From(i) = k
    BY <1>4, <2>1, <2>2
  <2>3. CASE From(i) # k
    <3>1. From(i) \in 1..(k - 1) /\ From(i + 1) = From(i) + 1
      BY <1>4, <2>1, <2>3
    <3> QED BY <2>1, <3>1
  <2> QED BY <2>2, <2>3
<1>9. r[1] \in Deps(r[k])
  <2>1. r[1] = c[low] /\ r[k] = c[From(k)]
    BY <1>2, <1>5
  <2>2. CASE low = 1
    BY <1>5, <2>1, <2>2
  <2>3. CASE low # 1
    <3>1. low - 1 \in 1..(k - 1) /\ From(k) = low - 1 /\ (low - 1) + 1 = low
      BY <1>5, <2>3
    <3> QED BY <2>1, <3>1
  <2> QED BY <2>2, <2>3
<1>10. r \in ElementaryCycles
  BY <1>1, <1>6, <1>7, <1>8, <1>9, CycleFrom
<1>11. k - low + 1 \in DOMAIN r /\ r[k - low + 1] = c[k]
  <2>1. k - low + 1 \in 1..k /\ k - low + 1 \in 1..(k - low + 1)
        /\ low + (k - low + 1) - 1 = k
    OBVIOUS
  <2>2. DOMAIN r = 1..k
    BY <1>1
  <2>3. r[k - low + 1] = c[low + (k - low + 1) - 1]
    BY <1>1, <2>1
  <2> QED BY <2>1, <2>2, <2>3
<1> QED BY <1>10, <1>11 DEF r

\* The open calls from the one for a task on which is asked for again are a closed path.
LEMMA CycleThroughIs ==
    ASSUME SearchInv, NEW d \in Visiting, Len(stack) >= 1, d # stack[Len(stack)].task
    PROVE  \E s \in 1..(Len(stack) - 1) :
              /\ stack[s].task = d
              /\ CycleThrough(d) = [i \in 1..(Len(stack) - s + 1) |-> stack[s + i - 1].task]
<1> DEFINE n == Len(stack)
           s == CHOOSE i \in DOMAIN stack : stack[i].task = d
<1>1. n \in Nat /\ DOMAIN stack = 1..n /\ \E i \in 1..n : stack[i].task = d
  BY VisitingIs DEF SearchInv
<1>2. s \in 1..n /\ stack[s].task = d
  BY <1>1
<1>3. CycleThrough(d) = [i \in 1..(n - s + 1) |-> stack[s + i - 1].task]
  BY DEF CycleThrough
<1> HIDE DEF s
<1>4. s \in 1..(n - 1)
  BY <1>1, <1>2
<1> QED BY <1>2, <1>3, <1>4

LEMMA ReportedIsReal ==
    ASSUME SearchInv, NEW d \in Visiting, Len(stack) >= 1, d # stack[Len(stack)].task,
           d \in stack[Len(stack)].todo
    PROVE  /\ Canonical(CycleThrough(d)) \in ElementaryCycles
           /\ stack[Len(stack)].task \in Range(Canonical(CycleThrough(d)))
<1> DEFINE n == Len(stack)
<1>1. SearchTypes /\ StackIsPath /\ FramesAreHonest
  BY DEF SearchInv
<1>2. PICK s \in 1..(n - 1) :
         /\ stack[s].task = d
         /\ CycleThrough(d) = [i \in 1..(n - s + 1) |-> stack[s + i - 1].task]
  BY CycleThroughIs
<1> DEFINE k == n - s + 1
           c == [i \in 1..k |-> stack[s + i - 1].task]
<1>3. n \in Nat /\ \A i \in 1..n : stack[i].task \in Task
  BY <1>1, VisitingIs
<1>4. k \in Nat /\ k >= 2 /\ \A i \in 1..k : s + i - 1 \in 1..n
  BY <1>3
<1>5. c \in [1..k -> Task] /\ \A i \in 1..k : c[i] = stack[s + i - 1].task
  BY <1>3, <1>4
<1> HIDE DEF c
<1>6. \A i, j \in 1..k : i # j => c[i] # c[j]
  <2> TAKE i, j \in 1..k
  <2> HAVE i # j
  <2>1. s + i - 1 \in 1..n /\ s + j - 1 \in 1..n /\ s + i - 1 # s + j - 1
    BY <1>4
  <2> QED BY <1>1, <1>5, <2>1 DEF StackIsPath
<1>7. \A i \in 1..(k - 1) : c[i + 1] \in Deps(c[i])
  <2> TAKE i \in 1..(k - 1)
  <2>1. i \in 1..k /\ i + 1 \in 1..k /\ s + i - 1 \in 1..(n - 1)
        /\ s + (i + 1) - 1 = (s + i - 1) + 1
    BY <1>3, <1>4
  <2>2. stack[(s + i - 1) + 1].task \in Deps(stack[s + i - 1].task)
    BY <1>1, <2>1 DEF StackIsPath
  <2> QED BY <1>5, <2>1, <2>2
<1>8. c[1] \in Deps(c[k])
  <2>1. c[1] = d /\ c[k] = stack[n].task
    <3>1. 1 \in 1..k /\ k \in 1..k /\ s + 1 - 1 = s /\ s + k - 1 = n
      BY <1>3, <1>4
    <3> QED BY <1>2, <1>5, <3>1
  <2>2. stack[n].todo \subseteq Deps(stack[n].task)
    BY <1>1, <1>3 DEF FramesAreHonest
  <2> QED BY <2>1, <2>2
<1>9. CycleThrough(d) = c
  BY <1>2 DEF c
<1>10. c[k] = stack[n].task
  <2>1. k \in 1..k /\ s + k - 1 = n
    BY <1>3, <1>4
  <2> QED BY <1>5, <2>1
<1> HIDE DEF k
<1>11. /\ Canonical(c) \in ElementaryCycles
       /\ \E i \in DOMAIN Canonical(c) : Canonical(c)[i] = c[k]
  BY <1>4, <1>5, <1>6, <1>7, <1>8, RotationIsCycle
<1> QED BY <1>9, <1>10, <1>11 DEF Range

\* The stack follows cycle c up to position m, and what comes on top is not on the cycle.
AlongCycle(c, m) ==
    /\ m <= Len(stack) /\ \A i \in 1..m : stack[i].task = c[i]
    /\ ~(m < Len(c) /\ m < Len(stack) /\ stack[m + 1].task = c[m + 1])

CyclesAreReal == cycles \subseteq ElementaryCycles

\* A cycle not yet reported starts at the root or later; where the search from its root has
\* left it, the call still has the next task of the cycle before it.
CyclesArePursued ==
    \A c \in ElementaryCycles \ cycles :
        /\ c[1] >= root
        /\ c[1] = root =>
              \A m \in 1..Len(c) : AlongCycle(c, m) => After(c, m) \in stack[m].todo

\* The search loses no cycle and invents none.
CycleInv == SearchInv /\ CyclesAreReal /\ CyclesArePursued

LEMMA CycleInit == GraphInit => CycleInv
<1> SUFFICES ASSUME GraphInit PROVE CycleInv
  OBVIOUS
<1>1. SearchInv
  BY SearchInit
<1>2. stack = <<>> /\ Len(stack) = 0 /\ root = 1 /\ cycles = {}
  BY EmptySeq DEF GraphInit
<1>3. ASSUME NEW c \in ElementaryCycles PROVE c[1] >= 1
  BY CycleIs, NAssumption DEF Task
<1>4. CyclesArePursued
  BY <1>2, <1>3 DEF CyclesArePursued, AlongCycle
<1> QED BY <1>1, <1>2, <1>4 DEF CycleInv, CyclesAreReal

\* The step that would lose a cycle reports it.
LEMMA VisitPursues ==
    ASSUME CycleInv, NEW d \in 0..N, Visit(d), NEW c \in ElementaryCycles, c \notin cycles',
           c[1] = root, NEW m \in 1..Len(c), m <= Len(stack'),
           \A i \in 1..m : stack'[i].task = c[i],
           ~(m < Len(c) /\ m < Len(stack') /\ stack'[m + 1].task = c[m + 1])
    PROVE  After(c, m) \in stack'[m].todo
<1> DEFINE n == Len(stack)
<1>1. SearchInv /\ SearchTypes /\ StackIsPath /\ CyclesArePursued
  BY DEF CycleInv, SearchInv
<1>2. /\ Len(c) \in 2..N /\ c \in [1..Len(c) -> Task]
      /\ \A i, j \in 1..Len(c) : i # j => c[i] # c[j]
      /\ After(c, m) \in Deps(c[m]) /\ After(c, m) # c[m] /\ After(c, m) \in Task
  BY CycleIs
<1>3. /\ n \in Nat \ {0} /\ d \in stack[n].todo
      /\ \A i \in 1..(n - 1) : stack'[i] = stack[i]
      /\ stack'[n].task = stack[n].task /\ stack'[n].todo = stack[n].todo \ {d}
      /\ \/ /\ d \notin Task \/ d = stack[n].task
            /\ Len(stack') = n /\ cycles' = cycles
         \/ /\ d \in Task /\ d # stack[n].task /\ computed[d] # 0
            /\ Len(stack') = n /\ cycles' = cycles
         \/ /\ d \in Visiting \ {stack[n].task} /\ computed[d] = 0
            /\ Len(stack') = n
            /\ cycles' = cycles \cup {Canonical(CycleThrough(d))}
         \/ /\ d \in Task \ Visiting /\ computed[d] = 0 /\ cycles' = cycles
            /\ Len(stack') = n + 1 /\ stack'[n + 1] = Open(d)
  BY <1>1, VisitSteps
<1>4. \A i \in 1..n : stack'[i].task = stack[i].task
  BY <1>3
<1>5. c \notin cycles
  BY <1>3
<1>6. \A j \in 1..Len(c) : AlongCycle(c, j) => After(c, j) \in stack[j].todo
  BY <1>1, <1>5 DEF CyclesArePursued
<1>7. CASE m <= n - 1
  <2>1. m \in 1..(n - 1) /\ m + 1 \in 1..n
    BY <1>2, <1>3, <1>7
  <2>2. AlongCycle(c, m)
    BY <1>3, <1>4, <2>1 DEF AlongCycle
  <2> QED BY <1>3, <1>6, <2>1, <2>2
<1>8. CASE m = n
  <2> Len(c) \in Nat /\ n \in Nat /\ n >= 1 /\ n <= Len(c)
    BY <1>2, <1>3, <1>8
  <2>1. \A i \in 1..n : stack[i].task = c[i]
    BY <1>4, <1>8
  <2>2. After(c, n) \in stack[n].todo
    BY <1>3, <1>6, <1>8, <2>1 DEF AlongCycle
  <2>3. SUFFICES ASSUME d = After(c, n) PROVE FALSE
    BY <1>3, <1>8, <2>2
  <2>4. d \in Task /\ d # stack[n].task /\ n \in 1..n
    BY <1>2, <1>3, <1>8, <2>1, <2>3
  <2>5. computed[d] = 0
    <3>1. PICK k \in 1..Len(c) : c[k] = d
      <4>1. n = Len(c) => 1 \in 1..Len(c)
        BY <1>2
      <4>2. n # Len(c) => n + 1 \in 1..Len(c)
        OBVIOUS
      <4> QED BY <2>3, <4>1, <4>2 DEF After
    <3> QED BY <1>1, <3>1, CyclesHaveNoStage
  <2>6. d \in Visiting <=> \E i \in 1..n : stack[i].task = d
    BY <1>1, VisitingIs
  <2>7. CASE n # Len(c)
    <3>1. n + 1 \in 1..Len(c) /\ n < Len(c) /\ d = c[n + 1]
      BY <2>3, <2>7 DEF After
    <3>2. \A i \in 1..n : i \in 1..Len(c) /\ i # n + 1
      OBVIOUS
    <3>3. d \notin Visiting
      BY <1>2, <2>1, <2>6, <3>1, <3>2
    <3>4. Len(stack') = n + 1 /\ stack'[n + 1] = Open(d)
      BY <1>3, <2>4, <2>5, <3>3
    <3>5. stack'[n + 1].task = d
      BY <1>1, <2>4, <3>4, OpenFrame
    <3> QED BY <1>3, <1>8, <3>1, <3>4, <3>5
  <2>8. CASE n = Len(c)
    <3>1. d = c[1] /\ 1 \in 1..n /\ stack[1].task = d
      BY <2>1, <2>3, <2>8 DEF After
    <3>2. d \in Visiting /\ d # stack[n].task
      BY <2>4, <2>6, <3>1
    <3>3. cycles' = cycles \cup {Canonical(CycleThrough(d))}
      BY <1>3, <2>4, <2>5, <3>2
    <3>4. PICK s \in 1..(n - 1) :
             /\ stack[s].task = d
             /\ CycleThrough(d) = [i \in 1..(n - s + 1) |-> stack[s + i - 1].task]
      BY <1>1, <3>2, CycleThroughIs, Zenon
    <3>5. s = 1
      <4>1. s \in 1..n
        BY <1>3
      <4> QED BY <1>1, <3>1, <3>4, <4>1 DEF StackIsPath
    <3>6. n - s + 1 = n /\ \A i \in 1..n : s + i - 1 = i
      BY <1>3, <3>5
    <3>7. CycleThrough(d) = [i \in 1..n |-> stack[i].task]
      BY <3>4, <3>6
    <3>8. CycleThrough(d) = c
      <4>1. c = [i \in 1..n |-> c[i]]
        BY <1>2, <2>8
      <4> QED BY <2>1, <3>7, <4>1
    <3> QED BY <3>3, <3>8, CanonicalOfCycle
  <2> QED BY <2>7, <2>8
<1>9. CASE m = n + 1
  <2>1. Len(stack') = n + 1 /\ d \in Task /\ stack'[n + 1] = Open(d)
    BY <1>3, <1>9
  <2>2. stack'[m].task = d /\ stack'[m].todo = Deps(d)
    BY <1>1, <1>9, <2>1, OpenFrame
  <2> QED BY <1>2, <2>2
<1>10. m <= n - 1 \/ m = n \/ m = n + 1
  BY <1>2, <1>3
<1> QED BY <1>7, <1>8, <1>9, <1>10

\* A call that ends has turned to all its dependencies, so it ends no pursuit of a cycle.
LEMMA ReturnPursues ==
    ASSUME CycleInv, Return, NEW c \in ElementaryCycles, c \notin cycles
    PROVE  /\ c[1] >= root'
           /\ c[1] = root' =>
                 \A m \in 1..Len(c) :
                    /\ m <= Len(stack')
                    /\ \A i \in 1..m : stack'[i].task = c[i]
                    /\ ~(m < Len(c) /\ m < Len(stack') /\ stack'[m + 1].task = c[m + 1])
                    => After(c, m) \in stack'[m].todo
<1> DEFINE n == Len(stack)
<1>1. SearchInv /\ SearchTypes /\ StackIsPath /\ CyclesArePursued
  BY DEF CycleInv, SearchInv
<1>2. Len(c) \in 2..N /\ c \in [1..Len(c) -> Task]
  BY CycleIs
<1>3. /\ n \in Nat \ {0} /\ Len(stack') = n - 1 /\ stack[n].todo = {}
      /\ \A i \in 1..(n - 1) : stack'[i].task = stack[i].task /\ stack'[i].todo = stack[i].todo
      /\ root' = IF n = 1 THEN root + 1 ELSE root
  BY <1>1, ReturnSteps
<1>4. /\ c[1] >= root
      /\ c[1] = root => \A j \in 1..Len(c) : AlongCycle(c, j) => After(c, j) \in stack[j].todo
  BY <1>1 DEF CyclesArePursued
<1>5. Len(c) \in Nat /\ Len(c) >= 2 /\ root \in Nat /\ c[1] \in Nat
  BY <1>1, <1>2, NAssumption DEF SearchTypes, Task
<1>6. ASSUME c[1] = root, n <= Len(c), \A i \in 1..n : stack[i].task = c[i]
      PROVE  FALSE
  <2>1. n \in 1..Len(c) /\ n <= Len(stack) /\ ~(n < Len(stack))
    BY <1>3, <1>5, <1>6
  <2>2. AlongCycle(c, n)
    BY <1>6, <2>1 DEF AlongCycle
  <2> QED BY <1>3, <1>4, <1>6, <2>1, <2>2
<1>7. CASE n = 1
  <2>1. stack[1].task = root
    BY <1>1, <1>3, EmptySeq DEF StackIsPath
  <2>2. c[1] # root
    BY <1>5, <1>6, <1>7, <2>1
  <2>3. c[1] >= root' /\ \A m \in 1..Len(c) : ~(m <= Len(stack'))
    BY <1>3, <1>4, <1>5, <1>7, <2>2
  <2> QED BY <2>3
<1>8. CASE n # 1
  <2>1. root' = root
    BY <1>3, <1>8
  <2> SUFFICES ASSUME c[1] = root, NEW m \in 1..Len(c), m <= n - 1,
                      \A i \in 1..m : stack'[i].task = c[i],
                      ~(m < Len(c) /\ m < n - 1 /\ stack'[m + 1].task = c[m + 1])
               PROVE  After(c, m) \in stack'[m].todo
    BY <1>3, <1>4, <2>1
  <2>2. m \in 1..(n - 1)
    BY <1>3, <1>5
  <2>3. \A i \in 1..m : stack[i].task = c[i]
    BY <1>3, <1>5, <2>2
  <2>4. ~(m < Len(c) /\ m < n /\ stack[m + 1].task = c[m + 1])
    <3>1. CASE m < n - 1
      <4>1. m + 1 \in 1..(n - 1)
        BY <1>3, <1>5, <3>1
      <4> QED BY <1>3, <3>1, <4>1
    <3>2. CASE m = n - 1
      <4> SUFFICES ASSUME m < Len(c), stack[n].task = c[n] PROVE FALSE
        BY <1>3, <3>2
      <4>1. n <= Len(c) /\ \A i \in 1..n : i \in 1..m \/ i = n
        BY <1>3, <1>5, <3>2
      <4>2. \A i \in 1..n : stack[i].task = c[i]
        BY <2>3, <4>1
      <4> QED BY <1>6, <4>1, <4>2
    <3> QED BY <1>3, <2>2, <3>1, <3>2
  <2>5. AlongCycle(c, m)
    BY <1>3, <1>5, <2>2, <2>3, <2>4 DEF AlongCycle
  <2> QED BY <1>3, <1>4, <2>2, <2>5
<1> QED BY <1>7, <1>8

LEMMA CycleStep == CycleInv /\ [GraphNext]_graphVars => CycleInv'
<1> SUFFICES ASSUME CycleInv, [GraphNext]_graphVars PROVE CycleInv'
  OBVIOUS
<1>1. SearchInv /\ SearchTypes /\ CyclesAreReal /\ CyclesArePursued
  BY DEF CycleInv, SearchInv
<1>2. SearchInv'
  BY <1>1, SearchStep
<1>3. plan' = plan
  BY DEF graphVars, GraphNext, NextRoot, Visit, Return, Judge
<1>4. ElementaryCycles' = ElementaryCycles
  BY <1>3 DEF ElementaryCycles, Deps
<1> HIDE DEF ElementaryCycles
<1> DEFINE Pursued(c) ==
             /\ c[1] >= root'
             /\ c[1] = root' =>
                   \A m \in 1..Len(c) :
                      /\ m <= Len(stack')
                      /\ \A i \in 1..m : stack'[i].task = c[i]
                      /\ ~(m < Len(c) /\ m < Len(stack') /\ stack'[m + 1].task = c[m + 1])
                      => After(c, m) \in stack'[m].todo
           Kept == /\ cycles' \subseteq ElementaryCycles
                   /\ \A c \in ElementaryCycles \ cycles' : Pursued(c)
<1>5. SUFFICES Kept
  BY <1>2, <1>4 DEF CycleInv, CyclesAreReal, CyclesArePursued, AlongCycle, After
<1>6. CASE UNCHANGED <<root, stack, cycles>>
  BY <1>1, <1>6 DEF CyclesAreReal, CyclesArePursued, AlongCycle
<1>7. CASE NextRoot
  <2>1. cycles' = cycles
    BY <1>7 DEF NextRoot
  <2>2. /\ stack = <<>> /\ root \in Task
        /\ \/ computed[root] # 0 /\ root' = root + 1 /\ stack' = <<>>
           \/ /\ computed[root] = 0 /\ root' = root /\ Len(stack') = 1
              /\ stack' \in Seq(Frame) /\ stack'[1] = Open(root)
    BY <1>1, <1>7, RootSteps
  <2> SUFFICES ASSUME NEW c \in ElementaryCycles \ cycles
               PROVE  /\ c[1] >= root'
                      /\ c[1] = root' =>
                           \A m \in 1..Len(c) : m <= Len(stack') => After(c, m) \in stack'[m].todo
    BY <1>1, <2>1 DEF CyclesAreReal
  <2>3. c[1] >= root /\ c[1] \in Nat /\ root \in Nat /\ 1 \in 1..Len(c) /\ Len(c) \in Nat
    BY <1>1, <2>2, CycleIs, NAssumption DEF CyclesArePursued, Task
  <2>4. computed[c[1]] = 0 /\ After(c, 1) \in Deps(c[1])
    BY <1>1, <2>3, CyclesHaveNoStage, CycleIs
  <2>5. CASE computed[root] # 0
    BY <2>2, <2>3, <2>4, <2>5, EmptySeq
  <2>6. CASE computed[root] = 0
    <3>1. stack'[1].todo = Deps(root)
      BY <1>1, <2>2, <2>6, OpenFrame
    <3>2. \A m \in 1..Len(c) : m <= 1 => m = 1
      BY <2>3
    <3> QED BY <2>2, <2>3, <2>4, <2>6, <3>1, <3>2
  <2> QED BY <2>5, <2>6
<1>8. ASSUME NEW d \in 0..N, Visit(d) PROVE Kept
  <2>1. root' = root
    BY <1>8 DEF Visit
  <2>2. cycles \subseteq cycles' /\ cycles' \subseteq ElementaryCycles
    <3> DEFINE n == Len(stack)
    <3>1. /\ n \in Nat \ {0} /\ d \in stack[n].todo
          /\ \/ cycles' = cycles
             \/ /\ d \in Visiting \ {stack[n].task}
                /\ cycles' = cycles \cup {Canonical(CycleThrough(d))}
      BY <1>1, <1>8, VisitSteps
    <3>2. CASE cycles' = cycles
      BY <1>1, <3>2 DEF CyclesAreReal
    <3>3. CASE /\ d \in Visiting \ {stack[n].task}
               /\ cycles' = cycles \cup {Canonical(CycleThrough(d))}
      <4>1. Canonical(CycleThrough(d)) \in ElementaryCycles
        BY <1>1, <3>1, <3>3, ReportedIsReal
      <4> QED BY <1>1, <3>3, <4>1 DEF CyclesAreReal
    <3> QED BY <3>1, <3>2, <3>3
  <2>3. ASSUME NEW c \in ElementaryCycles \ cycles' PROVE c[1] >= root'
    BY <1>1, <2>1, <2>2 DEF CyclesArePursued
  <2> QED BY <1>8, <2>1, <2>2, <2>3, VisitPursues
<1>9. CASE Return
  <2>1. cycles' = cycles
    BY <1>9 DEF Return
  <2> QED BY <1>1, <1>9, <2>1, ReturnPursues DEF CyclesAreReal
<1>10. CASE Judge \/ UNCHANGED graphVars
  BY <1>6, <1>10 DEF Judge, graphVars
<1> QED BY <1>7, <1>8, <1>9, <1>10 DEF GraphNext

\* When the main loop is past the last task no pursuit is left: every cycle has been reported.
LEMMA AllCyclesFound == ASSUME CycleInv, root = N + 1 PROVE cycles = ElementaryCycles
<1>1. ASSUME NEW c \in ElementaryCycles \ cycles PROVE FALSE
  <2>1. c[1] >= N + 1
    BY <1>1 DEF CycleInv, CyclesArePursued
  <2>2. c[1] \in 1..N
    BY CycleIs, NAssumption DEF Task
  <2> QED BY <2>1, <2>2, NAssumption
<1> QED BY <1>1 DEF CycleInv, CyclesAreReal

-----------------------------------------------------------------------------
(* The stages are the lengths of the longest chains.                       *)

LEMMA ChainIs ==
    ASSUME NEW c \in Chains
    PROVE  /\ Len(c) \in 1..N /\ c \in [1..Len(c) -> Task]
           /\ \A i, j \in 1..Len(c) : i # j => c[i] # c[j]
           /\ \A i \in 1..(Len(c) - 1) : c[i] \in Deps(c[i + 1])
<1>1. PICK k \in 1..N : c \in [1..k -> Task]
  BY DEF Chains
<1>2. k \in Nat
  BY NAssumption
<1>3. Len(c) = k /\ DOMAIN c = 1..k
  BY <1>1, <1>2, FunctionIsSeq
<1> QED BY <1>1, <1>3 DEF Chains

LEMMA ChainFrom ==
    ASSUME NEW k \in Nat, k >= 1, NEW c \in [1..k -> Task],
           \A i, j \in 1..k : i # j => c[i] # c[j],
           \A i \in 1..(k - 1) : c[i] \in Deps(c[i + 1])
    PROVE  c \in Chains /\ Len(c) = k
<1>1. k \in 1..N
  BY AtMostN, NAssumption
<1>2. Len(c) = k /\ DOMAIN c = 1..k
  BY FunctionIsSeq
<1>3. c \in UNION {[1..j -> Task] : j \in 1..N}
  BY <1>1
<1> QED BY <1>2, <1>3 DEF Chains

\* A task needs itself.
LEMMA NeedsItself == ASSUME NEW t \in Task PROVE t \in Needs(t)
<1> DEFINE c == [i \in 1..1 |-> t]
<1>1. c \in [1..1 -> Task] /\ c[1] = t
  OBVIOUS
<1>2. /\ \A i, j \in 1..1 : i # j => c[i] # c[j]
      /\ \A i \in 1..(1 - 1) : c[i] \in Deps(c[i + 1])
  OBVIOUS
<1> HIDE DEF c
<1>3. 1 \in Nat /\ 1 >= 1
  OBVIOUS
<1>4. c \in Chains /\ Len(c) = 1
  BY <1>1, <1>2, <1>3, ChainFrom, Zenon
<1> QED BY <1>1, <1>4 DEF Needs

\* A task needs what its dependencies need: the chain goes on to it, or has passed it before.
LEMMA NeedsBelow ==
    ASSUME NEW t \in Task, NEW d \in Deps(t), NEW u \in Needs(d)
    PROVE  u \in Needs(t)
<1>1. PICK c \in Chains : c[Len(c)] = d /\ c[1] = u
  BY DEF Needs
<1> DEFINE k == Len(c)
<1>2. /\ k \in 1..N /\ c \in [1..k -> Task]
      /\ \A i, j \in 1..k : i # j => c[i] # c[j]
      /\ \A i \in 1..(k - 1) : c[i] \in Deps(c[i + 1])
  BY ChainIs
<1>3. k \in Nat /\ k >= 1
  BY <1>2, NAssumption
<1> HIDE DEF k
<1>4. CASE \E j \in 1..k : c[j] = t
  <2>1. PICK j \in 1..k : c[j] = t
    BY <1>4
  <2> DEFINE e == [i \in 1..j |-> c[i]]
  <2>2. j \in Nat /\ j >= 1 /\ \A i \in 1..j : i \in 1..k
    BY <1>3
  <2>3. e \in [1..j -> Task] /\ \A i \in 1..j : e[i] = c[i]
    BY <1>2, <2>2
  <2> HIDE DEF e
  <2>4. \A i, l \in 1..j : i # l => e[i] # e[l]
    BY <1>2, <2>2, <2>3
  <2>5. \A i \in 1..(j - 1) : e[i] \in Deps(e[i + 1])
    <3> TAKE i \in 1..(j - 1)
    <3>1. i \in 1..j /\ i + 1 \in 1..j /\ i \in 1..(k - 1)
      BY <1>3, <2>2
    <3> QED BY <1>2, <2>3, <3>1
  <2>6. e \in Chains /\ Len(e) = j
    BY <2>2, <2>3, <2>4, <2>5, ChainFrom
  <2>7. e[1] = u /\ e[Len(e)] = t
    BY <1>1, <2>1, <2>2, <2>3, <2>6
  <2> QED BY <2>6, <2>7 DEF Needs
<1>5. CASE \A j \in 1..k : c[j] # t
  <2> DEFINE e == [i \in 1..(k + 1) |-> IF i = k + 1 THEN t ELSE c[i]]
  <2>1. /\ e \in [1..(k + 1) -> Task] /\ e[k + 1] = t
        /\ \A i \in 1..k : e[i] = c[i]
    <3>1. \A i \in 1..(k + 1) : i = k + 1 \/ i \in 1..k
      BY <1>3
    <3>2. \A i \in 1..(k + 1) : e[i] \in Task
      BY <1>2, <3>1
    <3>3. k + 1 \in 1..(k + 1) /\ \A i \in 1..k : i \in 1..(k + 1) /\ i # k + 1
      BY <1>3
    <3> QED BY <3>2, <3>3
  <2> HIDE DEF e
  <2>2. \A i, j \in 1..(k + 1) : i # j => e[i] # e[j]
    <3> TAKE i, j \in 1..(k + 1)
    <3> HAVE i # j
    <3>1. (i \in 1..k \/ i = k + 1) /\ (j \in 1..k \/ j = k + 1)
      BY <1>3
    <3> QED BY <1>2, <1>5, <2>1, <3>1
  <2>3. \A i \in 1..k : e[i] \in Deps(e[i + 1])
    <3> TAKE i \in 1..k
    <3>1. CASE i = k
      BY <1>1, <2>1, <3>1 DEF k
    <3>2. CASE i # k
      <4>1. i \in 1..(k - 1) /\ i + 1 \in 1..k
        BY <1>3, <3>2
      <4> QED BY <1>2, <2>1, <4>1
    <3> QED BY <3>1, <3>2
  <2>4. k + 1 \in Nat /\ k + 1 >= 1 /\ (k + 1) - 1 = k
    BY <1>3
  <2>5. e \in Chains /\ Len(e) = k + 1
    BY <2>1, <2>2, <2>3, <2>4, ChainFrom
  <2>6. e[1] = u /\ e[Len(e)] = t
    BY <1>1, <1>3, <2>1, <2>5
  <2> QED BY <2>5, <2>6 DEF Needs
<1> QED BY <1>4, <1>5

\* What a task needs before it can have a stage, its dependencies need too.
LEMMA StageableBelow ==
    ASSUME NEW t \in Task, Stageable(t), NEW d \in Deps(t)
    PROVE  d \in Task \ {t} /\ Stageable(d)
<1>1. t \in Needs(t)
  BY NeedsItself
<1>2. \A u \in Needs(d) : u \in Needs(t)
  BY NeedsBelow
<1> QED BY <1>1, <1>2 DEF Stageable

\* A task on a cycle, or with a dependency that is none, has no stage.
LEMMA NotStageable ==
    ASSUME NEW t \in Task,
           \/ \E d \in Deps(t) : d \notin Task \ {t}
           \/ \E c \in ElementaryCycles : t \in Range(c)
    PROVE  ~Stageable(t)
BY NeedsItself DEF Stageable

\* On a chain to a task that has a stage all have one, each above its position.
LEMMA ChainHasStages ==
    ASSUME SearchInv, NEW c \in Chains, computed[c[Len(c)]] # 0, NEW i \in 1..Len(c)
    PROVE  computed[c[i]] # 0 /\ computed[c[i]] \in Nat /\ i <= computed[c[i]]
<1> DEFINE k == Len(c)
<1>1. /\ k \in 1..N /\ c \in [1..k -> Task]
      /\ \A j \in 1..(k - 1) : c[j] \in Deps(c[j + 1])
  BY ChainIs
<1>2. k \in Nat /\ k >= 1
  BY <1>1, NAssumption
<1>3. PICK b \in Nat : computed \in [Task -> 0..b]
  BY DEF SearchInv, SearchTypes
<1>4. \A j \in 1..k : c[j] \in Task /\ computed[c[j]] \in Nat
  BY <1>1, <1>3
<1>5. ASSUME NEW j \in 1..(k - 1), computed[c[j + 1]] # 0
      PROVE  computed[c[j]] # 0 /\ computed[c[j]] < computed[c[j + 1]]
  <2>1. c[j + 1] \in Task /\ c[j] \in Deps(c[j + 1])
    BY <1>1, <1>2, <1>4
  <2> QED BY <1>5, <2>1, StageExceeds
<1>6. \A j \in 1..k : computed[c[j]] # 0
  <2> SUFFICES ASSUME NEW j \in 1..k, computed[c[j]] = 0 PROVE FALSE
    OBVIOUS
  <2> DEFINE S == {k - l : l \in {x \in 1..k : computed[c[x]] = 0}}
  <2>1. S \in SUBSET Nat /\ S # {}
    BY <1>2
  <2>2. PICK l \in 1..k : computed[c[l]] = 0 /\ \A m \in S : k - l <= m
    <3>1. PICK m \in S : \A e \in S : m <= e
      BY <2>1, LeastNatural
    <3> QED BY <3>1
  <2>3. l \in 1..(k - 1) /\ l + 1 \in 1..k
    BY <1>2, <2>2 DEF k
  <2>4. k - (l + 1) \notin S
    <3>1. ~(k - l <= k - (l + 1))
      BY <1>2
    <3> HIDE DEF S
    <3> QED BY <2>2, <3>1
  <2>5. computed[c[l + 1]] # 0
    BY <2>3, <2>4
  <2> QED BY <1>5, <2>2, <2>3, <2>5
<1>7. \A j \in 1..k : j <= computed[c[j]]
  <2> SUFFICES ASSUME NEW j \in 1..k, ~(j <= computed[c[j]]) PROVE FALSE
    OBVIOUS
  <2> DEFINE S == {x \in 1..k : ~(x <= computed[c[x]])}
  <2>1. S \in SUBSET Nat /\ S # {}
    BY <1>2
  <2>2. PICK l \in S : \A m \in S : l <= m
    BY <2>1, LeastNatural
  <2>3. l \in 1..k /\ computed[c[l]] \in Nat /\ computed[c[l]] < l /\ computed[c[l]] # 0
    BY <1>2, <1>4, <1>6
  <2>4. l - 1 \in 1..(k - 1) /\ l - 1 \in 1..k /\ (l - 1) + 1 = l
    BY <1>2, <2>3
  <2>5. computed[c[l - 1]] < computed[c[l]]
    BY <1>5, <2>3, <2>4
  <2>6. l - 1 \in S
    BY <1>4, <2>3, <2>4, <2>5
  <2> HIDE DEF S
  <2>7. l <= l - 1
    BY <2>2, <2>6
  <2> QED BY <1>2, <2>3, <2>7
<1> QED BY <1>4, <1>6, <1>7

\* A chain to t on which each task's stage is its position.
StagedChain(t, c) ==
    c \in Chains /\ c[Len(c)] = t /\ \A i \in 1..Len(c) : computed[c[i]] = i

\* A task with a stage ends such a chain: the greatest of its dependencies does.
LEMMA StagedChainExists ==
    ASSUME SearchInv, NEW t \in Task, computed[t] # 0
    PROVE  \E c : StagedChain(t, c)
<1> SUFFICES ASSUME ~\E c : StagedChain(t, c) PROVE FALSE
  OBVIOUS
<1>1. PICK b \in Nat : computed \in [Task -> 0..b]
  BY DEF SearchInv, SearchTypes
<1> DEFINE Without == {u \in Task : computed[u] # 0 /\ ~\E c : StagedChain(u, c)}
           S == {computed[u] : u \in Without}
<1>2. S \in SUBSET Nat /\ S # {}
  BY <1>1
<1>3. PICK u \in Without : \A x \in Without : computed[u] <= computed[x]
  <2>1. PICK m \in S : \A e \in S : m <= e
    BY <1>2, LeastNatural
  <2> QED BY <2>1
<1>4. /\ u \in Task /\ computed[u] # 0 /\ computed[u] \in Nat
      /\ ~\E c : StagedChain(u, c)
  BY <1>1
<1>5. \A d \in Task : computed[d] # 0 /\ computed[d] < computed[u] => \E c : StagedChain(d, c)
  <2> SUFFICES ASSUME NEW d \in Task, computed[d] # 0, computed[d] < computed[u],
                      ~\E c : StagedChain(d, c)
               PROVE  FALSE
    OBVIOUS
  <2>1. computed[d] \in Nat /\ computed[u] <= computed[d]
    BY <1>1, <1>3
  <2> QED BY <1>4, <2>1
<1> HIDE DEF Without, S
<1> DEFINE M == {0} \cup {computed[d] : d \in Deps(u)}
           m == MaxOf(M)
<1>6. Deps(u) \subseteq Task \ {u} /\ computed[u] = 1 + m
  BY <1>4 DEF SearchInv, StagesFollow
<1>7. m \in M
  <2>1. M \in SUBSET Nat /\ M # {} /\ \A x \in M : x <= b
    BY <1>1, <1>6
  <2> HIDE DEF M
  <2> QED BY <2>1, MaxIs
<1> HIDE DEF m
<1>8. CASE m = 0
  <2> DEFINE c == [i \in 1..1 |-> u]
  <2>1. c \in [1..1 -> Task] /\ c[1] = u
    BY <1>4
  <2>2. /\ \A i, j \in 1..1 : i # j => c[i] # c[j]
        /\ \A i \in 1..(1 - 1) : c[i] \in Deps(c[i + 1])
        /\ 1 \in Nat /\ 1 >= 1
    OBVIOUS
  <2> HIDE DEF c
  <2>3. c \in Chains /\ Len(c) = 1
    BY <2>1, <2>2, ChainFrom, Zenon
  <2>4. \A i \in 1..Len(c) : i = 1
    BY <2>3
  <2>5. computed[u] = 1
    BY <1>6, <1>8
  <2>6. StagedChain(u, c)
    BY <2>1, <2>3, <2>4, <2>5 DEF StagedChain
  <2> QED BY <1>4, <2>6
<1>9. CASE \E d \in Deps(u) : m = computed[d] /\ m # 0
  <2>1. PICK d \in Deps(u) : m = computed[d] /\ m # 0
    BY <1>9
  <2>2. d \in Task /\ computed[d] \in Nat /\ computed[u] = computed[d] + 1
    BY <1>1, <1>6, <2>1
  <2>3. PICK c : StagedChain(d, c)
    BY <1>5, <2>1, <2>2
  <2> DEFINE k == Len(c)
             e == [i \in 1..(k + 1) |-> IF i = k + 1 THEN u ELSE c[i]]
  <2>4. /\ k \in 1..N /\ c \in [1..k -> Task] /\ c[k] = d
        /\ \A i \in 1..(k - 1) : c[i] \in Deps(c[i + 1])
        /\ \A i \in 1..k : computed[c[i]] = i
    BY <2>3, ChainIs DEF StagedChain
  <2> HIDE DEF k
  <2>5. k \in Nat /\ k >= 1 /\ computed[u] = k + 1
    <3>1. k \in Nat /\ k >= 1
      BY <2>4, NAssumption
    <3>2. computed[d] = k
      BY <2>4, <3>1
    <3> QED BY <2>2, <3>1, <3>2
  <2>6. /\ e \in [1..(k + 1) -> Task] /\ e[k + 1] = u
        /\ \A i \in 1..k : e[i] = c[i]
    <3>1. \A i \in 1..(k + 1) : i = k + 1 \/ i \in 1..k
      BY <2>5
    <3>2. \A i \in 1..(k + 1) : e[i] \in Task
      BY <1>4, <2>4, <3>1
    <3>3. k + 1 \in 1..(k + 1) /\ \A i \in 1..k : i \in 1..(k + 1) /\ i # k + 1
      BY <2>5
    <3> QED BY <3>2, <3>3
  <2> HIDE DEF e
  <2>7. \A i \in 1..(k + 1) : computed[e[i]] = i
    <3> TAKE i \in 1..(k + 1)
    <3>1. i = k + 1 \/ i \in 1..k
      BY <2>5
    <3> QED BY <2>4, <2>5, <2>6, <3>1
  <2>8. \A i, j \in 1..(k + 1) : i # j => e[i] # e[j]
    BY <2>7
  <2>9. \A i \in 1..((k + 1) - 1) : e[i] \in Deps(e[i + 1])
    <3> TAKE i \in 1..((k + 1) - 1)
    <3>1. i \in 1..k
      BY <2>5
    <3>2. CASE i = k
      BY <2>1, <2>4, <2>6, <3>1, <3>2
    <3>3. CASE i # k
      <4>1. i \in 1..(k - 1) /\ i + 1 \in 1..k
        BY <2>5, <3>1, <3>3
      <4> QED BY <2>4, <2>6, <3>1, <4>1
    <3> QED BY <3>2, <3>3
  <2>10. k + 1 \in Nat /\ k + 1 >= 1
    BY <2>5
  <2>11. e \in Chains /\ Len(e) = k + 1
    BY <2>6, <2>8, <2>9, <2>10, ChainFrom, Zenon
  <2>12. StagedChain(u, e)
    BY <2>6, <2>7, <2>11 DEF StagedChain
  <2> QED BY <1>4, <2>12
<1> QED BY <1>7, <1>8, <1>9

\* A task that has a stage has what it needs.
LEMMA StagedIsStageable ==
    ASSUME SearchInv, NEW t \in Task, computed[t] # 0
    PROVE  Stageable(t)
<1> SUFFICES ASSUME NEW u \in Needs(t)
             PROVE  /\ Deps(u) \subseteq Task \ {u}
                    /\ ~\E c \in ElementaryCycles : u \in Range(c)
  BY DEF Stageable
<1>1. PICK c \in Chains : c[Len(c)] = t /\ c[1] = u
  BY DEF Needs
<1>2. 1 \in 1..Len(c) /\ c[1] \in Task
  <2>1. Len(c) \in 1..N /\ c \in [1..Len(c) -> Task]
    BY ChainIs
  <2>2. 1 \in 1..Len(c)
    BY <2>1, NAssumption
  <2> QED BY <2>1, <2>2
<1>3. computed[u] # 0
  BY <1>1, <1>2, ChainHasStages
<1>4. Deps(u) \subseteq Task \ {u}
  BY <1>1, <1>2, <1>3 DEF SearchInv, StagesFollow
<1>5. ASSUME NEW e \in ElementaryCycles, u \in Range(e) PROVE FALSE
  <2>1. DOMAIN e = 1..Len(e)
    BY CycleIs
  <2>2. PICK i \in 1..Len(e) : u = e[i]
    BY <1>5, <2>1 DEF Range
  <2> QED BY <1>3, <2>2, CyclesHaveNoStage
<1> QED BY <1>4, <1>5

\* Its stage is the length of the longest chain that ends in it.
LEMMA StageIsLongest ==
    ASSUME SearchInv, NEW t \in Task, computed[t] # 0
    PROVE  /\ computed[t] = MaxOf({Len(c) : c \in {x \in Chains : x[Len(x)] = t}})
           /\ computed[t] \in 1..N
<1> DEFINE S == {Len(c) : c \in {x \in Chains : x[Len(x)] = t}}
<1>1. \A c \in Chains : Len(c) \in 1..N /\ Len(c) \in Nat /\ Len(c) \in 1..Len(c)
  <2> TAKE c \in Chains
  <2>1. Len(c) \in 1..N
    BY ChainIs
  <2> QED BY <2>1, NAssumption
<1>2. S \in SUBSET Nat
  BY <1>1
<1>3. \A s \in S : s <= computed[t]
  <2> TAKE s \in S
  <2>1. PICK c \in Chains : c[Len(c)] = t /\ s = Len(c)
    OBVIOUS
  <2> QED BY <1>1, <2>1, ChainHasStages
<1>4. computed[t] \in S /\ computed[t] \in 1..N
  <2>1. PICK c : StagedChain(t, c)
    BY StagedChainExists
  <2>2. c \in Chains /\ c[Len(c)] = t /\ computed[t] = Len(c)
    BY <1>1, <2>1 DEF StagedChain
  <2> QED BY <1>1, <2>2
<1> HIDE DEF S
<1>5. MaxOf(S) = computed[t]
  BY <1>2, <1>3, <1>4, MaxIsMember
<1> QED BY <1>4, <1>5 DEF S

\* A call forgets a dependency only for a stage or because its task can have none, and so does
\* the main loop.
MissingIsJustified ==
    /\ \A t \in Task : t < root => computed[t] # 0 \/ ~Stageable(t)
    /\ \A i \in 1..Len(stack) :
          \A d \in Deps(stack[i].task) \ (stack[i].todo \cup stack[i].found) :
             \/ i < Len(stack) /\ d = stack[i + 1].task
             \/ ~Stageable(stack[i].task)

\* The invariant of the search.
GraphInv == CycleInv /\ MissingIsJustified

LEMMA GraphInvInit == GraphInit => GraphInv
<1> SUFFICES ASSUME GraphInit PROVE GraphInv
  OBVIOUS
<1>1. Len(stack) = 0 /\ root = 1
  BY EmptySeq DEF GraphInit
<1>2. \A t \in Task : ~(t < root)
  BY <1>1, NAssumption DEF Task
<1>3. MissingIsJustified
  BY <1>1, <1>2 DEF MissingIsJustified
<1> QED BY <1>3, CycleInit DEF GraphInv

\* A dependency that gives no stage shows that the innermost call's task can have none.
LEMMA VisitJustifies ==
    ASSUME GraphInv, NEW d \in 0..N, Visit(d), NEW i \in 1..Len(stack'),
           NEW e \in Deps(stack'[i].task) \ (stack'[i].todo \cup stack'[i].found)
    PROVE  \/ i < Len(stack') /\ e = stack'[i + 1].task
           \/ ~Stageable(stack'[i].task)
<1> DEFINE n == Len(stack)
<1>1. SearchInv /\ SearchTypes /\ StackIsPath
      /\ \A j \in 1..n :
            \A x \in Deps(stack[j].task) \ (stack[j].todo \cup stack[j].found) :
               \/ j < n /\ x = stack[j + 1].task
               \/ ~Stageable(stack[j].task)
  BY DEF GraphInv, CycleInv, SearchInv, MissingIsJustified
<1>2. /\ n \in Nat \ {0} /\ d \in stack[n].todo
      /\ \A j \in 1..(n - 1) : stack'[j] = stack[j]
      /\ stack'[n].task = stack[n].task /\ stack'[n].todo = stack[n].todo \ {d}
      /\ \/ /\ d \notin Task \/ d = stack[n].task
            /\ Len(stack') = n
            /\ stack'[n].found = stack[n].found
         \/ /\ Len(stack') = n
            /\ stack'[n].found = stack[n].found \cup {d}
         \/ /\ d \in Visiting \ {stack[n].task}
            /\ Len(stack') = n
            /\ stack'[n].found = stack[n].found
         \/ /\ Len(stack') = n + 1 /\ d \in Task
            /\ stack'[n].found = stack[n].found
            /\ stack'[n + 1] = Open(d)
  BY <1>1, VisitSteps
<1>3. n \in 1..n /\ \A j \in 1..n : stack[j].task \in Task
  BY <1>1, <1>2, VisitingIs
<1>4. d \in Deps(stack[n].task)
  BY <1>1, <1>2, <1>3 DEF SearchInv, FramesAreHonest
<1>5. CASE i \in 1..(n - 1)
  <2>1. stack'[i] = stack[i] /\ i \in 1..n /\ i < n /\ i < Len(stack')
    BY <1>2, <1>5
  <2>2. stack'[i + 1].task = stack[i + 1].task
    <3>1. i + 1 = n \/ i + 1 \in 1..(n - 1)
      BY <1>2, <1>5
    <3> QED BY <1>2, <3>1
  <2> QED BY <1>1, <2>1, <2>2
<1>6. CASE i = n /\ e # d
  <2>1. e \in Deps(stack[n].task) \ (stack[n].todo \cup stack[n].found)
    BY <1>2, <1>6
  <2>2. ~(n < n)
    BY <1>2
  <2> QED BY <1>1, <1>2, <1>3, <1>6, <2>1, <2>2
<1>7. CASE i = n /\ e = d
  <2>1. d \notin stack'[n].found
    BY <1>7
  <2>2. CASE d \notin Task \/ d = stack[n].task
    BY <1>2, <1>3, <1>4, <1>7, <2>2, NotStageable
  <2>3. CASE d \in Visiting \ {stack[n].task}
    <3>1. n >= 1
      BY <1>2
    <3>2. /\ Canonical(CycleThrough(d)) \in ElementaryCycles
          /\ stack[n].task \in Range(Canonical(CycleThrough(d)))
      BY <1>1, <1>2, <2>3, <3>1, ReportedIsReal
    <3> QED BY <1>2, <1>3, <1>7, <3>2, NotStageable
  <2>4. CASE Len(stack') = n + 1 /\ d \in Task /\ stack'[n + 1] = Open(d)
    <3>1. stack'[n + 1].task = d
      BY <1>1, <2>4, OpenFrame
    <3> QED BY <1>2, <1>7, <2>4, <3>1
  <2> QED BY <1>2, <2>1, <2>2, <2>3, <2>4
<1>8. CASE i = n + 1
  <2>1. d \in Task /\ stack'[n + 1] = Open(d)
    BY <1>2, <1>8
  <2> QED BY <1>1, <1>8, <2>1, OpenFrame
<1> QED BY <1>2, <1>5, <1>6, <1>7, <1>8

\* A call that gives no stage lacks one of a dependency, and passes that on.
LEMMA ReturnJustifies ==
    ASSUME GraphInv, Return
    PROVE  /\ \A t \in Task : t < root' => computed'[t] # 0 \/ ~Stageable(t)
           /\ \A i \in 1..Len(stack') :
                 \A d \in Deps(stack'[i].task) \ (stack'[i].todo \cup stack'[i].found) :
                    \/ i < Len(stack') /\ d = stack'[i + 1].task
                    \/ ~Stageable(stack'[i].task)
<1> DEFINE n == Len(stack)
           t == stack[n].task
           known == stack[n].found = Deps(t)
<1>1. /\ SearchInv /\ SearchTypes /\ StackIsPath /\ FramesAreHonest
      /\ \A j \in 1..n :
            \A x \in Deps(stack[j].task) \ (stack[j].todo \cup stack[j].found) :
               \/ j < n /\ x = stack[j + 1].task
               \/ ~Stageable(stack[j].task)
      /\ \A u \in Task : u < root => computed[u] # 0 \/ ~Stageable(u)
  BY DEF GraphInv, CycleInv, SearchInv, MissingIsJustified
<1>2. /\ n \in Nat \ {0} /\ Len(stack') = n - 1
      /\ stack[n].todo = {}
      /\ computed' = IF known
                     THEN [computed EXCEPT ![t] =
                             1 + MaxOf({0} \cup {computed[d] : d \in stack[n].found})]
                     ELSE computed
      /\ \A i \in 1..(n - 1) : stack'[i].task = stack[i].task /\ stack'[i].todo = stack[i].todo
      /\ \A i \in 1..(n - 2) : stack'[i].found = stack[i].found
      /\ n > 1 => stack'[n - 1].found = IF known THEN stack[n - 1].found \cup {t}
                                        ELSE stack[n - 1].found
      /\ root' = IF n = 1 THEN root + 1 ELSE root
  BY <1>1, ReturnSteps
<1>3. n \in 1..n /\ t \in Task /\ stack[n].found \subseteq Task
  BY <1>1, <1>2, VisitingIs DEF Frame
<1>4. PICK b \in Nat : computed \in [Task -> 0..b]
  BY <1>1 DEF SearchTypes
<1> DEFINE top == MaxOf({0} \cup {computed[d] : d \in stack[n].found})
<1>5. top \in 0..b
  BY <1>3, <1>4, StageOf
<1> HIDE DEF top
<1>6. /\ \A u \in Task \ {t} : computed'[u] = computed[u]
      /\ known => computed'[t] # 0
  <2>1. computed' = IF known THEN [computed EXCEPT ![t] = 1 + top] ELSE computed
    BY <1>2 DEF top
  <2> QED BY <1>3, <1>4, <1>5, <2>1
<1>7. ~known => ~Stageable(t)
  <2> SUFFICES ASSUME ~known PROVE ~Stageable(t)
    OBVIOUS
  <2>1. stack[n].found \subseteq Deps(t)
    BY <1>1, <1>3 DEF FramesAreHonest
  <2>2. PICK x \in Deps(t) : x \notin stack[n].found
    BY <2>1
  <2>3. ~(n < n)
    BY <1>2
  <2> QED BY <1>1, <1>2, <1>3, <2>2, <2>3
<1>8. ASSUME NEW u \in Task, u < root' PROVE computed'[u] # 0 \/ ~Stageable(u)
  <2>1. CASE u = t
    BY <1>6, <1>7, <2>1
  <2>2. CASE u # t
    <3>1. n = 1 => t = root
      BY <1>1, <1>2, EmptySeq DEF StackIsPath
    <3>2. u < root
      <4>1. u \in Nat /\ root \in Nat
        BY <1>1, NAssumption DEF SearchTypes, Task
      <4> QED BY <1>2, <1>8, <2>2, <3>1, <4>1
    <3> QED BY <1>1, <1>6, <2>2, <3>2
  <2> QED BY <2>1, <2>2
<1>9. ASSUME NEW i \in 1..(n - 1),
             NEW d \in Deps(stack'[i].task) \ (stack'[i].todo \cup stack'[i].found)
      PROVE  (i < n - 1 /\ d = stack'[i + 1].task) \/ ~Stageable(stack'[i].task)
  <2>1. i \in 1..n /\ stack'[i].task = stack[i].task /\ stack'[i].todo = stack[i].todo
        /\ stack[i].task \in Task /\ (i \in 1..(n - 2) \/ i = n - 1)
    BY <1>1, <1>2, VisitingIs
  <2>2. stack[i].found \subseteq stack'[i].found
    BY <1>2, <2>1
  <2>3. (i < n /\ d = stack[i + 1].task) \/ ~Stageable(stack[i].task)
    BY <1>1, <2>1, <2>2
  <2>4. CASE i \in 1..(n - 2)
    <3>1. i < n - 1 /\ i + 1 \in 1..(n - 1)
      BY <1>2, <2>4
    <3> QED BY <1>2, <2>1, <2>3, <3>1
  <2>5. CASE i = n - 1
    <3> SUFFICES ASSUME d = t PROVE ~Stageable(stack[i].task)
      BY <1>2, <2>1, <2>3, <2>5
    <3>1. ~known
      BY <1>2, <1>9, <2>5
    <3>2. t \in Deps(stack[i].task)
      BY <2>1
    <3> QED BY <1>7, <2>1, <3>1, <3>2, StageableBelow
  <2> QED BY <2>1, <2>4, <2>5
<1> QED BY <1>2, <1>8, <1>9

LEMMA GraphInvStep == GraphInv /\ [GraphNext]_graphVars => GraphInv'
<1> SUFFICES ASSUME GraphInv, [GraphNext]_graphVars PROVE GraphInv'
  OBVIOUS
<1>1. CycleInv' /\ SearchInv /\ SearchTypes
  BY CycleStep DEF GraphInv, CycleInv, SearchInv
<1>2. plan' = plan
  BY DEF graphVars, GraphNext, NextRoot, Visit, Return, Judge
<1>3. \A t : Stageable(t)' = Stageable(t)
  BY <1>2 DEF Stageable, Needs, Chains, ElementaryCycles, Deps
<1> DEFINE Justified ==
             /\ \A t \in Task : t < root' => computed'[t] # 0 \/ ~Stageable(t)
             /\ \A i \in 1..Len(stack') :
                   \A d \in Deps(stack'[i].task) \ (stack'[i].todo \cup stack'[i].found) :
                      \/ i < Len(stack') /\ d = stack'[i + 1].task
                      \/ ~Stageable(stack'[i].task)
<1>4. SUFFICES Justified
  BY <1>1, <1>2, <1>3 DEF GraphInv, MissingIsJustified, Deps
<1> HIDE DEF Stageable
<1>5. CASE UNCHANGED <<root, stack, computed>>
  BY <1>5 DEF GraphInv, MissingIsJustified
<1>6. CASE NextRoot
  <2>1. /\ stack = <<>> /\ root \in Task /\ computed' = computed
        /\ \/ computed[root] # 0 /\ root' = root + 1 /\ Len(stack') = 0
           \/ /\ root' = root /\ Len(stack') = 1
              /\ stack'[1].task = root /\ stack'[1].todo = Deps(root)
    BY <1>1, <1>6, RootSteps, OpenFrame, EmptySeq DEF NextRoot
  <2>2. \A t \in Task : t < root' => computed'[t] # 0 \/ ~Stageable(t)
    <3> SUFFICES ASSUME NEW t \in Task, t < root' PROVE t < root \/ (t = root /\ computed[root] # 0)
      BY <2>1 DEF GraphInv, MissingIsJustified
    <3> QED BY <2>1, NAssumption DEF Task
  <2>3. ASSUME NEW i \in 1..Len(stack'),
               NEW d \in Deps(stack'[i].task) \ (stack'[i].todo \cup stack'[i].found)
        PROVE  FALSE
    <3>1. Len(stack') = 1 /\ i = 1
      BY <2>1, <2>3
    <3> QED BY <2>1, <2>3, <3>1
  <2> QED BY <2>2, <2>3
<1>7. ASSUME NEW d \in 0..N, Visit(d) PROVE Justified
  <2>1. root' = root /\ computed' = computed
    BY <1>7 DEF Visit
  <2>2. \A t \in Task : t < root' => computed'[t] # 0 \/ ~Stageable(t)
    BY <2>1 DEF GraphInv, MissingIsJustified
  <2> QED BY <1>7, <2>2, VisitJustifies
<1>8. CASE Return
  BY <1>8, ReturnJustifies
<1>9. CASE Judge \/ UNCHANGED graphVars
  BY <1>5, <1>9 DEF Judge, graphVars
<1> QED BY <1>6, <1>7, <1>8, <1>9 DEF GraphNext

LEMMA SearchedFindsStages == GraphInv => StagesAreLongestChains
<1> SUFFICES ASSUME GraphInv, Searched, NEW t \in Task
             PROVE  computed[t] = IF Stageable(t)
                                  THEN MaxOf({Len(c) : c \in {x \in Chains : x[Len(x)] = t}})
                                  ELSE 0
  BY DEF StagesAreLongestChains
<1>1. SearchInv /\ t < root
  BY NAssumption DEF GraphInv, CycleInv, Searched, Task
<1>2. CASE computed[t] # 0
  BY <1>1, <1>2, StagedIsStageable, StageIsLongest
<1>3. CASE computed[t] = 0
  BY <1>1, <1>3 DEF GraphInv, MissingIsJustified
<1> QED BY <1>2, <1>3

\* No stage exceeds the number of tasks, and only sequences of tasks are reported.
LEMMA GraphTypes == GraphInv => GraphTypeOK
<1> SUFFICES ASSUME GraphInv PROVE GraphTypeOK
  OBVIOUS
<1>1. SearchInv /\ SearchTypes
  BY DEF GraphInv, CycleInv, SearchInv
<1>2. PICK b \in Nat : computed \in [Task -> 0..b]
  BY <1>1 DEF SearchTypes
<1>3. computed \in [Task -> 0..N]
  <2> SUFFICES ASSUME NEW t \in Task PROVE computed[t] \in 0..N
    BY <1>2
  <2>1. computed[t] # 0 => computed[t] \in 1..N
    BY <1>1, StageIsLongest
  <2> QED BY <2>1, NAssumption
<1>4. cycles \subseteq Seq(Task)
  BY CycleIs DEF GraphInv, CycleInv, CyclesAreReal
<1> QED BY <1>1, <1>3, <1>4 DEF GraphTypeOK, SearchTypes

------------------------------------------------------------------------------
(* The controller and the watcher. *)

Text == [boxes : SUBSET Task, colours : [Task -> Colour] \cup {<<>>}]

ExecTypes ==
    /\ watching \in BOOLEAN
    /\ boxes \in SUBSET Task /\ colours \in [Task -> Colour]
    /\ ledger \in [Task -> Outcome]
    /\ sidecar \in Text /\ text \in Text
    /\ running \in SUBSET Task /\ verified \in SUBSET Task
    /\ failures \in 0..MaxFailures
    /\ pc \in {"judge", "refused", "emit", "render", "inject", "check", "answer", "dispatch",
               "wave", "complete"}
    /\ watcher \in [at : {"idle", "fetched", "read"}, status : [Task -> Colour], text : Text]

\* The controller starts only on an accepted list, and the verdict stays what it was.
Judged ==
    /\ pc = "judge" <=> verdict = "open"
    /\ pc = "refused" <=> verdict = "refused"
    /\ verdict = "accepted" => root = N + 1 /\ Accepted

\* Whoever holds a copy of the task list holds boxes of verified tasks only.
BoxesAreEarned ==
    /\ boxes \subseteq verified /\ text.boxes \subseteq verified
    /\ sidecar.boxes \subseteq verified /\ watcher.text.boxes \subseteq verified

\* The controller dispatches when no worker is at it and the text it read has work left.
DispatchHasWork == pc = "dispatch" => text.boxes # Task /\ running = {}

\* Without the watcher the boxes are the verified tasks, wherever a copy is about to be used,
\* the ledger tells the same of each task, and the colours follow from both.
FilesAgree ==
    ~watching =>
        /\ watcher.at = "idle"
        /\ boxes = verified
        /\ pc \in {"inject", "answer", "dispatch"} => text.boxes = verified
        /\ pc \in {"render", "inject"} => sidecar.boxes = verified
        /\ \A t \in Task : /\ ledger[t] = "active" <=> t \in running
                           /\ ledger[t] = "verified" <=> t \in verified
        /\ pc \in {"check", "answer", "dispatch", "wave", "complete"} =>
              \A t \in Task : colours[t] = StatusOf(t, verified)

\* The invariant of the search and of all that is done with its result.
ExecInv ==
    /\ GraphInv /\ ExecTypes /\ Judged /\ BoxesAreEarned /\ DispatchHasWork
    /\ WavesAreSafe /\ FilesAgree

-----------------------------------------------------------------------------
(* What acceptance says of the list.                                       *)

LEMMA AcceptedList ==
    ASSUME GraphInv, root = N + 1, Accepted, NEW t \in Task
    PROVE  /\ plan[t] \in Block /\ plan[t].stage # 0 /\ computed[t] # 0
           /\ plan[t].stage = computed[t] /\ computed[t] \in Nat
           /\ \A d \in Deps(t) :
                 /\ d \in Task \ {t} /\ computed[d] < computed[t]
                 /\ ~plan[t].optional => ~plan[d].optional
<1>1. SearchInv /\ CycleInv /\ plan \in [Task -> Block]
  BY DEF GraphInv, CycleInv, SearchInv, SearchTypes
<1>2. \A u \in Task : \A d \in Deps(u) :
         d \in Task \ {u} /\ (~plan[u].optional => ~plan[d].optional)
  <2>1. \A u \in Task : \A d \in Deps(u) : ~BadReference(u, d)
    BY DEF Accepted, BadReferences
  <2> QED BY <2>1, <1>1 DEF BadReference, Block
<1>3. \A u \in Task : plan[u].stage # 0
  BY DEF Accepted, BadFields
<1>4. Stageable(t)
  <2> SUFFICES ASSUME NEW u \in Needs(t)
               PROVE  /\ Deps(u) \subseteq Task \ {u}
                      /\ ~\E c \in ElementaryCycles : u \in Range(c)
    BY DEF Stageable
  <2>1. ElementaryCycles = {}
    BY <1>1, AllCyclesFound DEF Accepted
  <2>2. PICK c \in Chains : c[1] = u
    BY DEF Needs
  <2>3. u \in Task
    <3>1. Len(c) \in 1..N /\ c \in [1..Len(c) -> Task]
      BY ChainIs
    <3>2. 1 \in 1..Len(c)
      BY <3>1, NAssumption
    <3> QED BY <2>2, <3>1, <3>2
  <2> QED BY <1>2, <2>1, <2>3
<1>5. computed[t] # 0
  <2>1. t < root
    BY NAssumption DEF Task
  <2> QED BY <1>4, <2>1 DEF GraphInv, MissingIsJustified
<1>6. computed[t] \in Nat /\ \A d \in Deps(t) : computed[d] < computed[t]
  <2>1. \A d \in Deps(t) : computed[d] < computed[t]
    BY <1>1, <1>5, StageExceeds
  <2>2. computed[t] \in 1..N
    BY <1>1, <1>5, StageIsLongest
  <2> QED BY <2>1, <2>2, NAssumption
<1>7. plan[t].stage = computed[t]
  BY <1>3, <1>5 DEF Accepted, WrongStages
<1> QED BY <1>1, <1>2, <1>3, <1>5, <1>6, <1>7

\* While work is left, a task of the least stage of those that count is ready: what it
\* depends on has a lower stage, and counts as well if it is not done.
LEMMA ReadyExists ==
    ASSUME GraphInv, root = N + 1, Accepted, NEW b \in SUBSET Task, b # Task
    PROVE  Ready(b) # {}
<1> DEFINE P == StageSource(b)
           S == {plan[t].stage : t \in P}
<1>1. P \subseteq Task \ b /\ P # {}
  BY DEF StageSource, Required
<1>2. S \in SUBSET Nat /\ S # {}
  <2>1. \A t \in P : plan[t].stage \in Nat
    BY <1>1, AcceptedList
  <2> QED BY <1>1, <2>1
<1>3. PICK s \in S : \A x \in S : s <= x
  BY <1>2, LeastNatural
<1>4. ActiveStage(b) \in S /\ \A t \in P : ActiveStage(b) <= plan[t].stage
  <2>1. \E x \in S : \A t \in P : x <= plan[t].stage
    BY <1>3
  <2> HIDE DEF P
  <2> QED BY <2>1 DEF ActiveStage, P
<1>5. PICK t \in P : ActiveStage(b) = plan[t].stage
  BY <1>4
<1>6. t \in ActivePool(b)
  BY <1>1, <1>5 DEF ActivePool
<1>7. ASSUME NEW d \in Deps(t), d \notin b PROVE FALSE
  <2>1. /\ t \in Task /\ d \in Task \ {t} /\ computed[d] < computed[t]
        /\ (~plan[t].optional => ~plan[d].optional)
        /\ plan[t].stage = computed[t] /\ computed[t] \in Nat
    BY <1>1, AcceptedList
  <2>2. plan[d].stage = computed[d] /\ computed[d] \in Nat
    BY <2>1, AcceptedList
  <2>3. d \in P
    BY <1>1, <1>7, <2>1 DEF StageSource, Required
  <2>4. plan[t].stage <= plan[d].stage
    BY <1>4, <1>5, <2>3
  <2> QED BY <2>1, <2>2, <2>4
<1> QED BY <1>6, <1>7 DEF Ready

\* The first wave is ready, not done, and of one stage; two of it at once are parallel.
LEMMA FirstWaveIs ==
    ASSUME GraphInv, root = N + 1, Accepted, NEW b \in SUBSET Task, b # Task
    PROVE  /\ FirstWave(b) \subseteq Ready(b) /\ Ready(b) \subseteq Task \ b
           /\ \A t \in Ready(b) : Deps(t) \subseteq b /\ plan[t].stage = ActiveStage(b)
           /\ \A t, u \in FirstWave(b) : t # u => plan[t].parallel /\ plan[u].parallel
<1>1. Ready(b) \subseteq Task \ b
      /\ \A t \in Ready(b) : Deps(t) \subseteq b /\ plan[t].stage = ActiveStage(b)
  BY DEF Ready, ActivePool
<1>2. FirstWave(b) \subseteq Ready(b)
  BY DEF FirstWave
<1>3. ASSUME NEW t \in FirstWave(b), NEW u \in FirstWave(b), t # u
      PROVE  plan[t].parallel /\ plan[u].parallel
  <2>1. CASE {x \in Ready(b) : plan[x].parallel} # {}
    BY <2>1 DEF FirstWave
  <2>2. CASE {x \in Ready(b) : plan[x].parallel} = {}
    <3>1. t <= u /\ u <= t
      BY <1>2, <2>2 DEF FirstWave
    <3>2. t \in Nat /\ u \in Nat
      BY <1>1, <1>2, NAssumption DEF Task
    <3> QED BY <1>3, <3>1, <3>2
  <2> QED BY <2>1, <2>2
<1> QED BY <1>1, <1>2, <1>3

\* Tasks that run at once neither depend on each other nor own overlapping paths.
LEMMA WaveIsSafe ==
    ASSUME GraphInv, root = N + 1, Accepted, NEW b \in SUBSET Task, b # Task,
           NEW t \in FirstWave(b), NEW u \in FirstWave(b), t # u
    PROVE  /\ t \notin Deps(u)
           /\ \A p \in plan[t].files, q \in plan[u].files : ~OwnedPathsOverlap(p, q)
<1>1. /\ t \in Task /\ u \in Task /\ plan[t].stage = plan[u].stage
      /\ plan[t].parallel /\ plan[u].parallel
  BY FirstWaveIs
<1>2. t \notin Deps(u)
  <2> SUFFICES ASSUME t \in Deps(u) PROVE FALSE
    OBVIOUS
  <2>1. /\ computed[t] < computed[u] /\ plan[u].stage = computed[u] /\ computed[u] \in Nat
        /\ plan[t].stage = computed[t] /\ computed[t] \in Nat
    BY <1>1, AcceptedList
  <2> QED BY <1>1, <2>1
<1>3. plan[t].stage # 0 /\ u \in ParallelIn(plan[t].stage) \ {t}
  BY <1>1, AcceptedList DEF ParallelIn
<1> QED BY <1>1, <1>2, <1>3 DEF Accepted, Collisions

-----------------------------------------------------------------------------
(* The controller, its workers and the watcher.                            *)

\* Once the list is accepted nothing but the files and the workers' state changes.
NoGraph == UNCHANGED graphVars /\ UNCHANGED watching

LEMMA StepIsOneOf ==
    ASSUME [Next]_vars
    PROVE  \/ Graph \/ (UNCHANGED vars /\ NoGraph)
           \/ NoGraph /\ \/ Check("emit", "render") \/ RenderRead \/ RenderWrite
                         \/ Check("check", "answer") \/ Answer \/ Dispatch
                         \/ \E t \in Task : Verify(t) \/ Fail(t)
                         \/ Fetch \/ ReadForUpdate \/ Replace
<1>1. UNCHANGED vars => NoGraph
  BY DEF vars, NoGraph, graphVars
<1>2. Check("emit", "render") \/ Check("check", "answer") => NoGraph
  BY DEF Check, NoGraph
<1>3. RenderRead \/ RenderWrite \/ Answer \/ Dispatch => NoGraph
  BY DEF RenderRead, RenderWrite, Answer, Dispatch, NoGraph
<1>4. \A t \in Task : Verify(t) \/ Fail(t) => NoGraph
  BY DEF Verify, Fail, NoGraph
<1>5. Fetch \/ ReadForUpdate \/ Replace => NoGraph
  BY DEF Fetch, ReadForUpdate, Replace, WatcherOnly, NoGraph
<1> QED BY <1>1, <1>2, <1>3, <1>4, <1>5 DEF Next, Controller, Watcher

LEMMA GraphOfStep == [Next]_vars => [GraphNext]_graphVars
BY StepIsOneOf DEF NoGraph, Graph

LEMMA ExecInit == Init => ExecInv
<1> SUFFICES ASSUME Init PROVE ExecInv
  OBVIOUS
<1>1. GraphInit /\ GraphInv /\ verdict = "open"
  BY GraphInvInit DEF Init, GraphInit
<1>2. Plain \in [Task -> Colour] /\ None \in Text /\ None.boxes = {}
  BY DEF Plain, Colour, None, Text
<1>3. ExecTypes
  BY <1>2, FailuresAssumption DEF Init, ExecTypes, Outcome
<1>4. Judged /\ BoxesAreEarned /\ DispatchHasWork
  BY <1>1, <1>2 DEF Init, Judged, BoxesAreEarned, DispatchHasWork
<1>5. WavesAreSafe
  BY DEF Init, WavesAreSafe
<1>6. FilesAgree
  BY DEF Init, FilesAgree
<1> QED BY <1>1, <1>3, <1>4, <1>5, <1>6 DEF ExecInv

\* The statuses the diagram is drawn from are colours.
LEMMA StatusesAreColours ==
    ASSUME ExecTypes
    PROVE  \A t \in Task : \A b : StatusOf(t, b) \in Colour /\ OrcaStatus(t) \in Colour
<1> SUFFICES ASSUME NEW t \in Task, NEW b
             PROVE  StatusOf(t, b) \in Colour /\ OrcaStatus(t) \in Colour
  OBVIOUS
<1>1. ledger[t] \in {"none", "active", "failed", "verified"}
  BY DEF ExecTypes, Outcome
<1>2. StatusOf(t, b) \in Colour
  BY <1>1 DEF StatusOf, Colour
<1>3. OrcaStatus(t) \in Colour
  BY <1>1 DEF OrcaStatus, Colour
<1> QED BY <1>2, <1>3

LEMMA JudgedStep ==
    ASSUME ExecInv, [Next]_vars
    PROVE  Judged' /\ (verdict = "accepted" => verdict' = "accepted")
<1>1. Judged /\ SearchTypes /\ (Graph \/ NoGraph)
  BY StepIsOneOf DEF ExecInv, GraphInv, CycleInv, SearchInv
<1>2. CASE Graph
  <2>1. verdict = "open" /\ pc = "judge" /\ GraphNext
    BY <1>2 DEF Graph
  <2>2. /\ verdict' = "accepted" => pc' = "emit"
        /\ verdict' = "refused" => pc' = "refused"
        /\ verdict' = "open" => pc' = "judge"
    BY <1>2 DEF Graph
  <2>3. CASE verdict' = verdict
    BY <2>1, <2>2, <2>3 DEF Judged
  <2>4. CASE Judge
    <3>1. /\ root' = root /\ computed' = computed /\ cycles' = cycles /\ plan' = plan
          /\ root = N + 1
          /\ verdict' = IF Accepted THEN "accepted" ELSE "refused"
      BY <2>4 DEF Judge, Searched
    <3>2. Accepted' = Accepted
      BY <3>1 DEF Accepted, BadFields, BadReferences, BadReference, Globs, Collisions,
                  ParallelIn, WrongStages, Unordered, Deps
    <3> QED BY <2>1, <2>2, <3>1, <3>2 DEF Judged
  <2>5. verdict' = verdict \/ Judge
    BY <2>1 DEF GraphNext, NextRoot, Visit, Return
  <2> QED BY <2>3, <2>4, <2>5
<1>3. CASE NoGraph
  <2>1. /\ root' = root /\ computed' = computed /\ cycles' = cycles /\ plan' = plan
        /\ verdict' = verdict
    BY <1>3 DEF NoGraph, graphVars
  <2>2. Accepted' = Accepted
    BY <2>1 DEF Accepted, BadFields, BadReferences, BadReference, Globs, Collisions,
                ParallelIn, WrongStages, Unordered, Deps
  <2>3. /\ pc' = "judge" <=> pc = "judge"
        /\ pc' = "refused" <=> pc = "refused"
    <3>1. CASE UNCHANGED vars
      BY <3>1 DEF vars
    <3>2. CASE Check("emit", "render") \/ Check("check", "answer")
      BY <3>2 DEF Check
    <3>3. CASE RenderRead \/ RenderWrite \/ Answer \/ Dispatch
      BY <3>3 DEF RenderRead, RenderWrite, Answer, Dispatch
    <3>4. CASE \E t \in Task : Verify(t) \/ Fail(t)
      BY <3>4 DEF Verify, Fail
    <3>5. CASE Fetch \/ ReadForUpdate \/ Replace
      BY <3>5 DEF Fetch, ReadForUpdate, Replace, WatcherOnly
    <3>6. CASE Graph
      BY <1>1, <2>1, <3>6 DEF Graph, Judged
    <3> QED BY <3>1, <3>2, <3>3, <3>4, <3>5, <3>6, StepIsOneOf
  <2> QED BY <1>1, <2>1, <2>2, <2>3 DEF Judged
<1> QED BY <1>1, <1>2, <1>3

LEMMA TypesStep == ASSUME ExecInv, [Next]_vars PROVE ExecTypes'
<1>1. ExecTypes /\ plan \in [Task -> Block]
  BY DEF ExecInv, GraphInv, CycleInv, SearchInv, SearchTypes
<1>2. tasksMd \in Text /\ None \in Text /\ Plain \in [Task -> Colour]
  BY <1>1 DEF ExecTypes, tasksMd, None, Text, Plain, Colour
<1>3. \A t \in Task : \A b : StatusOf(t, b) \in Colour /\ OrcaStatus(t) \in Colour
  BY <1>1, StatusesAreColours
<1>4. CASE UNCHANGED vars
  BY <1>1, <1>4 DEF vars, ExecTypes
<1>5. CASE Graph
  BY <1>1, <1>5 DEF Graph, ExecTypes
<1>6. ASSUME NEW from, NEW to \in {"render", "answer"}, Check(from, to) PROVE ExecTypes'
  BY <1>1, <1>2, <1>6 DEF Check, ExecTypes
<1>7. CASE RenderRead
  BY <1>1, <1>2, <1>7 DEF RenderRead, ExecTypes
<1>8. CASE RenderWrite
  <2>1. boxes' \in SUBSET Task /\ colours' \in [Task -> Colour]
    BY <1>1, <1>3, <1>8 DEF RenderWrite, ExecTypes, Text
  <2> QED BY <1>1, <1>8, <2>1 DEF RenderWrite, ExecTypes
<1>9. CASE Answer
  <2>1. pc' \in {"check", "wave", "dispatch", "complete"}
    BY <1>9 DEF Answer
  <2> QED BY <1>1, <1>9, <2>1 DEF Answer, ExecTypes
<1>10. CASE Dispatch
  <2>1. FirstWave(text.boxes) \subseteq Task
    BY DEF FirstWave, Ready, ActivePool
  <2>2. ledger' \in [Task -> Outcome]
    BY <1>1, <1>10 DEF Dispatch, ExecTypes, Outcome
  <2> QED BY <1>1, <1>10, <2>1, <2>2 DEF Dispatch, ExecTypes
<1>11. ASSUME NEW t \in Task, Verify(t) PROVE ExecTypes'
  <2>1. ledger' \in [Task -> Outcome]
    BY <1>1, <1>11 DEF Verify, ExecTypes, Outcome
  <2> QED BY <1>1, <1>11, <2>1 DEF Verify, ExecTypes
<1>12. ASSUME NEW t \in Task, Fail(t) PROVE ExecTypes'
  <2>1. ledger' \in [Task -> Outcome]
    BY <1>1, <1>12 DEF Fail, ExecTypes, Outcome
  <2>2. failures' \in 0..MaxFailures
    BY <1>1, <1>12, FailuresAssumption DEF Fail, ExecTypes
  <2> QED BY <1>1, <1>12, <2>1, <2>2 DEF Fail, ExecTypes
<1>13. CASE Fetch
  <2>1. [t \in Task |-> OrcaStatus(t)] \in [Task -> Colour]
    BY <1>3
  <2>2. watcher' \in [at : {"idle", "fetched", "read"}, status : [Task -> Colour], text : Text]
    BY <1>1, <1>13, <2>1 DEF Fetch, ExecTypes
  <2> QED BY <1>1, <1>13, <2>2 DEF Fetch, WatcherOnly, ExecTypes
<1>14. CASE ReadForUpdate
  <2>1. watcher' \in [at : {"idle", "fetched", "read"}, status : [Task -> Colour], text : Text]
    BY <1>1, <1>2, <1>14 DEF ReadForUpdate, ExecTypes
  <2> QED BY <1>1, <1>14, <2>1 DEF ReadForUpdate, WatcherOnly, ExecTypes
<1>15. CASE Replace
  <2>1. /\ watcher' \in [at : {"idle", "fetched", "read"}, status : [Task -> Colour], text : Text]
        /\ boxes' \in SUBSET Task /\ colours' \in [Task -> Colour]
    BY <1>1, <1>2, <1>15 DEF Replace, ExecTypes, Text
  <2> QED BY <1>1, <1>15, <2>1 DEF Replace, WatcherOnly, ExecTypes
<1> QED BY <1>4, <1>5, <1>6, <1>7, <1>8, <1>9, <1>10, <1>11, <1>12, <1>13, <1>14, <1>15,
           StepIsOneOf

\* A copy of the boxes is replaced by another, and a box is checked with the task verified.
LEMMA BoxesStep == ASSUME ExecInv, [Next]_vars PROVE BoxesAreEarned'
<1>1. /\ boxes \subseteq verified /\ text.boxes \subseteq verified
      /\ sidecar.boxes \subseteq verified /\ watcher.text.boxes \subseteq verified
      /\ ExecTypes
  BY DEF ExecInv, BoxesAreEarned
<1>2. tasksMd.boxes = boxes /\ None.boxes = {}
  BY DEF tasksMd, None
<1>3. CASE UNCHANGED vars \/ Graph \/ Answer
  BY <1>1, <1>3 DEF vars, Graph, Answer, BoxesAreEarned
<1>4. CASE Check("emit", "render") \/ Check("check", "answer") \/ RenderRead
  BY <1>1, <1>2, <1>4 DEF Check, RenderRead, BoxesAreEarned
<1>5. CASE RenderWrite \/ Dispatch
  BY <1>1, <1>5 DEF RenderWrite, Dispatch, BoxesAreEarned
<1>6. CASE \E t \in Task : Verify(t) \/ Fail(t)
  BY <1>1, <1>6 DEF Verify, Fail, BoxesAreEarned
<1>7. CASE Fetch
  <2>1. watcher'.text = watcher.text
    BY <1>1, <1>7 DEF Fetch, ExecTypes
  <2> QED BY <1>1, <1>7, <2>1 DEF Fetch, WatcherOnly, BoxesAreEarned
<1>8. CASE ReadForUpdate
  <2>1. watcher'.text = None \/ watcher'.text = tasksMd
    BY <1>1, <1>8 DEF ReadForUpdate, ExecTypes
  <2> QED BY <1>1, <1>2, <1>8, <2>1 DEF ReadForUpdate, WatcherOnly, BoxesAreEarned
<1>9. CASE Replace
  BY <1>1, <1>2, <1>9 DEF Replace, WatcherOnly, BoxesAreEarned
<1> QED BY <1>3, <1>4, <1>5, <1>6, <1>7, <1>8, <1>9, StepIsOneOf

LEMMA DispatchStep == ASSUME ExecInv, [Next]_vars PROVE DispatchHasWork'
<1>1. pc = "dispatch" => text.boxes # Task /\ running = {}
  BY DEF ExecInv, DispatchHasWork
<1>2. CASE UNCHANGED vars
  BY <1>1, <1>2 DEF vars, DispatchHasWork
<1>3. CASE Graph
  BY <1>3 DEF Graph, DispatchHasWork
<1>4. CASE Check("emit", "render") \/ Check("check", "answer") \/ RenderRead \/ RenderWrite
           \/ Dispatch
  BY <1>4 DEF Check, RenderRead, RenderWrite, Dispatch, DispatchHasWork
<1>5. CASE Answer
  BY <1>5 DEF Answer, DispatchHasWork
<1>6. CASE \E t \in Task : Verify(t) \/ Fail(t)
  BY <1>6 DEF Verify, Fail, DispatchHasWork
<1>7. CASE Fetch \/ ReadForUpdate \/ Replace
  BY <1>1, <1>7 DEF Fetch, ReadForUpdate, Replace, WatcherOnly, DispatchHasWork
<1> QED BY <1>2, <1>3, <1>4, <1>5, <1>6, <1>7, StepIsOneOf

\* What the controller needs where it dispatches: an accepted list and work left.
LEMMA AtDispatch ==
    ASSUME ExecInv, pc = "dispatch"
    PROVE  /\ GraphInv /\ root = N + 1 /\ Accepted
           /\ text.boxes \in SUBSET Task /\ text.boxes # Task
           /\ running = {} /\ text.boxes \subseteq verified
<1>1. verdict = "accepted"
  BY DEF ExecInv, Judged, GraphInv, CycleInv, SearchInv, SearchTypes
<1>2. text.boxes \in SUBSET Task
  BY DEF ExecInv, ExecTypes, Text
<1> QED BY <1>1, <1>2 DEF ExecInv, Judged, DispatchHasWork, BoxesAreEarned

LEMMA WavesStep == ASSUME ExecInv, [Next]_vars PROVE WavesAreSafe'
<1>1. /\ \A t \in running : Deps(t) \subseteq verified
      /\ \A t, u \in running : t # u =>
            /\ t \notin Deps(u)
            /\ \A p \in plan[t].files, q \in plan[u].files : ~OwnedPathsOverlap(p, q)
  BY DEF ExecInv, WavesAreSafe
<1>2. plan' = plan
  BY GraphOfStep DEF graphVars, GraphNext, NextRoot, Visit, Return, Judge
<1>3. CASE running' \subseteq running /\ verified \subseteq verified'
  BY <1>1, <1>2, <1>3 DEF WavesAreSafe, Deps
<1>4. CASE Dispatch
  <2>1. pc = "dispatch" /\ running' = FirstWave(text.boxes) /\ verified' = verified
    BY <1>4 DEF Dispatch
  <2>2. /\ GraphInv /\ root = N + 1 /\ Accepted
        /\ text.boxes \in SUBSET Task /\ text.boxes # Task /\ text.boxes \subseteq verified
    BY <2>1, AtDispatch
  <2>3. \A t \in running' : Deps(t) \subseteq verified
    BY <2>1, <2>2, FirstWaveIs
  <2>4. \A t, u \in running' : t # u =>
            /\ t \notin Deps(u)
            /\ \A p \in plan[t].files, q \in plan[u].files : ~OwnedPathsOverlap(p, q)
    BY <2>1, <2>2, WaveIsSafe
  <2> QED BY <1>2, <2>1, <2>3, <2>4 DEF WavesAreSafe, Deps
<1>5. CASE UNCHANGED vars \/ Graph
  BY <1>3, <1>5 DEF vars, Graph
<1>6. CASE Check("emit", "render") \/ Check("check", "answer") \/ RenderRead \/ RenderWrite
           \/ Answer
  BY <1>3, <1>6 DEF Check, RenderRead, RenderWrite, Answer
<1>7. CASE \E t \in Task : Verify(t) \/ Fail(t)
  BY <1>3, <1>7 DEF Verify, Fail
<1>8. CASE Fetch \/ ReadForUpdate \/ Replace
  BY <1>3, <1>8 DEF Fetch, ReadForUpdate, Replace, WatcherOnly
<1> QED BY <1>4, <1>5, <1>6, <1>7, <1>8, StepIsOneOf

\* Without the watcher each step leaves the files saying the same.
LEMMA FilesStep == ASSUME ExecInv, [Next]_vars PROVE FilesAgree'
<1>1. watching' = watching
  BY StepIsOneOf DEF NoGraph, Graph
<1> DEFINE Ledger == \A t \in Task : /\ ledger[t] = "active" <=> t \in running
                                     /\ ledger[t] = "verified" <=> t \in verified
           Drawn == \A t \in Task : colours[t] = StatusOf(t, verified)
<1> SUFFICES ASSUME ~watching
             PROVE  /\ watcher'.at = "idle" /\ boxes' = verified'
                    /\ pc' \in {"inject", "answer", "dispatch"} => text'.boxes = verified'
                    /\ pc' \in {"render", "inject"} => sidecar'.boxes = verified'
                    /\ Ledger'
                    /\ pc' \in {"check", "answer", "dispatch", "wave", "complete"} => Drawn'
  BY <1>1 DEF FilesAgree
<1>2. /\ watcher.at = "idle" /\ boxes = verified
      /\ pc \in {"inject", "answer", "dispatch"} => text.boxes = verified
      /\ pc \in {"render", "inject"} => sidecar.boxes = verified
      /\ Ledger
      /\ pc \in {"check", "answer", "dispatch", "wave", "complete"} => Drawn
      /\ ExecTypes
  BY DEF ExecInv, FilesAgree
<1>3. CASE UNCHANGED <<pc, text, sidecar, boxes, colours, ledger, running, verified, watcher>>
  <2>1. Drawn' <=> Drawn
    BY <1>3 DEF StatusOf
  <2>2. Ledger' <=> Ledger
    BY <1>3
  <2> HIDE DEF Drawn, Ledger
  <2> QED BY <1>2, <1>3, <2>1, <2>2
<1>4. CASE Graph
  <2>1. UNCHANGED <<text, sidecar, boxes, colours, ledger, running, verified, watcher>>
        /\ pc' \in {"judge", "emit", "refused"}
    BY <1>4 DEF Graph
  <2>2. Ledger'
    BY <1>2, <2>1
  <2> HIDE DEF Drawn, Ledger
  <2> QED BY <1>2, <2>1, <2>2
<1>5. CASE Check("emit", "render")
  <2>1. /\ UNCHANGED <<boxes, colours, ledger, running, verified, watcher>>
        /\ pc' = "render" /\ sidecar'.boxes = boxes
    BY <1>5 DEF Check, tasksMd
  <2>2. Ledger'
    BY <1>2, <2>1
  <2> HIDE DEF Drawn, Ledger
  <2> QED BY <1>2, <2>1, <2>2
<1>6. CASE Check("check", "answer")
  <2>1. /\ UNCHANGED <<boxes, colours, ledger, running, verified, watcher>>
        /\ pc = "check" /\ pc' = "answer" /\ text'.boxes = boxes
    BY <1>6 DEF Check, tasksMd
  <2>2. Ledger' /\ Drawn'
    BY <1>2, <2>1 DEF StatusOf
  <2> HIDE DEF Drawn, Ledger
  <2> QED BY <1>2, <2>1, <2>2
<1>7. CASE RenderRead
  <2>1. /\ UNCHANGED <<boxes, sidecar, ledger, running, verified, watcher>>
        /\ pc = "render" /\ pc' = "inject" /\ text'.boxes = boxes
    BY <1>7 DEF RenderRead, tasksMd
  <2>2. Ledger'
    BY <1>2, <2>1
  <2> HIDE DEF Drawn, Ledger
  <2> QED BY <1>2, <2>1, <2>2
<1>8. CASE RenderWrite
  <2>1. /\ UNCHANGED <<sidecar, ledger, running, verified, watcher>>
        /\ pc = "inject" /\ pc' = "check" /\ boxes' = text.boxes
        /\ colours' = [t \in Task |-> StatusOf(t, sidecar.boxes)]
    BY <1>8 DEF RenderWrite
  <2>2. sidecar.boxes = verified
    BY <1>2, <2>1
  <2>3. Ledger'
    BY <1>2, <2>1
  <2>4. Drawn'
    BY <2>1, <2>2 DEF StatusOf
  <2> HIDE DEF Drawn, Ledger
  <2> QED BY <1>2, <2>1, <2>3, <2>4
<1>9. CASE Answer
  <2>1. /\ UNCHANGED <<text, boxes, colours, sidecar, ledger, running, verified, watcher>>
        /\ pc = "answer" /\ pc' \in {"check", "wave", "dispatch", "complete"}
    BY <1>9 DEF Answer
  <2>2. Ledger' /\ Drawn'
    BY <1>2, <2>1 DEF StatusOf
  <2> HIDE DEF Drawn, Ledger
  <2> QED BY <1>2, <2>1, <2>2
<1>10. CASE Dispatch
  <2>1. /\ UNCHANGED <<text, boxes, colours, sidecar, verified, watcher>>
        /\ pc = "dispatch" /\ pc' = "emit" /\ running' = FirstWave(text.boxes)
        /\ ledger' = [t \in Task |-> IF t \in running' THEN "active" ELSE ledger[t]]
    BY <1>10 DEF Dispatch
  <2>2. running = {} /\ running' \subseteq Task \ verified
    <3>1. /\ GraphInv /\ root = N + 1 /\ Accepted /\ running = {}
          /\ text.boxes \in SUBSET Task /\ text.boxes # Task
      BY <2>1, AtDispatch
    <3>2. running' \subseteq Task \ text.boxes
      BY <2>1, <3>1, FirstWaveIs
    <3> QED BY <1>2, <2>1, <3>1, <3>2
  <2>3. Ledger'
    BY <1>2, <2>1, <2>2
  <2> HIDE DEF Drawn, Ledger
  <2> QED BY <1>2, <2>1, <2>3
<1>11. ASSUME NEW t \in Task, Verify(t)
       PROVE  /\ watcher' = watcher /\ boxes' = verified' /\ Ledger' /\ pc' = "emit"
  <2>1. /\ t \in running /\ running' = running \ {t} /\ verified' = verified \cup {t}
        /\ boxes' = boxes \cup {t} /\ ledger' = [ledger EXCEPT ![t] = "verified"]
        /\ pc' = "emit" /\ watcher' = watcher
    BY <1>11 DEF Verify
  <2>2. ledger \in [Task -> Outcome]
    BY <1>2 DEF ExecTypes
  <2>3. ledger'[t] = "verified" /\ \A u \in Task \ {t} : ledger'[u] = ledger[u]
    BY <2>1, <2>2
  <2>4. Ledger'
    BY <1>2, <2>1, <2>3
  <2> QED BY <1>2, <2>1, <2>4
<1>12. ASSUME NEW t \in Task, Fail(t)
       PROVE  /\ watcher' = watcher /\ boxes' = verified' /\ Ledger' /\ pc' = "emit"
  <2>1. /\ t \in running /\ running' = running \ {t} /\ verified' = verified
        /\ boxes' = boxes /\ ledger' = [ledger EXCEPT ![t] = "failed"]
        /\ pc' = "emit" /\ watcher' = watcher
    BY <1>12 DEF Fail
  <2>2. ledger \in [Task -> Outcome]
    BY <1>2 DEF ExecTypes
  <2>3. ledger'[t] = "failed" /\ \A u \in Task \ {t} : ledger'[u] = ledger[u]
    BY <2>1, <2>2
  <2>4. ledger[t] = "active" /\ t \notin verified
    BY <1>2, <2>1
  <2>5. Ledger'
    BY <1>2, <2>1, <2>3, <2>4
  <2> QED BY <1>2, <2>1, <2>5
<1>13. CASE Fetch \/ ReadForUpdate \/ Replace
  BY <1>2, <1>13 DEF Fetch, ReadForUpdate, Replace
<1>14. CASE UNCHANGED vars
  BY <1>3, <1>14 DEF vars
<1>15. CASE \E t \in Task : Verify(t) \/ Fail(t)
  <2> HIDE DEF Drawn, Ledger
  <2>1. watcher' = watcher /\ boxes' = verified' /\ Ledger' /\ pc' = "emit"
    BY <1>11, <1>12, <1>15
  <2> QED BY <1>2, <2>1
<1> HIDE DEF Drawn, Ledger
<1> QED BY <1>4, <1>5, <1>6, <1>7, <1>8, <1>9, <1>10, <1>13, <1>14, <1>15, StepIsOneOf

\* The invariant of the execution: the search, the verdict, what is known of every copy of the
\* boxes, and the waves that are out (spec-check.py, render-gantt.py, sync_orca_flowchart.py).
THEOREM ExecInvariant == Spec => []ExecInv
<1>1. ExecInv /\ [Next]_vars => ExecInv'
  <2> SUFFICES ASSUME ExecInv, [Next]_vars PROVE ExecInv'
    OBVIOUS
  <2>1. GraphInv'
    BY GraphOfStep, GraphInvStep DEF ExecInv
  <2> QED BY <2>1, TypesStep, JudgedStep, BoxesStep, DispatchStep, WavesStep, FilesStep
          DEF ExecInv
<1> QED BY <1>1, ExecInit, PTL DEF Spec

-----------------------------------------------------------------------------
(* What follows for the program.                                           *)

\* Every state of the search and of the execution is well typed; in particular no stage exceeds
\* the number of tasks, in which the program counts them.
THEOREM TypeCorrect == Spec => []TypeOK
<1>1. ExecInv => TypeOK
  <2> SUFFICES ASSUME ExecInv PROVE TypeOK
    OBVIOUS
  <2>1. GraphTypeOK /\ ExecTypes
    BY GraphTypes DEF ExecInv
  <2>2. watcher.at \in {"idle", "fetched", "read"}
    BY <2>1 DEF ExecTypes
  <2> QED BY <2>1, <2>2 DEF TypeOK, ExecTypes
<1> QED BY <1>1, ExecInvariant, PTL

\* The execution never does with the task graph what the search would not do.
THEOREM SearchIsKept == Spec => GraphInit /\ [][GraphNext]_graphVars
<1>1. Init => GraphInit
  BY DEF Init
<1> QED BY <1>1, GraphOfStep, PTL DEF Spec

\* The cycles reported are exactly the elementary cycles of the list, whatever its length and
\* the order of the visits (compute_stage, spec-check.py:487-517).
THEOREM CyclesReported == Spec => []CyclesAreReported
<1>1. ExecInv => CyclesAreReported
  BY AllCyclesFound DEF ExecInv, GraphInv, CyclesAreReported, Searched
<1> QED BY <1>1, ExecInvariant, PTL

\* The stages found are the lengths of the longest chains of dependencies, and none where a
\* cycle or a missing task is among what the task needs (spec-check.py:487-517).
THEOREM StagesAreLongest == Spec => []StagesAreLongestChains
<1>1. ExecInv => StagesAreLongestChains
  BY SearchedFindsStages DEF ExecInv
<1> QED BY <1>1, ExecInvariant, PTL

\* A check that passed while work is left names a ready task (spec-check.py:1774-1811).
THEOREM SomethingIsReady == Spec => []NeverStuck
<1>1. ExecInv => NeverStuck
  BY AtDispatch, ReadyExists DEF NeverStuck
<1> QED BY <1>1, ExecInvariant, PTL

\* Tasks in hand have their dependencies verified and do not meet in the files they own
\* (spec-check.py:1789-1801 and 540-558).
THEOREM WavesSafe == Spec => []WavesAreSafe
<1>1. ExecInv => WavesAreSafe
  BY DEF ExecInv
<1> QED BY <1>1, ExecInvariant, PTL

\* Without the watcher no verified task is in hand again (render-gantt.py:479-523).
THEOREM NothingRedone == Spec => []NothingIsRedone
<1>1. ExecInv => NothingIsRedone
  <2> SUFFICES ASSUME ExecInv, ~watching, NEW t \in running, t \in verified PROVE FALSE
    BY DEF NothingIsRedone
  <2>1. t \in Task
    BY DEF ExecInv, ExecTypes
  <2>2. ledger[t] = "active" /\ ledger[t] = "verified"
    BY <2>1 DEF ExecInv, FilesAgree
  <2> QED BY <2>2
<1> QED BY <1>1, ExecInvariant, PTL

\* Without the watcher a flowchart that a check has passed shows each task as it is, and agrees
\* with the other derivation of its state (render-gantt.py:209-236, spec-check.py:1830-1883).
THEOREM FlowchartTruthful == Spec => []FlowchartIsTruthful
<1>1. ASSUME ExecInv, ~watching, pc \in {"dispatch", "wave", "complete"}, NEW t \in Task
      PROVE  /\ ledger[t] \in {"none", "active", "failed", "verified"}
             /\ ledger[t] = "verified" <=> t \in verified
             /\ colours[t] = StatusOf(t, verified)
             /\ boxes = verified
  BY <1>1 DEF ExecInv, FilesAgree, ExecTypes, Outcome
<1>2. ASSUME ExecInv, ~watching, pc \in {"dispatch", "wave", "complete"}, NEW t \in Task
      PROVE  /\ colours[t] = "done" <=> t \in verified
             /\ colours[t] = "done" <=> Projection(t, boxes) = "done"
             /\ colours[t] = "in_progress" <=> Projection(t, boxes) = "running"
             /\ colours[t] = "failed" <=> Projection(t, boxes) = "failed"
  <2>1. /\ ledger[t] \in {"none", "active", "failed", "verified"}
        /\ ledger[t] = "verified" <=> t \in verified
        /\ colours[t] = StatusOf(t, verified) /\ boxes = verified
    BY <1>1, <1>2
  <2>2. CASE ledger[t] = "verified"
    <3>1. colours[t] = "done"
      BY <2>1, <2>2 DEF StatusOf
    <3>2. Projection(t, boxes) = "done"
      BY <2>2 DEF Projection
    <3> QED BY <2>1, <2>2, <3>1, <3>2
  <2>3. CASE ledger[t] = "active"
    <3>1. colours[t] = "in_progress"
      BY <2>1, <2>3 DEF StatusOf
    <3>2. Projection(t, boxes) = "running"
      BY <2>3 DEF Projection
    <3> QED BY <2>1, <2>3, <3>1, <3>2
  <2>4. CASE ledger[t] = "failed"
    <3>1. colours[t] = "failed"
      BY <2>1, <2>4 DEF StatusOf
    <3>2. Projection(t, boxes) = "failed"
      BY <2>4 DEF Projection
    <3> QED BY <2>1, <2>4, <3>1, <3>2
  <2>5. CASE ledger[t] = "none"
    <3>1. t \notin verified /\ colours[t] = "pending"
      BY <2>1, <2>5 DEF StatusOf
    <3>2. Projection(t, boxes) \in {"ready", "blocked"}
      BY <2>1, <2>5, <3>1 DEF Projection
    <3> QED BY <3>1, <3>2
  <2> QED BY <2>1, <2>2, <2>3, <2>4, <2>5
<1>3. ASSUME ExecInv, ~watching, pc = "dispatch", NEW t \in Ready(text.boxes)
      PROVE  Projection(t, boxes) \in {"ready", "failed"}
  <2>1. /\ GraphInv /\ root = N + 1 /\ Accepted /\ running = {}
        /\ text.boxes \in SUBSET Task /\ text.boxes # Task
    BY <1>3, AtDispatch
  <2>2. t \in Task \ text.boxes /\ Deps(t) \subseteq text.boxes
    BY <2>1, FirstWaveIs
  <2>3. text.boxes = verified
    BY <1>3 DEF ExecInv, FilesAgree
  <2>4. \A u \in verified : ledger[u] = "verified"
    BY <1>3, <2>1, <2>3 DEF ExecInv, FilesAgree
  <2>5. ledger[t] \in {"none", "failed"}
    <3>1. /\ ledger[t] \in {"none", "active", "failed", "verified"}
          /\ ledger[t] = "active" <=> t \in running
          /\ ledger[t] = "verified" <=> t \in verified
      BY <1>1, <1>3, <2>2 DEF ExecInv, FilesAgree
    <3> QED BY <2>1, <2>2, <2>3, <3>1
  <2>6. boxes = verified
    BY <1>1, <1>3, <2>2
  <2>7. CASE ledger[t] = "failed"
    BY <2>7 DEF Projection
  <2>8. CASE ledger[t] = "none"
    <3>1. \A d \in Deps(t) : ledger[d] = "verified"
      BY <2>2, <2>3, <2>4
    <3>2. t \notin boxes
      BY <2>2, <2>3, <2>6
    <3> QED BY <2>8, <3>1, <3>2 DEF Projection
  <2> QED BY <2>5, <2>7, <2>8
<1>4. ExecInv => FlowchartIsTruthful
  BY <1>2, <1>3 DEF FlowchartIsTruthful
<1> QED BY <1>4, ExecInvariant, PTL
==============================================================================
