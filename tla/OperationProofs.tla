--------------------------- MODULE OperationProofs ---------------------------
(***************************************************************************)
(* The operations the tools start and wait for: the safety of              *)
(* wait_for_operation for every time limit, poll interval, request timeout *)
(* and number of request phases, and that of the tools that create, change *)
(* and remove apps, endpoints, services and drains, for any calls,         *)
(* resources and number of crashes.                                        *)
(***************************************************************************)
EXTENDS OperationWait, Provisioning, FiniteSetTheorems, TLAPS

\* A request that started before the deadline ends within one request of it.
MaxRequest == Phases * RequestTimeout

\* What the polling loop knows of the operation: a status never turns into another done
\* one, and an answer under way is one the record had or has.
AnswerInv ==
    /\ opStatus \in DoneStates <=> doneAt # Never
    /\ reply = "succeeded" => opStatus = "succeeded"
    /\ reply = "failed"    => opStatus = "failed"
    /\ reply = "notfound"  => gone
    /\ pc # "done" => outcome = "none"

\* What the loop knows of the clock, state by state.
ClockInv ==
    /\ sentAt <= now
    /\ pc = "check" => now <= deadline
    /\ pc = "requesting" =>
          /\ sentAt \in Nat /\ sentAt < deadline
          /\ phase \in 1..Phases
          /\ now <= phaseEnd
          /\ phaseEnd <= sentAt + phase * RequestTimeout
    /\ pc = "sleeping" => now <= wakeAt /\ wakeAt <= deadline

\* What the loop knows when it finds the operation still active: a finish it has not
\* heard of came after the last poll was sent.
FreshInv ==
    /\ pc = "idle" => sentAt = Never
    /\ pc = "sleeping" => sentAt # Never
    /\ pc = "check" /\ sentAt = Never => now < deadline
    /\ pc \in {"check", "sleeping"} /\ sentAt # Never /\ doneAt # Never =>
          doneAt >= sentAt
    /\ pc = "requesting" /\ reply \in ActiveStates /\ doneAt # Never => doneAt >= sentAt
    /\ pc \in {"check", "sleeping"} /\ sentAt # Never =>
          /\ wakeAt <= sentAt + MaxRequest + PollInterval
          /\ pc = "check" => now <= wakeAt

\* The inductive invariant: the bookkeeping above and the properties it carries.
IInv ==
    /\ TypeOK
    /\ AnswerInv
    /\ ClockInv
    /\ FreshInv
    /\ OutcomeMatchesOperation
    /\ TimeoutIsJustified
    /\ RefusalIsJustified

------------------------------------------------------------------------------
(* Arithmetic of a request's phases. *)

\* The time limits of p phases add up to at most one whole request.
LEMMA PhaseTime ==
    ASSUME NEW p \in 1..Phases
    PROVE  /\ p * RequestTimeout \in Nat
           /\ p * RequestTimeout <= MaxRequest
           /\ (p + 1) * RequestTimeout = p * RequestTimeout + RequestTimeout
           /\ MaxRequest \in Nat
BY OperationWaitAssumption DEF MaxRequest

------------------------------------------------------------------------------
(* One step keeps each part of the invariant. *)

\* Every step of the call, the platform, the canceller and the clock keeps the types.
LEMMA TypeStep == TypeOK /\ [Next]_vars => TypeOK'
<1> SUFFICES ASSUME TypeOK, [Next]_vars PROVE TypeOK'
    OBVIOUS
<1> USE OperationWaitAssumption DEF TypeOK, DoneStates, ActiveStates, Replies,
        Outcomes, Never, opVars, waitVars
<1>1. CASE StartWait BY <1>1 DEF StartWait
<1>2. CASE Poll BY <1>2 DEF Poll, Finish
<1>3. CASE NextPhase BY <1>3 DEF NextPhase
<1>4. CASE ServerAnswers BY <1>4 DEF ServerAnswers
<1>5. CASE TransportError BY <1>5 DEF TransportError, Finish
<1>6. CASE Receive
    <2>1. CASE Verdict(reply) # "none"
        BY <1>6, <2>1 DEF Receive, Finish, Verdict
    <2>2. CASE Verdict(reply) = "none"
        BY <1>6, <2>2 DEF Receive, Finish, SleepUntil, Expired
    <2> QED BY <2>1, <2>2
<1>7. CASE Wake BY <1>7 DEF Wake
<1>8. CASE CancelGet BY <1>8 DEF CancelGet, Terminal
<1>9. CASE CancelPut
    <2>1. CASE gone BY <1>9, <2>1 DEF CancelPut
    <2>2. CASE ~gone BY <1>9, <2>2 DEF CancelPut
    <2> QED BY <2>1, <2>2
<1>10. CASE OpStart BY <1>10 DEF OpStart
<1>11. CASE OpFinish BY <1>11 DEF OpFinish
<1>12. CASE OpDelete BY <1>12 DEF OpDelete
<1>13. CASE Tick BY <1>13 DEF Tick
<1>14. CASE UNCHANGED vars BY <1>14 DEF vars
<1> QED
    BY <1>1, <1>2, <1>3, <1>4, <1>5, <1>6, <1>7, <1>8, <1>9, <1>10, <1>11, <1>12,
       <1>13, <1>14 DEF Next, WaitStep, Platform, Cancel

\* An answer under way stays one the record had, since no step takes an operation out of a
\* done state; TypeOK tells the answers apart.
LEMMA AnswerStep == TypeOK /\ AnswerInv /\ [Next]_vars => AnswerInv'
<1> SUFFICES ASSUME TypeOK, AnswerInv, [Next]_vars PROVE AnswerInv'
    OBVIOUS
<1> USE DEF TypeOK, AnswerInv, DoneStates, ActiveStates, Never, opVars, waitVars
<1>1. CASE StartWait BY <1>1 DEF StartWait
<1>2. CASE Poll BY <1>2 DEF Poll, Finish
<1>3. CASE NextPhase BY <1>3 DEF NextPhase
<1>4. CASE ServerAnswers BY <1>4 DEF ServerAnswers
<1>5. CASE TransportError BY <1>5 DEF TransportError, Finish
<1>6. CASE Receive BY <1>6 DEF Receive, Finish
<1>7. CASE Wake BY <1>7 DEF Wake
<1>8. CASE CancelGet BY <1>8 DEF CancelGet
<1>9. CASE CancelPut BY <1>9 DEF CancelPut
<1>10. CASE OpStart BY <1>10 DEF OpStart
<1>11. CASE OpFinish BY <1>11 DEF OpFinish
<1>12. CASE OpDelete BY <1>12 DEF OpDelete
<1>13. CASE Tick BY <1>13 DEF Tick
<1>14. CASE UNCHANGED vars BY <1>14 DEF vars
<1> QED
    BY <1>1, <1>2, <1>3, <1>4, <1>5, <1>6, <1>7, <1>8, <1>9, <1>10, <1>11, <1>12,
       <1>13, <1>14 DEF Next, WaitStep, Platform, Cancel

\* The clock stands still while the call can act, so a phase never outlives its limit and a
\* sleep never its end; the phases add up by PhaseTime.
LEMMA ClockStep == TypeOK /\ ClockInv /\ [Next]_vars => ClockInv'
<1> SUFFICES ASSUME TypeOK, ClockInv, [Next]_vars PROVE ClockInv'
    OBVIOUS
<1> USE OperationWaitAssumption DEF TypeOK, ClockInv, Never, opVars, waitVars
<1>1. CASE StartWait BY <1>1 DEF StartWait
<1>2. CASE Poll
    <2>1. CASE Expired(now) BY <1>2, <2>1 DEF Poll, Finish
    <2>2. CASE ~Expired(now)
        BY <1>2, <2>2, 1 * RequestTimeout = RequestTimeout DEF Poll, Expired
    <2> QED BY <2>1, <2>2
<1>3. CASE NextPhase
    <2>1. pc = "requesting" /\ phase \in 1..Phases /\ phase < Phases
        BY <1>3 DEF NextPhase
    <2>2. /\ phase * RequestTimeout \in Nat
          /\ (phase + 1) * RequestTimeout = phase * RequestTimeout + RequestTimeout
        BY <2>1, PhaseTime
    <2>3. phaseEnd' <= sentAt + (phase + 1) * RequestTimeout
        BY <1>3, <2>1, <2>2 DEF NextPhase
    <2> QED BY <1>3, <2>1, <2>3 DEF NextPhase
<1>4. CASE ServerAnswers BY <1>4 DEF ServerAnswers
<1>5. CASE TransportError BY <1>5 DEF TransportError, Finish
<1>6. CASE Receive BY <1>6 DEF Receive, Finish, SleepUntil, Expired
<1>7. CASE Wake BY <1>7 DEF Wake
<1>8. CASE CancelGet BY <1>8 DEF CancelGet
<1>9. CASE CancelPut BY <1>9 DEF CancelPut
<1>10. CASE OpStart BY <1>10 DEF OpStart
<1>11. CASE OpFinish BY <1>11 DEF OpFinish
<1>12. CASE OpDelete BY <1>12 DEF OpDelete
<1>13. CASE Tick BY <1>13 DEF Tick, Urgent
<1>14. CASE UNCHANGED vars BY <1>14 DEF vars
<1> QED
    BY <1>1, <1>2, <1>3, <1>4, <1>5, <1>6, <1>7, <1>8, <1>9, <1>10, <1>11, <1>12,
       <1>13, <1>14 DEF Next, WaitStep, Platform, Cancel

\* An operation that was active at the last poll finished no earlier than that poll was
\* sent, which ClockInv keeps within one request and one sleep of now.
LEMMA FreshStep == TypeOK /\ AnswerInv /\ ClockInv /\ FreshInv /\ [Next]_vars => FreshInv'
<1> SUFFICES ASSUME TypeOK, AnswerInv, ClockInv, FreshInv, [Next]_vars
             PROVE  FreshInv'
    OBVIOUS
<1> MaxRequest \in Nat
    BY OperationWaitAssumption DEF MaxRequest
<1> USE OperationWaitAssumption
        DEF TypeOK, FreshInv, DoneStates, ActiveStates, Never, opVars, waitVars
<1>1. CASE StartWait BY <1>1 DEF StartWait
<1>2. CASE Poll BY <1>2 DEF Poll, Finish, Expired
<1>3. CASE NextPhase BY <1>3 DEF NextPhase
<1>4. CASE ServerAnswers BY <1>4 DEF ServerAnswers, AnswerInv
<1>5. CASE TransportError BY <1>5 DEF TransportError, Finish
<1>6. CASE Receive
    <2>1. CASE Verdict(reply) # "none" BY <1>6, <2>1 DEF Receive, Finish
    <2>2. CASE Verdict(reply) = "none"
        <3>1. reply \in ActiveStates
            BY <1>6, <2>2 DEF Receive, Verdict, Replies
        <3>2. /\ sentAt \in Nat
              /\ now <= sentAt + phase * RequestTimeout
              /\ phase * RequestTimeout \in Nat
              /\ phase * RequestTimeout <= MaxRequest
            BY <1>6, PhaseTime DEF Receive, ClockInv
        <3>3. now <= sentAt + MaxRequest
            BY <3>2
        <3> QED
            BY <1>6, <2>2, <3>1, <3>2, <3>3 DEF Receive, Finish, SleepUntil, Expired
    <2> QED BY <2>1, <2>2
<1>7. CASE Wake BY <1>7 DEF Wake, ClockInv
<1>8. CASE CancelGet BY <1>8 DEF CancelGet
<1>9. CASE CancelPut BY <1>9 DEF CancelPut
<1>10. CASE OpStart BY <1>10 DEF OpStart
<1>11. CASE OpFinish BY <1>11 DEF OpFinish, ClockInv, AnswerInv
<1>12. CASE OpDelete BY <1>12 DEF OpDelete
<1>13. CASE Tick BY <1>13 DEF Tick, Urgent
<1>14. CASE UNCHANGED vars BY <1>14 DEF vars
<1> QED
    BY <1>1, <1>2, <1>3, <1>4, <1>5, <1>6, <1>7, <1>8, <1>9, <1>10, <1>11, <1>12,
       <1>13, <1>14 DEF Next, WaitStep, Platform, Cancel

\* Only Receive sets a returned or failed outcome, from an answer AnswerInv vouches for, and
\* the platform never takes back what the answer said.
LEMMA OutcomeStep ==
    TypeOK /\ AnswerInv /\ OutcomeMatchesOperation /\ [Next]_vars =>
        OutcomeMatchesOperation'
<1> SUFFICES ASSUME TypeOK, AnswerInv, OutcomeMatchesOperation, [Next]_vars
             PROVE  OutcomeMatchesOperation'
    OBVIOUS
<1> USE DEF TypeOK, AnswerInv, OutcomeMatchesOperation, opVars, waitVars
<1>1. CASE StartWait BY <1>1 DEF StartWait
<1>2. CASE Poll BY <1>2 DEF Poll, Finish
<1>3. CASE NextPhase BY <1>3 DEF NextPhase
<1>4. CASE ServerAnswers BY <1>4 DEF ServerAnswers
<1>5. CASE TransportError BY <1>5 DEF TransportError, Finish
<1>6. CASE Receive BY <1>6 DEF Receive, Finish, Verdict, Replies, DoneStates, ActiveStates
<1>7. CASE Wake BY <1>7 DEF Wake
<1>8. CASE CancelGet BY <1>8 DEF CancelGet
<1>9. CASE CancelPut BY <1>9 DEF CancelPut
<1>10. CASE OpStart BY <1>10 DEF OpStart
<1>11. CASE OpFinish BY <1>11 DEF OpFinish
<1>12. CASE OpDelete BY <1>12 DEF OpDelete
<1>13. CASE Tick BY <1>13 DEF Tick
<1>14. CASE UNCHANGED vars BY <1>14 DEF vars
<1> QED
    BY <1>1, <1>2, <1>3, <1>4, <1>5, <1>6, <1>7, <1>8, <1>9, <1>10, <1>11, <1>12,
       <1>13, <1>14 DEF Next, WaitStep, Platform, Cancel

\* A timeout is set at the loop's head or after a poll, both with the clock past the
\* deadline; FreshInv bounds how late the last look was.
LEMMA TimeoutStep ==
    TypeOK /\ AnswerInv /\ ClockInv /\ FreshInv /\ TimeoutIsJustified /\ [Next]_vars =>
        TimeoutIsJustified'
<1> SUFFICES ASSUME TypeOK, AnswerInv, ClockInv, FreshInv, TimeoutIsJustified, [Next]_vars
             PROVE  TimeoutIsJustified'
    OBVIOUS
<1> MaxRequest \in Nat
    BY OperationWaitAssumption DEF MaxRequest
<1> USE OperationWaitAssumption DEF TypeOK, TimeoutIsJustified, Never, opVars, waitVars,
        MaxRequest
<1>1. CASE StartWait BY <1>1 DEF StartWait, AnswerInv
<1>2. CASE Poll BY <1>2 DEF Poll, Finish, Expired, FreshInv
<1>3. CASE NextPhase BY <1>3 DEF NextPhase
<1>4. CASE ServerAnswers BY <1>4 DEF ServerAnswers
<1>5. CASE TransportError BY <1>5 DEF TransportError, Finish
<1>6. CASE Receive
    <2>1. CASE outcome' # "timeout"
        BY <2>1
    <2>2. CASE outcome' = "timeout"
        <3>1. (Verdict(reply) = "none" /\ Expired(now)) \/ outcome = "timeout"
            BY <1>6, <2>2 DEF Receive, Finish, Verdict
        <3>2. CASE outcome = "timeout" BY <1>6, <3>2 DEF Receive, Finish, AnswerInv
        <3>3. CASE Verdict(reply) = "none" /\ Expired(now)
            <4>1. reply \in ActiveStates
                BY <1>6, <3>3 DEF Receive, Verdict, Replies, DoneStates
            <4>2. /\ now <= sentAt + phase * RequestTimeout
                  /\ phase * RequestTimeout \in Nat
                  /\ phase * RequestTimeout <= MaxRequest
                  /\ sentAt \in Nat
                BY <1>6, PhaseTime DEF Receive, ClockInv
            <4> QED
                BY <1>6, <3>3, <4>1, <4>2 DEF Receive, Finish, Expired, FreshInv
        <3> QED BY <3>1, <3>2, <3>3
    <2> QED BY <2>1, <2>2
<1>7. CASE Wake BY <1>7 DEF Wake
<1>8. CASE CancelGet BY <1>8 DEF CancelGet
<1>9. CASE CancelPut BY <1>9 DEF CancelPut
<1>10. CASE OpStart BY <1>10 DEF OpStart
<1>11. CASE OpFinish BY <1>11 DEF OpFinish, AnswerInv, DoneStates
<1>12. CASE OpDelete BY <1>12 DEF OpDelete
<1>13. CASE Tick BY <1>13 DEF Tick
<1>14. CASE UNCHANGED vars BY <1>14 DEF vars
<1> QED
    BY <1>1, <1>2, <1>3, <1>4, <1>5, <1>6, <1>7, <1>8, <1>9, <1>10, <1>11, <1>12,
       <1>13, <1>14 DEF Next, WaitStep, Platform, Cancel

\* cancelOperation reads a done status only when doneAt was set.
LEMMA RefusalStep ==
    TypeOK /\ AnswerInv /\ RefusalIsJustified /\ [Next]_vars => RefusalIsJustified'
<1> SUFFICES ASSUME TypeOK, AnswerInv, RefusalIsJustified, [Next]_vars
             PROVE  RefusalIsJustified'
    OBVIOUS
<1> USE DEF TypeOK, RefusalIsJustified, Never, opVars, waitVars
<1>1. CASE StartWait BY <1>1 DEF StartWait
<1>2. CASE Poll BY <1>2 DEF Poll, Finish
<1>3. CASE NextPhase BY <1>3 DEF NextPhase
<1>4. CASE ServerAnswers BY <1>4 DEF ServerAnswers
<1>5. CASE TransportError BY <1>5 DEF TransportError, Finish
<1>6. CASE Receive BY <1>6 DEF Receive, Finish
<1>7. CASE Wake BY <1>7 DEF Wake
<1>8. CASE CancelGet BY <1>8 DEF CancelGet, Terminal, AnswerInv
<1>9. CASE CancelPut BY <1>9 DEF CancelPut
<1>10. CASE OpStart BY <1>10 DEF OpStart
<1>11. CASE OpFinish BY <1>11 DEF OpFinish
<1>12. CASE OpDelete BY <1>12 DEF OpDelete
<1>13. CASE Tick BY <1>13 DEF Tick
<1>14. CASE UNCHANGED vars BY <1>14 DEF vars
<1> QED
    BY <1>1, <1>2, <1>3, <1>4, <1>5, <1>6, <1>7, <1>8, <1>9, <1>10, <1>11, <1>12,
       <1>13, <1>14 DEF Next, WaitStep, Platform, Cancel

------------------------------------------------------------------------------
(* The invariant, and what follows from it. *)

\* The inductive invariant: types, answers, clock and freshness together with the properties
\* they carry hold in every reachable state.
THEOREM Invariance == Spec => []IInv
<1>1. Init => IInv
    <2> SUFFICES ASSUME Init PROVE IInv
        OBVIOUS
    <2> USE DEF Init, DoneStates, ActiveStates, Never
    <2>1. TypeOK
        <3>1. gone \in BOOLEAN /\ cancelled \in BOOLEAN
            OBVIOUS
        <3> QED
            BY <3>1, OperationWaitAssumption DEF TypeOK, Replies
    <2>2. AnswerInv /\ ClockInv /\ FreshInv
        BY DEF AnswerInv, ClockInv, FreshInv
    <2>3. OutcomeMatchesOperation /\ TimeoutIsJustified /\ RefusalIsJustified
        BY DEF OutcomeMatchesOperation, TimeoutIsJustified, RefusalIsJustified
    <2> QED BY <2>1, <2>2, <2>3 DEF IInv
<1>2. IInv /\ [Next]_vars => IInv'
    BY TypeStep, AnswerStep, ClockStep, FreshStep, OutcomeStep, TimeoutStep, RefusalStep
    DEF IInv
<1> QED
    BY <1>1, <1>2, PTL DEF Spec

\* Every variable stays in its set, for every value of the constants.
THEOREM TypeCorrect == Spec => []TypeOK
BY Invariance, PTL DEF IInv

\* A wait returns only for an operation that succeeded or is gone, and reports a failure
\* only for one that failed.
THEOREM OutcomeCorrect == Spec => []OutcomeMatchesOperation
BY Invariance, PTL DEF IInv

\* TimeoutError comes after the deadline, and misses a finish by one poll and sleep at most.
THEOREM TimeoutCorrect == Spec => []TimeoutIsJustified
BY Invariance, PTL DEF IInv

\* The wait never outlives its deadline by more than one request, and never sleeps past it.
THEOREM WaitIsBounded == Spec => []BoundedWait
<1>1. IInv => BoundedWait
    <2> SUFFICES ASSUME IInv PROVE BoundedWait
        OBVIOUS
    <2>1. ASSUME pc = "requesting" PROVE now <= deadline + Phases * RequestTimeout
        <3>1. /\ now <= phaseEnd /\ sentAt < deadline
              /\ phaseEnd <= sentAt + phase * RequestTimeout
              /\ phase \in 1..Phases
            BY <2>1 DEF IInv, ClockInv
        <3>2. /\ phase * RequestTimeout \in Nat
              /\ phase * RequestTimeout <= Phases * RequestTimeout
              /\ Phases * RequestTimeout \in Nat
            BY <3>1, PhaseTime DEF MaxRequest
        <3> QED BY <2>1, <3>1, <3>2 DEF IInv, TypeOK, ClockInv
    <2>2. ASSUME pc = "sleeping" PROVE now <= deadline
        BY <2>2 DEF IInv, ClockInv, TypeOK
    <2> QED BY <2>1, <2>2 DEF BoundedWait
<1> QED
    BY <1>1, Invariance, PTL

\* cancelOperation refuses only a finished operation.
THEOREM RefusalCorrect == Spec => []RefusalIsJustified
BY Invariance, PTL DEF IInv

------------------------------------------------------------------------------
(* The polling loop implements the abstract resolution of an operation. *)

\* Every step of the loop, the platform, the canceller or the clock is a step of the
\* abstract resolution or leaves it alone: the call settles once, on an outcome the
\* operation's state justifies.
THEOREM Refinement == Spec => Resolution!SafetySpec
<1>1. Init => Resolution!Init
    BY DEF Init, Resolution!Init
<1>2. IInv /\ [Next]_vars => [Resolution!Next]_(Resolution!vars)
    <2> SUFFICES ASSUME IInv, [Next]_vars
                 PROVE  [Resolution!Next]_(Resolution!vars)
        OBVIOUS
    <2> USE DEF Resolution!Next, Resolution!vars, opVars, waitVars
    <2> USE DEF Resolution!Settle, Resolution!Permitted, Resolution!Work
    <2>1. CASE StartWait BY <2>1 DEF StartWait
    <2>2. CASE Poll BY <2>2 DEF Poll, Finish, IInv, AnswerInv
    <2>3. CASE NextPhase BY <2>3 DEF NextPhase
    <2>4. CASE ServerAnswers BY <2>4 DEF ServerAnswers
    <2>5. CASE TransportError BY <2>5 DEF TransportError, Finish, IInv, AnswerInv
    <2>6. CASE Receive
        <3>1. CASE Verdict(reply) # "none"
            BY <2>6, <3>1
            DEF Receive, Finish, Verdict, IInv, AnswerInv
        <3>2. CASE Verdict(reply) = "none"
            BY <2>6, <3>2 DEF Receive, Finish, IInv, AnswerInv
        <3> QED BY <3>1, <3>2
    <2>7. CASE Wake BY <2>7 DEF Wake
    <2>8. CASE CancelGet BY <2>8 DEF CancelGet
    <2>9. CASE CancelPut BY <2>9 DEF CancelPut
    <2>10. CASE OpStart BY <2>10 DEF OpStart
    <2>11. CASE OpFinish BY <2>11 DEF OpFinish, DoneStates
    <2>12. CASE OpDelete BY <2>12 DEF OpDelete
    <2>13. CASE Tick BY <2>13 DEF Tick
    <2>14. CASE UNCHANGED vars BY <2>14 DEF vars
    <2> QED
        BY <2>1, <2>2, <2>3, <2>4, <2>5, <2>6, <2>7, <2>8, <2>9, <2>10, <2>11, <2>12,
           <2>13, <2>14 DEF Next, WaitStep, Platform, Cancel
<1> QED
    BY <1>1, <1>2, Invariance, PTL DEF Spec, Resolution!SafetySpec

------------------------------------------------------------------------------
(* The tools that provision. *)

------------------------------------------------------------------------------
(* The plans of the tools. *)

\* A plan has steps of known sorts; only the first step of a creator registers, and only
\* the last of run_command reads logs.
StepsKnown(p, t) ==
    /\ Len(p) \in Nat \ {0}
    /\ \A i \in 1..Len(p) : p[i] \in Kinds \cup {"register", "wait", "refetch", "logs"}
    /\ \A i \in 1..Len(p) : p[i] = "register" <=> i = 1 /\ t \in Creators
    /\ \A i \in 1..Len(p) : p[i] = "logs" => t = "run"
    /\ t = "run" => Len(p) = 3 /\ p[1] = "execute" /\ p[2] = "wait" /\ p[3] = "logs"

\* Every operation is waited for in the next step, and nothing else is.
StepsWaited(p) ==
    /\ \A i \in 1..Len(p) : p[i] \in Kinds => i + 1 \in 1..Len(p) /\ p[i + 1] = "wait"
    /\ \A i \in 1..Len(p) : p[i] = "wait" => i - 1 \in 1..Len(p) /\ p[i - 1] \in Kinds

\* No kind of operation is started twice.
StepsOnce(p) ==
    \A i, j \in 1..Len(p) : p[i] \in Kinds /\ p[i] = p[j] => i = j

\* A deploy comes after the configuration, and what deletes deprovisions.
StepsOrdered(p, t) ==
    /\ \A i \in 1..Len(p) : p[i] = "deploy" => \E j \in 1..i - 1 : p[j] = "configure"
    /\ t \in {"delete", "deprovision"} => \E i \in 1..Len(p) : p[i] = "deprovision"

WellPlanned(p, t) ==
    StepsKnown(p, t) /\ StepsWaited(p) /\ StepsOnce(p) /\ StepsOrdered(p, t)

------------------------------------------------------------------------------
(* The invariant. *)

\* A call has done nothing before it begins.
IdleOK(c) ==
    /\ stage[c] = "idle" => at[c] = 1 /\ subject[c] = NoResource
    /\ stage[c] = "idle" \/ (stage[c] = "active" /\ at[c] = 1) =>
          /\ \A k \in Kinds : op[c][k] = "none"
          /\ c \notin live \cup removed
          /\ opFailure[c] = "none"
    /\ ending[c] # "none" => stage[c] = "over"

\* What a call has asked for are operations of the first n - 1 steps of its plan.
AskedBy(c, n) ==
    \A k \in Kinds : op[c][k] # "none" => \E j \in 1..n - 1 : Plan(tool[c])[j] = k

\* The operations of the first n - 1 steps are done; run_command may have gone on from one
\* that is not.
DoneBy(c, n) ==
    \A j \in 1..n - 1 : Plan(tool[c])[j] \in Kinds =>
        Done(c, Plan(tool[c])[j]) \/ (tool[c] = "run" /\ opFailure[c] # "none")

\* An active call has asked for the operations of the steps behind it only, and all but
\* the one it waits for are done.
AskedOK(c) ==
    stage[c] = "active" =>
        /\ AskedBy(c, at[c])
        /\ Plan(tool[c])[at[c]] = "wait" => DoneBy(c, at[c] - 1)
        /\ Plan(tool[c])[at[c]] # "wait" => DoneBy(c, at[c])

\* No two operations of a call are under way at once.
OneRuns(c) ==
    subject[c] \notin removed =>
        \A k, l \in Kinds : op[c][k] = "running" /\ op[c][l] = "running" => k = l

\* A configuration is in place before its image is deployed, and a resource whose
\* deprovision succeeded is gone.
OrderOK(c) ==
    /\ op[c]["deploy"] # "none" => Done(c, "configure")
    /\ op[c]["deprovision"] = "succeeded" => subject[c] \in removed

\* A call that returned has left no operation of its plan undone.
EndedOK(c) ==
    ending[c] = "returned" =>
        \A i \in 1..Len(Plan(tool[c])) :
            Plan(tool[c])[i] \in Kinds => Done(c, Plan(tool[c])[i])

\* Operations are asked for only once the call has a resource, one that exists or existed.
SubjectSet(c) ==
    /\ \A k \in Kinds : op[c][k] # "none" => subject[c] # NoResource
    /\ subject[c] # NoResource => subject[c] \in live \cup removed

CallInOrder(c) ==
    IdleOK(c) /\ SubjectSet(c) /\ AskedOK(c) /\ OneRuns(c) /\ OrderOK(c) /\ EndedOK(c)

ProvisioningInv ==
    /\ ProvisioningTypeOK
    /\ live \cap removed = {}
    /\ \A c \in Calls : CallInOrder(c)

------------------------------------------------------------------------------
(* Every plan is well made. *)

\* The plans of the tools, one by one.
LEMMA PlansAreWell == ASSUME NEW t \in Tools PROVE WellPlanned(Plan(t), t)
<1>1. CASE t = "createApp"
  <2>1. Plan(t) = <<"register">>
    BY <1>1 DEF Plan
  <2>2. /\ Len(Plan(t)) = 1
        /\ Plan(t)[1] = "register"
    BY <2>1
  <2>3. \A i \in 1..1 : i = 1
    OBVIOUS
  <2> QED
    BY <1>1, <2>2, <2>3
       DEF WellPlanned, StepsKnown, StepsWaited, StepsOnce, StepsOrdered, Kinds, Creators
<1>2. CASE t = "createAppFromImage"
  <2>1. Plan(t) = <<"register", "configure", "wait", "deploy", "wait", "refetch">>
    BY <1>2 DEF Plan, CreateFromImage
  <2>2. /\ Len(Plan(t)) = 6
        /\ Plan(t)[1] = "register" /\ Plan(t)[2] = "configure" /\ Plan(t)[3] = "wait"
        /\ Plan(t)[4] = "deploy" /\ Plan(t)[5] = "wait" /\ Plan(t)[6] = "refetch"
    BY <2>1
  <2>3. \A i \in 1..6 : i = 1 \/ i = 2 \/ i = 3 \/ i = 4 \/ i = 5 \/ i = 6
    OBVIOUS
  <2>4. StepsKnown(Plan(t), t)
    BY <1>2, <2>2, <2>3 DEF StepsKnown, Kinds, Creators
  <2>5. StepsWaited(Plan(t))
    BY <2>2, <2>3 DEF StepsWaited, Kinds
  <2>6. StepsOnce(Plan(t))
    BY <2>2, <2>3 DEF StepsOnce, Kinds
  <2>7. StepsOrdered(Plan(t), t)
    BY <1>2, <2>2, <2>3 DEF StepsOrdered
  <2> QED
    BY <2>4, <2>5, <2>6, <2>7 DEF WellPlanned
<1>3. CASE t = "createVhost"
  <2>1. Plan(t) = <<"register", "provision", "wait">>
    BY <1>3 DEF Plan, CreateDefault
  <2>2. /\ Len(Plan(t)) = 3
        /\ Plan(t)[1] = "register" /\ Plan(t)[2] = "provision" /\ Plan(t)[3] = "wait"
    BY <2>1
  <2>3. \A i \in 1..3 : i = 1 \/ i = 2 \/ i = 3
    OBVIOUS
  <2>4. StepsKnown(Plan(t), t)
    BY <1>3, <2>2, <2>3 DEF StepsKnown, Kinds, Creators
  <2>5. StepsWaited(Plan(t))
    BY <2>2, <2>3 DEF StepsWaited, Kinds
  <2>6. StepsOnce(Plan(t))
    BY <2>2, <2>3 DEF StepsOnce, Kinds
  <2>7. StepsOrdered(Plan(t), t)
    BY <1>3, <2>2, <2>3 DEF StepsOrdered
  <2> QED
    BY <2>4, <2>5, <2>6, <2>7 DEF WellPlanned
<1>4. CASE t = "createEndpoint"
  <2>1. Plan(t) = <<"register", "provision", "wait", "refetch">>
    BY <1>4 DEF Plan, CreateEndpoint
  <2>2. /\ Len(Plan(t)) = 4
        /\ Plan(t)[1] = "register" /\ Plan(t)[2] = "provision" /\ Plan(t)[3] = "wait"
        /\ Plan(t)[4] = "refetch"
    BY <2>1
  <2>3. \A i \in 1..4 : i = 1 \/ i = 2 \/ i = 3 \/ i = 4
    OBVIOUS
  <2>4. StepsKnown(Plan(t), t)
    BY <1>4, <2>2, <2>3 DEF StepsKnown, Kinds, Creators
  <2>5. StepsWaited(Plan(t))
    BY <2>2, <2>3 DEF StepsWaited, Kinds
  <2>6. StepsOnce(Plan(t))
    BY <2>2, <2>3 DEF StepsOnce, Kinds
  <2>7. StepsOrdered(Plan(t), t)
    BY <1>4, <2>2, <2>3 DEF StepsOrdered
  <2> QED
    BY <2>4, <2>5, <2>6, <2>7 DEF WellPlanned
<1>5. CASE t = "delete"
  <2>1. Plan(t) = <<"refetch", "deprovision", "wait">>
    BY <1>5 DEF Plan, Delete
  <2>2. /\ Len(Plan(t)) = 3
        /\ Plan(t)[1] = "refetch" /\ Plan(t)[2] = "deprovision" /\ Plan(t)[3] = "wait"
    BY <2>1
  <2>3. \A i \in 1..3 : i = 1 \/ i = 2 \/ i = 3
    OBVIOUS
  <2>4. StepsKnown(Plan(t), t)
    BY <1>5, <2>2, <2>3 DEF StepsKnown, Kinds, Creators
  <2>5. StepsWaited(Plan(t))
    BY <2>2, <2>3 DEF StepsWaited, Kinds
  <2>6. StepsOnce(Plan(t))
    BY <2>2, <2>3 DEF StepsOnce, Kinds
  <2>7. StepsOrdered(Plan(t), t)
    BY <1>5, <2>2, <2>3 DEF StepsOrdered
  <2> QED
    BY <2>4, <2>5, <2>6, <2>7 DEF WellPlanned
<1>6. CASE t = "deprovision"
  <2>1. Plan(t) = <<"deprovision", "wait">>
    BY <1>6 DEF Plan, Deprovision
  <2>2. /\ Len(Plan(t)) = 2
        /\ Plan(t)[1] = "deprovision" /\ Plan(t)[2] = "wait"
    BY <2>1
  <2>3. \A i \in 1..2 : i = 1 \/ i = 2
    OBVIOUS
  <2> QED
    BY <1>6, <2>2, <2>3
       DEF WellPlanned, StepsKnown, StepsWaited, StepsOnce, StepsOrdered, Kinds, Creators
<1>7. CASE t = "configure"
  <2>1. Plan(t) = <<"configure", "wait">>
    BY <1>7 DEF Plan, Configure
  <2>2. /\ Len(Plan(t)) = 2
        /\ Plan(t)[1] = "configure" /\ Plan(t)[2] = "wait"
    BY <2>1
  <2>3. \A i \in 1..2 : i = 1 \/ i = 2
    OBVIOUS
  <2> QED
    BY <1>7, <2>2, <2>3
       DEF WellPlanned, StepsKnown, StepsWaited, StepsOnce, StepsOrdered, Kinds, Creators
<1>8. CASE t = "operate"
  <2>1. Plan(t) = <<"operate", "wait", "refetch">>
    BY <1>8 DEF Plan, Operate
  <2>2. /\ Len(Plan(t)) = 3
        /\ Plan(t)[1] = "operate" /\ Plan(t)[2] = "wait" /\ Plan(t)[3] = "refetch"
    BY <2>1
  <2>3. \A i \in 1..3 : i = 1 \/ i = 2 \/ i = 3
    OBVIOUS
  <2>4. StepsKnown(Plan(t), t)
    BY <1>8, <2>2, <2>3 DEF StepsKnown, Kinds, Creators
  <2>5. StepsWaited(Plan(t))
    BY <2>2, <2>3 DEF StepsWaited, Kinds
  <2>6. StepsOnce(Plan(t))
    BY <2>2, <2>3 DEF StepsOnce, Kinds
  <2>7. StepsOrdered(Plan(t), t)
    BY <1>8, <2>2, <2>3 DEF StepsOrdered
  <2> QED
    BY <2>4, <2>5, <2>6, <2>7 DEF WellPlanned
<1>9. CASE t = "run"
  <2>1. Plan(t) = <<"execute", "wait", "logs">>
    BY <1>9 DEF Plan, RunCommand
  <2>2. /\ Len(Plan(t)) = 3
        /\ Plan(t)[1] = "execute" /\ Plan(t)[2] = "wait" /\ Plan(t)[3] = "logs"
    BY <2>1
  <2>3. \A i \in 1..3 : i = 1 \/ i = 2 \/ i = 3
    OBVIOUS
  <2>4. StepsKnown(Plan(t), t)
    BY <1>9, <2>2, <2>3 DEF StepsKnown, Kinds, Creators
  <2>5. StepsWaited(Plan(t))
    BY <2>2, <2>3 DEF StepsWaited, Kinds
  <2>6. StepsOnce(Plan(t))
    BY <2>2, <2>3 DEF StepsOnce, Kinds
  <2>7. StepsOrdered(Plan(t), t)
    BY <1>9, <2>2, <2>3 DEF StepsOrdered
  <2> QED
    BY <2>4, <2>5, <2>6, <2>7 DEF WellPlanned
<1> QED
  BY <1>1, <1>2, <1>3, <1>4, <1>5, <1>6, <1>7, <1>8, <1>9 DEF Tools, Creators

\* What the provers need of a call's plan.
LEMMA PlanOf ==
    ASSUME ProvisioningTypeOK, NEW c \in Calls
    PROVE  /\ tool[c] \in Tools /\ WellPlanned(Plan(tool[c]), tool[c])
           /\ at[c] \in 1..Len(Plan(tool[c])) /\ at[c] \in Nat /\ at[c] + 1 \in Nat
           /\ Len(Plan(tool[c])) \in Nat
<1>1. tool[c] \in Tools
  BY ProvisioningAssumption DEF ProvisioningTypeOK
<1>2. WellPlanned(Plan(tool[c]), tool[c])
  BY <1>1, PlansAreWell
<1>3. Len(Plan(tool[c])) \in Nat /\ at[c] \in 1..Len(Plan(tool[c]))
  BY <1>2 DEF WellPlanned, StepsKnown, ProvisioningTypeOK
<1>4. at[c] \in Nat /\ at[c] + 1 \in Nat
  BY <1>3
<1> QED
  BY <1>1, <1>2, <1>3, <1>4

------------------------------------------------------------------------------
(* Moves of a call. *)

\* Advance goes to the next step, or returns from the last.
LEMMA AdvanceIs ==
    ASSUME ProvisioningTypeOK, NEW c \in Calls, Advance(c)
    PROVE  \/ /\ at[c] = Len(Plan(tool[c])) /\ at' = at
              /\ stage' = [stage EXCEPT ![c] = "over"]
              /\ ending' = [ending EXCEPT ![c] = "returned"]
           \/ /\ at[c] + 1 \in 1..Len(Plan(tool[c]))
              /\ at' = [at EXCEPT ![c] = at[c] + 1]
              /\ stage' = stage /\ ending' = ending
<1>1. at[c] \in 1..Len(Plan(tool[c])) /\ Len(Plan(tool[c])) \in Nat
  BY PlanOf
<1>2. at[c] # Len(Plan(tool[c])) => at[c] + 1 \in 1..Len(Plan(tool[c]))
  BY <1>1
<1> QED
  BY <1>2 DEF Advance, End

\* The moves of a call keep their types.
LEMMA MovesTyped ==
    ASSUME ProvisioningTypeOK, NEW c \in Calls, tool' = tool,
           \/ Advance(c)
           \/ \E how \in {"failed", "timeout", "error", "returned", "failed with output"} :
                 End(c, how)
    PROVE  /\ stage' \in [Calls -> {"idle", "active", "over"}]
           /\ at' \in [Calls -> Nat] /\ \A b \in Calls : at'[b] \in 1..Len(Plan(tool'[b]))
           /\ ending' \in [Calls -> {"none", "returned", "failed", "timeout", "error", "crashed",
                                     "failed with output"}]
<1>1. CASE Advance(c)
  <2>1. at[c] + 1 \in Nat
    BY PlanOf
  <2> QED
    BY <1>1, <2>1, AdvanceIs DEF ProvisioningTypeOK
<1>2. ASSUME NEW how \in {"failed", "timeout", "error", "returned", "failed with output"},
             End(c, how)
      PROVE  /\ stage' \in [Calls -> {"idle", "active", "over"}]
             /\ at' \in [Calls -> Nat] /\ \A b \in Calls : at'[b] \in 1..Len(Plan(tool'[b]))
             /\ ending' \in [Calls -> {"none", "returned", "failed", "timeout", "error",
                                       "crashed", "failed with output"}]
  BY <1>2 DEF End, ProvisioningTypeOK
<1> QED
  BY <1>1, <1>2

\* A call moves, and the others stay where they are.
LEMMA MoveIsOwn ==
    ASSUME ProvisioningTypeOK, NEW c \in Calls, Advance(c) \/ \E how : End(c, how)
    PROVE  \A b \in Calls \ {c} : stage'[b] = stage[b] /\ at'[b] = at[b] /\ ending'[b] = ending[b]
<1>1. CASE Advance(c)
  BY <1>1, AdvanceIs DEF ProvisioningTypeOK
<1>2. ASSUME NEW how, End(c, how)
      PROVE  \A b \in Calls \ {c} :
                 stage'[b] = stage[b] /\ at'[b] = at[b] /\ ending'[b] = ending[b]
  BY <1>2 DEF End, ProvisioningTypeOK
<1> QED
  BY <1>1, <1>2

\* Every operation's state is a function of the call and the kind.
LEMMA OpUpdated ==
    ASSUME ProvisioningTypeOK, NEW c \in Calls, NEW k \in Kinds,
           NEW v \in {"none", "running", "succeeded", "failed"}, op' = [op EXCEPT ![c][k] = v]
    PROVE  /\ op' \in [Calls -> [Kinds -> {"none", "running", "succeeded", "failed"}]]
           /\ op'[c][k] = v
           /\ \A l \in Kinds \ {k} : op'[c][l] = op[c][l]
           /\ \A b \in Calls \ {c} : op'[b] = op[b]
<1>1. op[c] \in [Kinds -> {"none", "running", "succeeded", "failed"}]
  BY DEF ProvisioningTypeOK
<1>2. op' = [op EXCEPT ![c] = [op[c] EXCEPT ![k] = v]]
  OBVIOUS
<1> DEFINE States == {"none", "running", "succeeded", "failed"}
<1>3. [op[c] EXCEPT ![k] = v] \in [Kinds -> States]
  BY <1>1
<1>4. op' \in [Calls -> [Kinds -> States]]
  BY <1>2, <1>3 DEF ProvisioningTypeOK
<1>5. op'[c] = [op[c] EXCEPT ![k] = v] /\ \A b \in Calls \ {c} : op'[b] = op[b]
  BY <1>2 DEF ProvisioningTypeOK
<1>6. op'[c][k] = v /\ \A l \in Kinds \ {k} : op'[c][l] = op[c][l]
  BY <1>1, <1>5
<1> QED
  BY <1>4, <1>5, <1>6

\* Every variable stays in its set.
LEMMA ProvisioningTyped ==
    ASSUME ProvisioningTypeOK, \A c \in Calls : CallInOrder(c), NextProvisioning
    PROVE  ProvisioningTypeOK'
<1> DEFINE States == {"none", "running", "succeeded", "failed"}
<1>1. ASSUME NEW c \in Calls, Start(c) PROVE ProvisioningTypeOK'
  <2>1. subject' \in [Calls -> Resources \cup {NoResource}]
    BY <1>1 DEF Start, ProvisioningTypeOK
  <2> QED
    BY <1>1, <2>1 DEF Start, platform, ProvisioningTypeOK
<1>2. ASSUME NEW c \in Calls, Register(c) PROVE ProvisioningTypeOK'
  <2>1. tool' = tool /\ (Advance(c) \/ End(c, "error"))
    BY <1>2 DEF Register
  <2>2. c \in Resources
    BY DEF Resources
  <2>3. subject' \in [Calls -> Resources \cup {NoResource}] /\ live' \subseteq Resources
    BY <1>2, <2>2 DEF Register, ProvisioningTypeOK
  <2> QED
    BY <1>2, <2>1, <2>3, MovesTyped DEF Register, ProvisioningTypeOK
<1>3. ASSUME NEW c \in Calls, Ask(c) PROVE ProvisioningTypeOK'
  <2>1. PICK k \in Kinds :
          /\ \/ /\ op' = [op EXCEPT ![c][k] = "running"]
                /\ (Advance(c) \/ End(c, "error"))
             \/ UNCHANGED op /\ End(c, "error")
          /\ UNCHANGED <<live, removed, crashes, tool, subject, opFailure>>
    BY <1>3 DEF Ask
  <2>2. op' \in [Calls -> [Kinds -> States]]
    BY <2>1, OpUpdated DEF ProvisioningTypeOK
  <2>3. Advance(c) \/ End(c, "error")
    BY <2>1
  <2>4. tool' = tool
    BY <2>1
  <2> QED
    BY <2>1, <2>2, <2>3, <2>4, MovesTyped DEF ProvisioningTypeOK
<1>4. ASSUME NEW c \in Calls, AwaitEnds(c) PROVE ProvisioningTypeOK'
  <2>1. PICK how \in Awaiting(c)!Permitted :
          \/ /\ MayProceed(how)
             /\ Advance(c)
             /\ UNCHANGED opFailure
          \/ /\ ~MayProceed(how) /\ tool[c] = "run"
             /\ Advance(c)
             /\ opFailure' = [opFailure EXCEPT ![c] = how]
          \/ /\ ~MayProceed(how) /\ tool[c] # "run"
             /\ End(c, how)
             /\ UNCHANGED opFailure
    BY <1>4 DEF AwaitEnds
  <2>2. how \in {"returned", "failed", "timeout", "error"}
    BY DEF Awaiting!Permitted
  <2>3. opFailure' \in [Calls -> {"none", "failed", "timeout", "error"}]
    BY <2>1, <2>2 DEF MayProceed, ProvisioningTypeOK
  <2>4. tool' = tool /\ (Advance(c) \/ End(c, how))
    BY <1>4, <2>1 DEF AwaitEnds
  <2> QED
    BY <1>4, <2>2, <2>3, <2>4, MovesTyped DEF AwaitEnds, platform, ProvisioningTypeOK
<1>5. ASSUME NEW c \in Calls, Refetch(c) PROVE ProvisioningTypeOK'
  <2>1. tool' = tool /\ (Advance(c) \/ End(c, "error"))
    BY <1>5 DEF Refetch
  <2> QED
    BY <1>5, <2>1, MovesTyped DEF Refetch, platform, ProvisioningTypeOK
<1>6. ASSUME NEW c \in Calls, Logs(c) PROVE ProvisioningTypeOK'
  <2>1. tool' = tool
        /\ \E how \in {"returned", "failed with output", "error"} : End(c, how)
    BY <1>6 DEF Logs
  <2> QED
    BY <1>6, <2>1, MovesTyped DEF Logs, platform, ProvisioningTypeOK
<1>7. ASSUME NEW c \in Calls, NEW k \in Kinds, OpEnds(c, k) PROVE ProvisioningTypeOK'
  <2>1. op' \in [Calls -> [Kinds -> States]]
    BY <1>7, OpUpdated DEF OpEnds
  <2>2. ASSUME subject[c] = NoResource PROVE FALSE
    <3>1. op[c][k] = "running"
      BY <1>7 DEF OpEnds
    <3> QED
      BY <2>2, <3>1 DEF CallInOrder, SubjectSet
  <2>3. live' \subseteq Resources /\ removed' \subseteq Resources
    <3>1. subject[c] \in Resources
      BY <2>2 DEF ProvisioningTypeOK
    <3>2. live' \subseteq live /\ removed' \subseteq removed \cup {subject[c]}
      BY <1>7 DEF OpEnds
    <3> QED
      BY <3>1, <3>2 DEF ProvisioningTypeOK
  <2> QED
    BY <1>7, <2>1, <2>3 DEF OpEnds, ProvisioningTypeOK
<1>8. CASE Crash
  <2>1. crashes' \in 0..MaxCrashes
    <3>1. crashes \in 0..MaxCrashes /\ MaxCrashes \in Nat
      BY ProvisioningAssumption DEF ProvisioningTypeOK
    <3>2. crashes < MaxCrashes /\ crashes' = crashes + 1
      BY <1>8 DEF Crash
    <3> QED
      BY <3>1, <3>2
  <2>2. stage' \in [Calls -> {"idle", "active", "over"}]
        /\ ending' \in [Calls -> {"none", "returned", "failed", "timeout", "error", "crashed",
                                  "failed with output"}]
    BY <1>8 DEF Crash, ProvisioningTypeOK
  <2> QED
    BY <1>8, <2>1, <2>2 DEF Crash, platform, ProvisioningTypeOK
<1> QED
  BY <1>1, <1>2, <1>3, <1>4, <1>5, <1>6, <1>7, <1>8 DEF NextProvisioning, Step

------------------------------------------------------------------------------
(* What a step leaves of the calls. *)

\* A call that is as it was.
SameCall(b) ==
    /\ stage'[b] = stage[b] /\ at'[b] = at[b] /\ ending'[b] = ending[b]
    /\ subject'[b] = subject[b] /\ opFailure'[b] = opFailure[b] /\ op'[b] = op[b]

\* A call that is as it was stays in order.
LEMMA SameCallKept ==
    ASSUME NEW b \in Calls, CallInOrder(b), SameCall(b), tool' = tool,
           removed \subseteq removed', live \cup removed \subseteq live' \cup removed',
           b \in live' \cup removed' => b \in live \cup removed
    PROVE  CallInOrder(b)'
<1> USE DEF SameCall
<1>1. \A k \in Kinds : Done(b, k) => Done(b, k)'
  BY DEF Done
<1>2. IdleOK(b)'
  BY DEF CallInOrder, IdleOK
<1>3. SubjectSet(b)' /\ OneRuns(b)'
  BY DEF CallInOrder, SubjectSet, OneRuns
<1>4. AskedOK(b)'
  BY <1>1 DEF CallInOrder, AskedOK, AskedBy, DoneBy
<1>5. OrderOK(b)'
  BY DEF CallInOrder, OrderOK, Done
<1>6. EndedOK(b)'
  BY <1>1 DEF CallInOrder, EndedOK
<1> QED
  BY <1>2, <1>3, <1>4, <1>5, <1>6 DEF CallInOrder

\* AskedBy and DoneBy after a step.
AskedThen(c, n) ==
    \A k \in Kinds : op'[c][k] # "none" => \E j \in 1..n - 1 : Plan(tool[c])[j] = k

DoneThen(c, n) ==
    \A j \in 1..n - 1 : Plan(tool[c])[j] \in Kinds =>
        \/ op'[c][Plan(tool[c])[j]] = "succeeded" \/ subject'[c] \in removed'
        \/ tool[c] = "run" /\ opFailure'[c] # "none"

\* A call that advances stays in order, if what it leaves behind is done.
LEMMA AdvanceKept ==
    ASSUME ProvisioningTypeOK, NEW c \in Calls, CallInOrder(c), stage[c] = "active",
           tool' = tool, Advance(c), AskedThen(c, at[c] + 1),
           Plan(tool[c])[at[c]] \in Kinds => DoneThen(c, at[c]),
           Plan(tool[c])[at[c]] \notin Kinds => DoneThen(c, at[c] + 1),
           Plan(tool[c])[at[c]] # "logs"
    PROVE  IdleOK(c)' /\ AskedOK(c)' /\ EndedOK(c)'
<1> DEFINE p == Plan(tool[c])
           n == at[c]
<1>1. WellPlanned(p, tool[c]) /\ n \in 1..Len(p) /\ Len(p) \in Nat /\ n \in Nat
  BY PlanOf
<1>2. ending[c] = "none"
  BY DEF CallInOrder, IdleOK
<1>3. CASE /\ n = Len(p) /\ at' = at
           /\ stage' = [stage EXCEPT ![c] = "over"]
           /\ ending' = [ending EXCEPT ![c] = "returned"]
  <2>1. stage'[c] = "over" /\ ending'[c] = "returned"
    BY <1>3 DEF ProvisioningTypeOK
  <2>2. p[n] \notin Kinds
    <3>1. p[n] \in Kinds => n + 1 \in 1..Len(p)
      BY <1>1 DEF WellPlanned, StepsWaited
    <3>2. n + 1 \notin 1..Len(p)
      BY <1>1, <1>3
    <3> QED
      BY <3>1, <3>2
  <2>3. tool[c] # "run"
    BY <1>1, <1>3 DEF WellPlanned, StepsKnown
  <2>4. \A i \in 1..Len(p) : i \in 1..(n + 1) - 1
    BY <1>1, <1>3
  <2>5. DoneThen(c, n + 1)
    BY <2>2
  <2>6. \A i \in 1..Len(p) : p[i] \in Kinds =>
            op'[c][p[i]] = "succeeded" \/ subject'[c] \in removed'
    BY <2>3, <2>4, <2>5 DEF DoneThen
  <2>7. EndedOK(c)'
    BY <2>6 DEF EndedOK, Done
  <2> QED
    BY <2>1, <2>7 DEF IdleOK, AskedOK
<1>4. CASE /\ n + 1 \in 1..Len(p)
           /\ at' = [at EXCEPT ![c] = n + 1]
           /\ stage' = stage /\ ending' = ending
  <2>1. at'[c] = n + 1 /\ stage'[c] = "active" /\ ending'[c] = "none" /\ n + 1 # 1
    <3>1. n + 1 # 1
      BY <1>1
    <3>2. at'[c] = n + 1
      BY <1>4 DEF ProvisioningTypeOK
    <3> QED
      BY <1>2, <1>4, <3>1, <3>2
  <2>2. p[n + 1] = "wait" <=> p[n] \in Kinds
    <3>1. p[n] \in Kinds => p[n + 1] = "wait"
      BY <1>1 DEF WellPlanned, StepsWaited
    <3>2. p[n + 1] = "wait" => p[(n + 1) - 1] \in Kinds
      BY <1>1, <1>4 DEF WellPlanned, StepsWaited
    <3>3. (n + 1) - 1 = n
      BY <1>1
    <3> QED
      BY <3>1, <3>2, <3>3
  <2>3. AskedBy(c, at[c])'
    BY <2>1 DEF AskedThen, AskedBy
  <2>4. p[n] \in Kinds => DoneBy(c, at[c] - 1)'
    <3>1. (n + 1) - 1 = n
      BY <1>1
    <3> QED
      BY <2>1, <3>1 DEF DoneThen, DoneBy, Done
  <2>5. p[n] \notin Kinds => DoneBy(c, at[c])'
    BY <2>1 DEF DoneThen, DoneBy, Done
  <2>6. AskedOK(c)'
    BY <2>1, <2>2, <2>3, <2>4, <2>5 DEF AskedOK
  <2> QED
    BY <2>1, <2>6 DEF IdleOK, EndedOK
<1> QED
  BY <1>3, <1>4, AdvanceIs

\* A call that ends short of returning has nothing more to keep.
LEMMA EndKept ==
    ASSUME ProvisioningTypeOK, NEW c \in Calls, NEW how, how # "returned", End(c, how)
    PROVE  IdleOK(c)' /\ AskedOK(c)' /\ EndedOK(c)'
<1>1. stage'[c] = "over" /\ ending'[c] = how
  BY DEF End, ProvisioningTypeOK
<1> QED
  BY <1>1 DEF IdleOK, AskedOK, EndedOK

------------------------------------------------------------------------------
(* Every step keeps every call in order. *)

\* What a step of a call leaves alone.
LEMMA StepFrame ==
    ASSUME ProvisioningTypeOK, NEW c \in Calls, Step(c)
    PROVE  /\ stage[c] = "active" /\ tool' = tool /\ removed' = removed
           /\ \A b \in Calls \ {c} : SameCall(b)
           /\ live' = live \/ (Register(c) /\ live' = live \cup {c})
<1>1. CASE Register(c)
  <2>1. Advance(c) \/ \E how : End(c, how)
    BY <1>1 DEF Register
  <2>2. \A b \in Calls \ {c} : subject'[b] = subject[b]
    BY <1>1 DEF Register, ProvisioningTypeOK
  <2> QED
    BY <1>1, <2>1, <2>2, MoveIsOwn DEF Register, At, SameCall
<1>2. CASE Ask(c)
  <2>1. PICK k \in Kinds :
          /\ At(c, k)
          /\ \/ /\ op' = [op EXCEPT ![c][k] = "running"]
                /\ (Advance(c) \/ End(c, "error"))
             \/ UNCHANGED op /\ End(c, "error")
          /\ UNCHANGED <<live, removed, crashes, tool, subject, opFailure>>
    BY <1>2 DEF Ask
  <2>2. Advance(c) \/ \E how : End(c, how)
    BY <2>1
  <2>3. \A b \in Calls \ {c} : op'[b] = op[b]
    BY <2>1, OpUpdated
  <2> QED
    BY <2>1, <2>2, <2>3, MoveIsOwn DEF At, SameCall
<1>3. CASE AwaitEnds(c)
  <2>1. Advance(c) \/ \E how : End(c, how)
    BY <1>3 DEF AwaitEnds
  <2>2. opFailure' = opFailure \/ \E how : opFailure' = [opFailure EXCEPT ![c] = how]
    BY <1>3 DEF AwaitEnds
  <2>3. \A b \in Calls \ {c} : opFailure'[b] = opFailure[b]
    BY <2>2 DEF ProvisioningTypeOK
  <2> QED
    BY <1>3, <2>1, <2>3, MoveIsOwn DEF AwaitEnds, platform, At, SameCall
<1>4. CASE Refetch(c)
  <2>1. Advance(c) \/ \E how : End(c, how)
    BY <1>4 DEF Refetch
  <2> QED
    BY <1>4, <2>1, MoveIsOwn DEF Refetch, platform, At, SameCall
<1>5. CASE Logs(c)
  <2>1. Advance(c) \/ \E how : End(c, how)
    BY <1>5 DEF Logs
  <2> QED
    BY <1>5, <2>1, MoveIsOwn DEF Logs, platform, At, SameCall
<1> QED
  BY <1>1, <1>2, <1>3, <1>4, <1>5 DEF Step

\* The registration of a new resource keeps its call in order.
LEMMA RegisterKept ==
    ASSUME ProvisioningTypeOK, NEW c \in Calls, CallInOrder(c), Register(c)
    PROVE  CallInOrder(c)'
<1> DEFINE p == Plan(tool[c])
<1>1. WellPlanned(p, tool[c]) /\ at[c] \in 1..Len(p)
  BY PlanOf
<1>2. stage[c] = "active" /\ p[at[c]] = "register" /\ at[c] = 1
  BY <1>1 DEF Register, At, WellPlanned, StepsKnown
<1>3. op' = op /\ opFailure' = opFailure /\ tool' = tool /\ \A k \in Kinds : op[c][k] = "none"
  BY <1>2 DEF Register, CallInOrder, IdleOK
<1>4. OneRuns(c)' /\ OrderOK(c)'
  BY <1>3 DEF OneRuns, OrderOK, Kinds
<1>0. SubjectSet(c)'
  <2>1. \/ subject' = subject /\ live \subseteq live' /\ removed' = removed
        \/ subject'[c] = c /\ c \in live'
    BY DEF Register, ProvisioningTypeOK
  <2> QED
    BY <1>3, <2>1 DEF CallInOrder, SubjectSet
<1>5. CASE Advance(c)
  <2>1. \A j : j \in 1..(at[c] + 1) - 1 => j = at[c]
    BY <1>2
  <2>2. p[at[c]] \notin Kinds /\ p[at[c]] # "logs"
    BY <1>2 DEF Kinds
  <2>3. AskedThen(c, at[c] + 1) /\ DoneThen(c, at[c] + 1)
    BY <1>3, <2>1, <2>2 DEF AskedThen, DoneThen
  <2> QED
    BY <1>0, <1>2, <1>3, <1>4, <1>5, <2>2, <2>3, AdvanceKept DEF CallInOrder
<1>6. CASE End(c, "error")
  BY <1>0, <1>4, <1>6, EndKept DEF CallInOrder
<1> QED
  BY <1>5, <1>6 DEF Register

\* The request of an operation keeps its call in order.
LEMMA AskKept ==
    ASSUME ProvisioningTypeOK, live \cap removed = {}, NEW c \in Calls, CallInOrder(c), Ask(c)
    PROVE  CallInOrder(c)'
<1> DEFINE p == Plan(tool[c])
           n == at[c]
<1>1. WellPlanned(p, tool[c]) /\ n \in 1..Len(p) /\ n \in Nat /\ Len(p) \in Nat
  BY PlanOf
<1>2. PICK k \in Kinds :
        /\ stage[c] = "active" /\ p[n] = k
        /\ \/ /\ subject[c] \in live
              /\ op' = [op EXCEPT ![c][k] = "running"]
              /\ (Advance(c) \/ End(c, "error"))
           \/ UNCHANGED op /\ End(c, "error")
        /\ UNCHANGED <<live, removed, crashes, tool, subject, opFailure>>
  BY DEF Ask, At
<1>3. k # "wait"
  BY DEF Kinds
<1>4. AskedBy(c, n) /\ DoneBy(c, n)
  BY <1>2, <1>3 DEF CallInOrder, AskedOK
<1>5. ASSUME op' = op, End(c, "error") PROVE CallInOrder(c)'
  <2>1. SubjectSet(c)' /\ OneRuns(c)' /\ OrderOK(c)'
    BY <1>2, <1>5 DEF CallInOrder, SubjectSet, OneRuns, OrderOK, Done
  <2> QED
    BY <1>5, <2>1, EndKept DEF CallInOrder
<1>6. ASSUME subject[c] \in live, op' = [op EXCEPT ![c][k] = "running"],
             Advance(c) \/ End(c, "error")
      PROVE  CallInOrder(c)'
  <2>1. op'[c][k] = "running" /\ \A l \in Kinds \ {k} : op'[c][l] = op[c][l]
    BY <1>6, OpUpdated
  <2>2. subject[c] \notin removed /\ subject[c] # NoResource
    BY <1>6, ProvisioningAssumption DEF ProvisioningTypeOK
  <2>3. \A j \in 1..n - 1 : j \in 1..Len(p) /\ j # n
    BY <1>1
  <2>4. \A j \in 1..n - 1 : p[j] # k
    BY <1>1, <1>2, <2>3 DEF WellPlanned, StepsOnce
  <2>5. op[c][k] = "none"
    BY <1>4, <2>4 DEF AskedBy
  <2>6. \A j \in 1..n - 1 : tool[c] # "run"
    <3>1. tool[c] = "run" => n = 1
      BY <1>1, <1>2 DEF WellPlanned, StepsKnown, Kinds
    <3> QED
      BY <1>1, <3>1
  <2>7. \A l \in Kinds : op[c][l] # "none" => op[c][l] = "succeeded"
    BY <1>4, <2>2, <2>6 DEF AskedBy, DoneBy, Done
  <2>8. OneRuns(c)'
    BY <2>1, <2>7 DEF OneRuns
  <2>9. SubjectSet(c)'
    BY <1>2, <1>6, <2>2 DEF SubjectSet
  <2>10. OrderOK(c)'
    <3>1. CASE k = "deploy"
      <4>1. PICK j \in 1..n - 1 : p[j] = "configure"
        BY <1>1, <1>2, <3>1 DEF WellPlanned, StepsOrdered
      <4>2. Done(c, "configure")
        BY <1>4, <2>6, <4>1 DEF DoneBy, Kinds
      <4> QED
        BY <1>2, <2>1, <3>1, <4>2 DEF CallInOrder, OrderOK, Done, Kinds
    <3>2. CASE k # "deploy"
      <4>1. op'[c]["deploy"] = op[c]["deploy"]
        BY <2>1, <3>2 DEF Kinds
      <4>2. Done(c, "configure") => Done(c, "configure")'
        <5>1. CASE k = "configure"
          BY <2>2, <2>5, <5>1 DEF Done
        <5>2. CASE k # "configure"
          BY <1>2, <2>1, <5>2 DEF Done, Kinds
        <5> QED
          BY <5>1, <5>2
      <4>3. op'[c]["deprovision"] = "succeeded" => op[c]["deprovision"] = "succeeded"
        BY <2>1 DEF Kinds
      <4> QED
        BY <1>2, <4>1, <4>2, <4>3 DEF CallInOrder, OrderOK
    <3> QED
      BY <3>1, <3>2
  <2>11. AskedThen(c, n + 1)
    <3>1. \A j \in 1..n - 1 : j \in 1..(n + 1) - 1
      BY <1>1
    <3>2. n \in 1..(n + 1) - 1
      BY <1>1
    <3>3. \A l \in Kinds : op'[c][l] # "none" => l = k \/ op[c][l] # "none"
      BY <2>1
    <3> QED
      BY <1>2, <1>4, <3>1, <3>2, <3>3 DEF AskedBy, AskedThen
  <2>12. DoneThen(c, n)
    BY <1>2, <1>4, <2>1, <2>4 DEF DoneBy, DoneThen, Done
  <2>13. CASE Advance(c)
    <3>1. p[n] \in Kinds /\ p[n] # "logs" /\ stage[c] = "active" /\ tool' = tool
      BY <1>2 DEF Kinds
    <3>2. IdleOK(c)' /\ AskedOK(c)' /\ EndedOK(c)'
      BY <2>11, <2>12, <2>13, <3>1, AdvanceKept
    <3> QED
      BY <2>8, <2>9, <2>10, <3>2 DEF CallInOrder
  <2>14. CASE End(c, "error")
    BY <2>8, <2>9, <2>10, <2>14, EndKept DEF CallInOrder
  <2> QED
    BY <1>6, <2>13, <2>14
<1> QED
  BY <1>2, <1>5, <1>6

\* A step that only moves the call leaves its operations in order.
LEMMA QuietOps ==
    ASSUME NEW c \in Calls, CallInOrder(c), op' = op, subject' = subject, removed' = removed,
           live' = live
    PROVE  SubjectSet(c)' /\ OneRuns(c)' /\ OrderOK(c)'
  BY DEF CallInOrder, SubjectSet, OneRuns, OrderOK, Done

\* The end of a wait keeps its call in order.
LEMMA AwaitKept ==
    ASSUME ProvisioningTypeOK, NEW c \in Calls, CallInOrder(c), AwaitEnds(c)
    PROVE  CallInOrder(c)'
<1> DEFINE p == Plan(tool[c])
           n == at[c]
<1>1. WellPlanned(p, tool[c]) /\ n \in 1..Len(p) /\ n \in Nat /\ Len(p) \in Nat
  BY PlanOf
<1>2. /\ stage[c] = "active" /\ p[n] = "wait"
      /\ op' = op /\ subject' = subject /\ removed' = removed /\ tool' = tool /\ live' = live
  BY DEF AwaitEnds, At, platform
<1>3. AskedBy(c, n) /\ DoneBy(c, n - 1)
  BY <1>2 DEF CallInOrder, AskedOK
<1>4. n - 1 \in 1..Len(p) /\ p[n - 1] \in Kinds
  BY <1>1, <1>2 DEF WellPlanned, StepsWaited
<1>5. SubjectSet(c)' /\ OneRuns(c)' /\ OrderOK(c)'
  BY <1>2, QuietOps
<1>6. PICK how \in Awaiting(c)!Permitted :
          \/ /\ MayProceed(how)
             /\ Advance(c)
             /\ UNCHANGED opFailure
          \/ /\ ~MayProceed(how) /\ tool[c] = "run"
             /\ Advance(c)
             /\ opFailure' = [opFailure EXCEPT ![c] = how]
          \/ /\ ~MayProceed(how) /\ tool[c] # "run"
             /\ End(c, how)
             /\ UNCHANGED opFailure
  BY DEF AwaitEnds
<1>7. how \in {"returned", "failed", "timeout", "error"}
      /\ (how = "returned" => Done(c, p[n - 1]))
  BY DEF Awaiting!Permitted, Awaited, Done
<1>8. CASE ~MayProceed(how) /\ tool[c] # "run" /\ End(c, how)
  BY <1>5, <1>8, EndKept DEF MayProceed, CallInOrder
<1>9. ASSUME Advance(c),
             \/ Done(c, p[n - 1]) /\ opFailure' = opFailure
             \/ tool[c] = "run" /\ opFailure'[c] # "none"
      PROVE  CallInOrder(c)'
  <2>1. p[n] \notin Kinds /\ p[n] # "logs"
    BY <1>2 DEF Kinds
  <2>2. \A j \in 1..n - 1 : j \in 1..(n + 1) - 1
    BY <1>1
  <2>3. AskedThen(c, n + 1)
    BY <1>2, <1>3, <2>2 DEF AskedBy, AskedThen
  <2>4. \A j \in 1..(n + 1) - 1 : j = n \/ j = n - 1 \/ j \in 1..(n - 1) - 1
    BY <1>1
  <2>5. DoneThen(c, n + 1)
    BY <1>2, <1>3, <1>9, <2>1, <2>4 DEF DoneBy, DoneThen, Done
  <2>6. IdleOK(c)' /\ AskedOK(c)' /\ EndedOK(c)'
    BY <1>2, <1>9, <2>1, <2>3, <2>5, AdvanceKept
  <2> QED
    BY <1>5, <2>6 DEF CallInOrder
<1>10. CASE MayProceed(how) /\ Advance(c) /\ opFailure' = opFailure
  BY <1>7, <1>9, <1>10 DEF MayProceed
<1>11. CASE /\ ~MayProceed(how) /\ tool[c] = "run" /\ Advance(c)
            /\ opFailure' = [opFailure EXCEPT ![c] = how]
  <2>1. opFailure'[c] = how
    BY <1>11 DEF ProvisioningTypeOK
  <2> QED
    BY <1>7, <1>9, <1>11, <2>1
<1> QED
  BY <1>6, <1>8, <1>10, <1>11

\* The lookups before and after an operation keep their call in order.
LEMMA RefetchKept ==
    ASSUME ProvisioningTypeOK, NEW c \in Calls, CallInOrder(c), Refetch(c)
    PROVE  CallInOrder(c)'
<1> DEFINE p == Plan(tool[c])
           n == at[c]
<1>1. WellPlanned(p, tool[c]) /\ n \in 1..Len(p) /\ n \in Nat /\ Len(p) \in Nat
  BY PlanOf
<1>2. /\ stage[c] = "active" /\ p[n] = "refetch"
      /\ op' = op /\ subject' = subject /\ removed' = removed /\ tool' = tool /\ live' = live
      /\ opFailure' = opFailure
  BY DEF Refetch, At, platform
<1>3. p[n] \notin Kinds /\ p[n] # "logs" /\ p[n] # "wait"
  BY <1>2 DEF Kinds
<1>4. AskedBy(c, n) /\ DoneBy(c, n)
  BY <1>2, <1>3 DEF CallInOrder, AskedOK
<1>5. SubjectSet(c)' /\ OneRuns(c)' /\ OrderOK(c)'
  BY <1>2, QuietOps
<1>6. CASE Advance(c)
  <2>1. \A j \in 1..n - 1 : j \in 1..(n + 1) - 1
    BY <1>1
  <2>2. \A j \in 1..(n + 1) - 1 : j = n \/ j \in 1..n - 1
    BY <1>1
  <2>3. AskedThen(c, n + 1)
    BY <1>2, <1>4, <2>1 DEF AskedBy, AskedThen
  <2>4. DoneThen(c, n + 1)
    BY <1>2, <1>3, <1>4, <2>2 DEF DoneBy, DoneThen, Done
  <2>5. IdleOK(c)' /\ AskedOK(c)' /\ EndedOK(c)'
    BY <1>2, <1>3, <1>6, <2>3, <2>4, AdvanceKept
  <2> QED
    BY <1>5, <2>5 DEF CallInOrder
<1>7. CASE End(c, "error")
  BY <1>5, <1>7, EndKept DEF CallInOrder
<1> QED
  BY <1>6, <1>7 DEF Refetch

\* Reading the logs keeps run_command in order: it returns only if its wait did.
LEMMA LogsKept ==
    ASSUME ProvisioningTypeOK, NEW c \in Calls, CallInOrder(c), Logs(c)
    PROVE  CallInOrder(c)'
<1> DEFINE p == Plan(tool[c])
           n == at[c]
<1>1. WellPlanned(p, tool[c]) /\ n \in 1..Len(p) /\ n \in Nat /\ Len(p) \in Nat
  BY PlanOf
<1>2. /\ stage[c] = "active" /\ p[n] = "logs"
      /\ op' = op /\ subject' = subject /\ removed' = removed /\ tool' = tool /\ live' = live
  BY DEF Logs, At, platform
<1>3. DoneBy(c, n)
  BY <1>2 DEF CallInOrder, AskedOK
<1>4. SubjectSet(c)' /\ OneRuns(c)' /\ OrderOK(c)'
  BY <1>2, QuietOps
<1>5. CASE End(c, "returned") /\ opFailure[c] = "none"
  <2>1. stage'[c] = "over" /\ ending'[c] = "returned"
    BY <1>5 DEF End, ProvisioningTypeOK
  <2>2. n = Len(p)
    <3>1. tool[c] = "run"
      BY <1>1, <1>2 DEF WellPlanned, StepsKnown
    <3>2. Len(p) = 3 /\ p[1] = "execute" /\ p[2] = "wait"
      BY <1>1, <3>1 DEF WellPlanned, StepsKnown
    <3>3. n = 1 \/ n = 2 \/ n = 3
      BY <1>1, <3>2
    <3> QED
      BY <1>2, <3>2, <3>3
  <2>3. \A i \in 1..Len(p) : i = n \/ i \in 1..n - 1
    BY <1>1, <2>2
  <2>4. p[n] \notin Kinds
    BY <1>2 DEF Kinds
  <2>5. \A i \in 1..Len(p) : p[i] \in Kinds => Done(c, p[i])
    BY <1>3, <1>5, <2>3, <2>4 DEF DoneBy
  <2>6. EndedOK(c)'
    BY <1>2, <2>5 DEF EndedOK, Done
  <2> QED
    BY <1>4, <2>1, <2>6 DEF CallInOrder, IdleOK, AskedOK
<1>6. ASSUME NEW how, how # "returned", End(c, how) PROVE CallInOrder(c)'
  BY <1>4, <1>6, EndKept DEF CallInOrder
<1> QED
  BY <1>5, <1>6 DEF Logs

\* The beginning of a call keeps it in order.
LEMMA StartKept ==
    ASSUME ProvisioningTypeOK, NEW c \in Calls, CallInOrder(c), Start(c)
    PROVE  CallInOrder(c)'
<1>1. /\ stage[c] = "idle" /\ op' = op /\ at' = at /\ ending' = ending /\ tool' = tool
      /\ opFailure' = opFailure /\ live' = live /\ removed' = removed
  BY DEF Start, platform
<1>2. at[c] = 1 /\ ending[c] = "none" /\ opFailure[c] = "none" /\ c \notin live \cup removed
      /\ \A k \in Kinds : op[c][k] = "none"
  BY <1>1 DEF CallInOrder, IdleOK
<1>3. stage'[c] = "active"
  BY DEF Start, ProvisioningTypeOK
<1>4. IdleOK(c)'
  BY <1>1, <1>2, <1>3 DEF IdleOK
<1>7. SubjectSet(c)'
  <2>1. subject'[c] = subject[c] \/ subject'[c] \in live
    BY DEF Start, ProvisioningTypeOK
  <2> QED
    BY <1>1, <1>2, <2>1 DEF CallInOrder, SubjectSet
<1>5. OneRuns(c)' /\ OrderOK(c)' /\ EndedOK(c)'
  BY <1>1, <1>2 DEF OneRuns, OrderOK, EndedOK, Kinds
<1>6. AskedOK(c)'
  <2>1. \A j : j \notin 1..1 - 1 /\ j \notin 1..(1 - 1) - 1
    OBVIOUS
  <2> QED
    BY <1>1, <1>2, <2>1 DEF AskedOK, AskedBy, DoneBy
<1> QED
  BY <1>4, <1>5, <1>6, <1>7 DEF CallInOrder
\* The end of an operation keeps every call in order.
LEMMA OpEndsKept ==
    ASSUME ProvisioningTypeOK, NEW c \in Calls, NEW k \in Kinds, OpEnds(c, k),
           NEW b \in Calls, CallInOrder(b), SubjectSet(c)
    PROVE  CallInOrder(b)'
<1>1. /\ tool' = tool /\ stage' = stage /\ at' = at /\ subject' = subject /\ ending' = ending
      /\ opFailure' = opFailure /\ op[c][k] = "running" /\ subject[c] \notin removed
  BY DEF OpEnds
<1>2. PICK v \in {"failed", "succeeded"} :
          /\ op' = [op EXCEPT ![c][k] = v]
          /\ v = "succeeded" /\ k = "deprovision" =>
                live' = live \ {subject[c]} /\ removed' = removed \cup {subject[c]}
          /\ ~(v = "succeeded" /\ k = "deprovision") => UNCHANGED <<live, removed>>
  BY DEF OpEnds
<1>3. removed \subseteq removed'
  BY <1>2
<1>4. op'[c][k] = v /\ (\A l \in Kinds \ {k} : op'[c][l] = op[c][l])
      /\ (\A a \in Calls \ {c} : op'[a] = op[a])
  BY <1>2, OpUpdated
<1>5. live' \cup removed' = live \cup removed
  <2>1. subject[c] \in live
    BY <1>1 DEF SubjectSet
  <2> QED
    BY <1>2, <2>1
<1>6. CASE b # c
  <2>1. SameCall(b)
    BY <1>1, <1>4, <1>6 DEF SameCall
  <2> QED
    BY <1>1, <1>3, <1>5, <2>1, SameCallKept
<1>7. CASE b = c
  <2>1. \A l \in Kinds : /\ op'[c][l] # "none" <=> op[c][l] # "none"
                         /\ op'[c][l] = "running" => op[c][l] = "running"
                         /\ op[c][l] = "succeeded" => op'[c][l] = "succeeded"
    BY <1>1, <1>2, <1>4
  <2>2. \A l \in Kinds : Done(c, l) => Done(c, l)'
    BY <1>1, <1>3, <2>1 DEF Done
  <2>3. IdleOK(c)'
    BY <1>1, <1>5, <1>7, <2>1 DEF CallInOrder, IdleOK
  <2>4. SubjectSet(c)' /\ OneRuns(c)'
    BY <1>1, <1>3, <1>5, <1>7, <2>1 DEF CallInOrder, SubjectSet, OneRuns
  <2>5. AskedOK(c)'
    BY <1>1, <1>7, <2>1, <2>2 DEF CallInOrder, AskedOK, AskedBy, DoneBy
  <2>6. OrderOK(c)'
    <3>1. op'[c]["deploy"] # "none" => Done(c, "configure")'
      BY <1>7, <2>1, <2>2 DEF CallInOrder, OrderOK, Kinds
    <3>2. op'[c]["deprovision"] = "succeeded" => subject[c] \in removed'
      BY <1>2, <1>3, <1>4, <1>7 DEF CallInOrder, OrderOK, Kinds
    <3> QED
      BY <1>1, <3>1, <3>2 DEF OrderOK
  <2>7. EndedOK(c)'
    BY <1>1, <1>7, <2>2 DEF CallInOrder, EndedOK
  <2> QED
    BY <1>7, <2>3, <2>4, <2>5, <2>6, <2>7 DEF CallInOrder
<1> QED
  BY <1>6, <1>7

\* The end of the server process keeps every call in order.
LEMMA CrashKept ==
    ASSUME NEW c \in Calls, CallInOrder(c), Crash
    PROVE  CallInOrder(c)'
<1>1. /\ op' = op /\ subject' = subject /\ removed' = removed /\ live' = live /\ tool' = tool
      /\ at' = at /\ opFailure' = opFailure
  BY DEF Crash, platform
<1>2. CASE stage[c] = "active"
  <2>1. stage'[c] = "over" /\ ending'[c] = "crashed"
    BY <1>2 DEF Crash
  <2>2. IdleOK(c)' /\ AskedOK(c)' /\ EndedOK(c)'
    BY <2>1 DEF IdleOK, AskedOK, EndedOK
  <2> QED
    BY <1>1, <2>2, QuietOps DEF CallInOrder
<1>3. CASE stage[c] # "active"
  <2>1. SameCall(c)
    BY <1>1, <1>3 DEF Crash, SameCall
  <2> QED
    BY <1>1, <2>1, SameCallKept
<1> QED
  BY <1>2, <1>3

------------------------------------------------------------------------------
(* The theorems. *)

\* The calls begin in order.
LEMMA ProvisioningStarts == InitProvisioning => ProvisioningInv
<1> SUFFICES ASSUME InitProvisioning PROVE ProvisioningInv
  OBVIOUS
<1>1. ProvisioningTypeOK
  <2>1. \A c \in Calls : tool[c] \in Tools
    BY ProvisioningAssumption DEF InitProvisioning
  <2>2. \A c \in Calls : Len(Plan(tool[c])) \in Nat \ {0}
    BY <2>1, PlansAreWell DEF WellPlanned, StepsKnown
  <2>3. \A n \in Nat \ {0} : 1 \in 1..n
    OBVIOUS
  <2>4. \A c \in Calls : 1 \in 1..Len(Plan(tool[c]))
    BY <2>2, <2>3
  <2>5. 0 \in 0..MaxCrashes
    BY ProvisioningAssumption
  <2> QED
    BY <2>4, <2>5 DEF InitProvisioning, ProvisioningTypeOK, Resources
<1>2. ASSUME NEW c \in Calls PROVE CallInOrder(c)
  <2>1. /\ stage[c] = "idle" /\ at[c] = 1 /\ subject[c] = NoResource /\ opFailure[c] = "none"
        /\ ending[c] = "none" /\ c \notin live \cup removed
        /\ \A k \in Kinds : op[c][k] = "none"
    BY ProvisioningAssumption DEF InitProvisioning
  <2> QED
    BY <2>1 DEF CallInOrder, IdleOK, SubjectSet, AskedOK, OneRuns, OrderOK, EndedOK, Kinds
<1> QED
  BY <1>1, <1>2 DEF InitProvisioning, ProvisioningInv

\* Every step keeps the invariant.
LEMMA ProvisioningKept ==
    ProvisioningInv /\ [NextProvisioning]_provisioningVars => ProvisioningInv'
<1> SUFFICES ASSUME ProvisioningInv, [NextProvisioning]_provisioningVars
             PROVE  ProvisioningInv'
  OBVIOUS
<1> USE DEF ProvisioningInv
<1>1. CASE UNCHANGED provisioningVars
  <2>1. ProvisioningTypeOK'
    BY <1>1 DEF provisioningVars, platform, ProvisioningTypeOK
  <2>2. \A c \in Calls : SameCall(c)
    BY <1>1 DEF provisioningVars, platform, SameCall
  <2>3. tool' = tool /\ removed' = removed /\ live' = live
    BY <1>1 DEF provisioningVars, platform
  <2> QED
    BY <2>1, <2>2, <2>3, SameCallKept
<1>2. CASE NextProvisioning
  <2>1. ProvisioningTypeOK'
    BY <1>2, ProvisioningTyped
  <2>2. ASSUME NEW c \in Calls, Start(c) PROVE ProvisioningInv'
    <3>1. \A b \in Calls \ {c} : SameCall(b)
      BY <2>2 DEF Start, platform, SameCall, ProvisioningTypeOK
    <3>2. tool' = tool /\ removed' = removed /\ live' = live
      BY <2>2 DEF Start, platform
    <3> QED
      BY <2>1, <2>2, <3>1, <3>2, SameCallKept, StartKept
  <2>3. ASSUME NEW c \in Calls, Step(c) PROVE ProvisioningInv'
    <3>1. /\ tool' = tool /\ removed' = removed /\ \A b \in Calls \ {c} : SameCall(b)
          /\ live' = live \/ (Register(c) /\ live' = live \cup {c})
      BY <2>3, StepFrame
    <3>2. Register(c) => c \notin removed
      <4>1. WellPlanned(Plan(tool[c]), tool[c]) /\ at[c] \in 1..Len(Plan(tool[c]))
        BY PlanOf
      <4>2. Register(c) => stage[c] = "active" /\ at[c] = 1
        BY <4>1 DEF Register, At, WellPlanned, StepsKnown
      <4> QED
        BY <4>2 DEF CallInOrder, IdleOK
    <3>3. live' \cap removed' = {}
      BY <3>1, <3>2
    <3>4. CallInOrder(c)'
      BY <2>3, RegisterKept, AskKept, AwaitKept, RefetchKept, LogsKept DEF Step
    <3>5. ASSUME NEW b \in Calls \ {c} PROVE CallInOrder(b)'
      BY <3>1, SameCallKept
    <3> QED
      BY <2>1, <3>3, <3>4, <3>5
  <2>4. ASSUME NEW c \in Calls, NEW k \in Kinds, OpEnds(c, k) PROVE ProvisioningInv'
    <3>1. live' \cap removed' = {}
      BY <2>4 DEF OpEnds
    <3>2. SubjectSet(c)
      BY DEF CallInOrder
    <3>3. \A b \in Calls : CallInOrder(b)'
      BY <2>4, <3>2, OpEndsKept
    <3> QED
      BY <2>1, <3>1, <3>3
  <2>5. CASE Crash
    <3>1. live' = live /\ removed' = removed
      BY <2>5 DEF Crash, platform
    <3> QED
      BY <2>1, <2>5, <3>1, CrashKept
  <2> QED
    BY <1>2, <2>2, <2>3, <2>4, <2>5 DEF NextProvisioning
<1> QED
  BY <1>1, <1>2

\* The invariant of the tools that provision: the operations a call has asked for are those
\* of the steps behind it, done but for the one it waits for.
THEOREM ProvisioningInvariant == ProvisioningSpec => []ProvisioningInv
  BY ProvisioningStarts, ProvisioningKept, PTL DEF ProvisioningSpec

\* Every variable of the provisioning tools stays in its set; in particular the place
\* of a call always lies within the plan of its tool (main.py, models/base.py).
THEOREM ProvisioningTypes == ProvisioningSpec => []ProvisioningTypeOK
<1>1. ProvisioningInv => ProvisioningTypeOK
  BY DEF ProvisioningInv
<1> QED
  BY <1>1, ProvisioningInvariant, PTL

\* A tool that returned has every operation of its plan done, or its resource was removed
\* meanwhile; a tool that removes returns only when the resource is gone.
THEOREM ReturnedIsComplete == ProvisioningSpec => []ReturnedIsDone
<1>1. ProvisioningInv => ReturnedIsDone
  <2> SUFFICES ASSUME ProvisioningInv, NEW c \in Calls, ending[c] = "returned"
               PROVE  /\ \A k \in Kinds :
                            (\E i \in 1..Len(Plan(tool[c])) : Plan(tool[c])[i] = k) => Done(c, k)
                      /\ tool[c] \in {"delete", "deprovision"} => subject[c] \in removed
    BY DEF ReturnedIsDone
  <2>1. EndedOK(c) /\ OrderOK(c)
    BY DEF ProvisioningInv, CallInOrder
  <2>2. \A k \in Kinds :
            (\E i \in 1..Len(Plan(tool[c])) : Plan(tool[c])[i] = k) => Done(c, k)
    BY <2>1 DEF EndedOK
  <2>3. ASSUME tool[c] \in {"delete", "deprovision"} PROVE subject[c] \in removed
    <3>1. \E i \in 1..Len(Plan(tool[c])) : Plan(tool[c])[i] = "deprovision"
      BY <2>3, PlanOf DEF ProvisioningInv, WellPlanned, StepsOrdered
    <3>2. Done(c, "deprovision")
      BY <2>2, <3>1 DEF Kinds
    <3> QED
      BY <2>1, <3>2 DEF OrderOK, Done
  <2> QED
    BY <2>2, <2>3
<1> QED
  BY <1>1, ProvisioningInvariant, PTL

\* An image is deployed only to an app whose configuration is in place, and no call has two
\* operations under way at once on a resource that still exists.
THEOREM OneAtATime == ProvisioningSpec => []OneOperationAtATime
<1>1. ProvisioningInv => OneOperationAtATime
  <2> SUFFICES ASSUME ProvisioningInv, NEW c \in Calls
               PROVE  /\ op[c]["deploy"] # "none" => Done(c, "configure")
                      /\ subject[c] \notin removed =>
                            Cardinality({k \in Kinds : op[c][k] = "running"}) <= 1
    BY DEF OneOperationAtATime
  <2>1. OrderOK(c) /\ OneRuns(c)
    BY DEF ProvisioningInv, CallInOrder
  <2>2. ASSUME subject[c] \notin removed
        PROVE  Cardinality({k \in Kinds : op[c][k] = "running"}) <= 1
    <3> DEFINE R == {k \in Kinds : op[c][k] = "running"}
    <3>1. R = {} \/ \E k \in Kinds : R = {k}
      BY <2>1, <2>2 DEF OneRuns
    <3> HIDE DEF R
    <3>2. R = {} => Cardinality(R) = 0
      BY FS_EmptySet
    <3>3. (\E k \in Kinds : R = {k}) => Cardinality(R) = 1
      BY FS_Singleton
    <3>4. Cardinality(R) <= 1
      BY <3>1, <3>2, <3>3
    <3> QED
      BY <3>4 DEF R
  <2> QED
    BY <2>1, <2>2 DEF OrderOK
<1> QED
  BY <1>1, ProvisioningInvariant, PTL
==============================================================================
