---------------------------- MODULE OperationWait ----------------------------
(***************************************************************************)
(* AptibleApiClient.wait_for_operation: a tool call polls one platform     *)
(* operation until it is finished, gone, or the call's deadline passes,    *)
(* while the platform works on the operation and another tool call,        *)
(* cancelOperation, may ask for its cancellation.                          *)
(*                                                                         *)
(* Time is the event loop's monotonic clock in whole units.  A step the    *)
(* program can take at once is taken before the clock moves (the loop is   *)
(* not blocked); only the network, the sleep and the platform take time.   *)
(***************************************************************************)
EXTENDS Integers

CONSTANTS
    OpTimeout,       \* operation_timeout_seconds
    PollInterval,    \* operation_poll_interval_seconds
    RequestTimeout,  \* request_timeout_seconds: what one phase of a request may take
    Phases,          \* phases of a request httpx times separately: pool, connect, write,
                     \* and each read of the answer
    MaxStart,        \* bound: the wait begins no later than this
    MaxNow           \* bound of the clock

ASSUME OperationWaitAssumption ==
    /\ OpTimeout \in Nat \ {0}
    /\ PollInterval \in Nat
    /\ RequestTimeout \in Nat
    /\ Phases \in Nat \ {0}
    /\ MaxStart \in Nat
    /\ MaxNow \in Nat

Never == -1

DoneStates   == {"succeeded", "failed"}
ActiveStates == {"queued", "running"}
Replies      == DoneStates \cup ActiveStates \cup {"notfound", "httperror"}
Outcomes     == {"returned", "failed", "timeout", "error"}

VARIABLES
    now,        \* monotonic()
    \* the platform's record of the operation
    opStatus,   \* the last status it had
    gone,       \* the record no longer exists
    doneAt,     \* when it reached a done state, or Never
    cancelled,  \* a cancellation was requested
    \* the waiting call
    pc, deadline,
    sentAt,     \* when the last poll was sent, or Never
    phase,      \* the phase of the poll under way
    phaseEnd,   \* when that phase times out
    reply,      \* what the server answered, not yet delivered
    wakeAt, outcome,
    \* the cancelling call
    cancelPc

opVars   == <<opStatus, gone, doneAt, cancelled>>
waitVars == <<pc, deadline, sentAt, phase, phaseEnd, reply, wakeAt, outcome>>
vars     == <<now, opVars, waitVars, cancelPc>>

Init ==
    /\ now = 0
    /\ opStatus = "queued" /\ gone = FALSE /\ doneAt = Never /\ cancelled = FALSE
    /\ pc = "idle" /\ deadline = 0 /\ sentAt = Never
    /\ phase = 0 /\ phaseEnd = 0 /\ reply = "none" /\ wakeAt = 0
    /\ outcome = "none"
    /\ cancelPc = "idle"

------------------------------------------------------------------------------
(* The waiting call. *)

\* Slips the properties must catch: the clock test dropped or early, an answer misread.
NeverExpired(t)   == FALSE
ExpiredEarly(t)   == t + PollInterval >= deadline
FailureIgnored(answer) ==
    IF answer \in {"succeeded", "notfound", "failed"} THEN "returned"
    ELSE IF answer = "httperror" THEN "error" ELSE "none"
AnyErrorIsGone(answer) ==
    IF answer \in {"succeeded", "notfound", "httperror"} THEN "returned"
    ELSE IF answer = "failed" THEN "failed" ELSE "none"

\* `monotonic() >= deadline`, and `deadline - monotonic() <= 0` after a poll.
Expired(t) == t >= deadline

\* min(self.operation_poll_interval_seconds, remaining), from now.
SleepUntil(t) == IF PollInterval <= deadline - t THEN t + PollInterval ELSE deadline

\* What an answer decides; "none" when the operation is still active.
Verdict(answer) ==
    CASE answer \in {"succeeded", "notfound"} -> "returned"
      [] answer = "failed"                    -> "failed"
      [] answer = "httperror"                 -> "error"
      [] OTHER                                -> "none"

Finish(result) == pc' = "done" /\ outcome' = result

StartWait ==
    /\ pc = "idle"
    /\ pc' = "check"
    /\ deadline' = now + OpTimeout
    /\ UNCHANGED <<now, opVars, sentAt, phase, phaseEnd, reply, wakeAt, outcome, cancelPc>>

\* The test at the head of the loop and, with no await in between, the next poll.
Poll ==
    /\ pc = "check"
    /\ \/ /\ Expired(now)
          /\ Finish("timeout")
          /\ UNCHANGED <<sentAt, phase, phaseEnd, reply>>
       \/ /\ ~Expired(now)
          /\ pc' = "requesting"
          /\ sentAt' = now /\ phase' = 1 /\ phaseEnd' = now + RequestTimeout
          /\ reply' = "none"
          /\ UNCHANGED outcome
    /\ UNCHANGED <<now, opVars, deadline, wakeAt, cancelPc>>

\* The request enters its next phase, which gets a time limit of its own.
NextPhase ==
    /\ pc = "requesting" /\ phase < Phases
    /\ phase' = phase + 1
    /\ phaseEnd' = now + RequestTimeout
    /\ UNCHANGED <<now, opVars, pc, deadline, sentAt, reply, wakeAt, outcome, cancelPc>>

\* The server reads the operation's record in the last phase; the answer travels later.
ServerAnswers ==
    /\ pc = "requesting" /\ phase = Phases /\ reply = "none"
    /\ reply' \in {IF gone THEN "notfound" ELSE opStatus, "httperror"}
    /\ UNCHANGED <<now, opVars, pc, deadline, sentAt, phase, phaseEnd, wakeAt,
                   outcome, cancelPc>>

\* httpx raises: a phase ran out of time, or the connection broke before.
TransportError ==
    /\ pc = "requesting"
    /\ Finish("error")
    /\ UNCHANGED <<now, opVars, deadline, sentAt, phase, phaseEnd, reply, wakeAt, cancelPc>>

\* The answer arrives; all up to the next await is one step.
Receive ==
    /\ pc = "requesting" /\ reply # "none"
    /\ \/ /\ Verdict(reply) # "none"
          /\ Finish(Verdict(reply))
          /\ UNCHANGED wakeAt
       \/ /\ Verdict(reply) = "none" /\ Expired(now)
          /\ Finish("timeout")
          /\ UNCHANGED wakeAt
       \/ /\ Verdict(reply) = "none" /\ ~Expired(now)
          /\ pc' = "sleeping"
          /\ wakeAt' = SleepUntil(now)
          /\ UNCHANGED outcome
    /\ UNCHANGED <<now, opVars, deadline, sentAt, phase, phaseEnd, reply, cancelPc>>

Wake ==
    /\ pc = "sleeping" /\ now >= wakeAt
    /\ pc' = "check"
    /\ UNCHANGED <<now, opVars, deadline, sentAt, phase, phaseEnd, reply, wakeAt,
                   outcome, cancelPc>>

------------------------------------------------------------------------------
(* OperationManager.cancel, called by another session. *)

Terminal(status) == status \in DoneStates

CancelGet ==
    /\ cancelPc = "idle"
    /\ cancelPc' = CASE gone               -> "error"
                     [] Terminal(opStatus) -> "refused"
                     [] OTHER              -> "checked"
    /\ UNCHANGED <<now, opVars, waitVars>>

\* The PUT reaches the server.
CancelPut ==
    /\ cancelPc = "checked"
    /\ IF gone
         THEN cancelPc' = "error" /\ UNCHANGED cancelled
         ELSE cancelPc' = "requested" /\ cancelled' = TRUE
    /\ UNCHANGED <<now, opStatus, gone, doneAt, waitVars>>

------------------------------------------------------------------------------
(* The platform, outside the repository.  It need never finish an operation. *)

OpStart ==
    /\ opStatus = "queued" /\ ~gone
    /\ opStatus' = "running"
    /\ UNCHANGED <<now, gone, doneAt, cancelled, waitVars, cancelPc>>

OpFinish ==
    /\ ~gone
    /\ \/ opStatus = "running" /\ opStatus' \in DoneStates
       \/ opStatus = "queued" /\ cancelled /\ opStatus' = "failed"
    /\ doneAt' = now
    /\ UNCHANGED <<now, gone, cancelled, waitVars, cancelPc>>

\* A deprovision, this operation or another session's, takes the record with the resource.
OpDelete ==
    /\ ~gone
    /\ gone' = TRUE
    /\ UNCHANGED <<now, opStatus, doneAt, cancelled, waitVars, cancelPc>>

------------------------------------------------------------------------------

\* The clock waits for whatever the program can do at once.
Urgent ==
    \/ pc = "idle" /\ now >= MaxStart
    \/ pc = "check"
    \/ pc = "requesting" /\ now >= phaseEnd
    \/ pc = "sleeping" /\ now >= wakeAt

Tick ==
    /\ ~Urgent /\ now < MaxNow
    /\ now' = now + 1
    /\ UNCHANGED <<opVars, waitVars, cancelPc>>

WaitStep == StartWait \/ Poll \/ NextPhase \/ Receive \/ TransportError \/ Wake
Platform == OpStart \/ OpFinish \/ OpDelete \/ ServerAnswers
Cancel   == CancelGet \/ CancelPut

Next == WaitStep \/ Platform \/ Cancel \/ Tick

\* The event loop runs what is ready, time passes, and httpx ends an overdue phase.
\* Nothing is assumed of the platform.
Fairness ==
    /\ WF_vars(StartWait) /\ WF_vars(Poll) /\ WF_vars(Wake)
    /\ WF_vars(Receive)
    /\ WF_vars(TransportError /\ now >= phaseEnd)
    /\ WF_vars(Tick)

Spec == Init /\ [][Next]_vars /\ Fairness

------------------------------------------------------------------------------
(* Properties. *)

\* Every variable stays in its set.
TypeOK ==
    /\ now \in Nat
    /\ opStatus \in DoneStates \cup ActiveStates
    /\ gone \in BOOLEAN
    /\ doneAt \in Nat \cup {Never}
    /\ cancelled \in BOOLEAN
    /\ pc \in {"idle", "check", "requesting", "sleeping", "done"}
    /\ deadline \in Nat
    /\ sentAt \in Nat \cup {Never}
    /\ phase \in 0..Phases
    /\ phaseEnd \in Nat
    /\ reply \in Replies \cup {"none"}
    /\ wakeAt \in Nat
    /\ outcome \in Outcomes \cup {"none"}
    /\ cancelPc \in {"idle", "checked", "refused", "requested", "error"}

\* However old the answer it acts on, a wait that returns did so for an operation that
\* succeeded or whose record is gone, and one that reports a failure for one that failed:
\* a cancellation or a deletion in between never turns one into the other.
OutcomeMatchesOperation ==
    /\ outcome = "returned" => opStatus = "succeeded" \/ gone
    /\ outcome = "failed"   => opStatus = "failed"

\* The call never outlives its deadline by more than one request, and never sleeps past it.
BoundedWait ==
    /\ pc = "requesting" => now <= deadline + Phases * RequestTimeout
    /\ pc = "sleeping"   => now <= deadline

\* TimeoutError is raised only once the deadline has passed, and an operation that was
\* finished long enough before it (one poll and one sleep) is never reported as late.
TimeoutIsJustified ==
    outcome = "timeout" =>
        /\ now >= deadline
        /\ doneAt # Never =>
              doneAt + PollInterval + Phases * RequestTimeout >= deadline

\* cancelOperation refuses only an operation that really is finished, so a refusal is
\* never the reason an operation keeps a wait busy.
RefusalIsJustified == cancelPc = "refused" => doneAt # Never

\* Every call ends, even if the platform never finishes the operation and never answers.
WaitEnds == <>(pc = "done")

\* The polling loop implements the promise: the call ends exactly once, and as the
\* operation's state at that moment justifies.
Resolution == INSTANCE OperationResolution WITH op <- opStatus
ImplementsResolution == Resolution!Spec
==============================================================================
