--------------------------- MODULE CommandCapture ---------------------------
(***************************************************************************)
(* One native command: run_command of dependency_audit/inventory.py.  The  *)
(* command writes to two pipes, two reader threads move what it writes     *)
(* into buffers of bounded size, and the main thread polls, stops the      *)
(* command when its time is up, joins the readers and says how it ended.   *)
(* Output is counted in chunks of one read.  A process that the command    *)
(* started may outlive it and keep its pipes open.                         *)
(***************************************************************************)
EXTENDS Integers

CONSTANTS
    OutputLimit,    \* _OUTPUT_LIMIT, in chunks
    PipeSize,       \* what a pipe holds
    MaxOutput       \* bound: what a command writes to one pipe

ASSUME CommandCaptureAssumption ==
    OutputLimit \in Nat /\ PipeSize \in Nat \ {0} /\ MaxOutput \in Nat

Streams == {"stdout", "stderr"}
(* The exit codes of a command; it cannot choose the last one.              *)
OwnCodes == {0, 1, 2}
Killed == -1
OverLimit == 125
OverTime == 124

VARIABLES
    child,      \* the process: "none", "running", "exited"
    code,       \* what poll() says once it has exited
    heir,       \* whether a process it started still holds the pipes
    asked,      \* whether it was sent SIGTERM
    left,       \* by pipe, what is still to be written
    pipe,       \* what is in the pipe
    captured,   \* what its reader has kept
    written,    \* what was written in all
    reader,     \* by pipe, its thread: "read", "flag", "stop", "done"
    exceeded,   \* the Event the readers share
    expired,    \* whether the deadline has passed
    timedOut,
    waiter,     \* the main thread: "idle", "poll", "due", "reap", "join"
    ended       \* CommandResult.returncode of the last command

captureVars == <<child, code, heir, asked, left, pipe, captured, written, reader, exceeded,
                 expired, timedOut, waiter, ended>>

Each(v) == [s \in Streams |-> v]

CaptureTypeOK ==
    /\ child \in {"none", "running", "exited"} /\ code \in OwnCodes \cup {Killed}
    /\ heir \in BOOLEAN /\ asked \in BOOLEAN
    /\ exceeded \in BOOLEAN /\ expired \in BOOLEAN /\ timedOut \in BOOLEAN
    /\ left \in [Streams -> 0..MaxOutput] /\ pipe \in [Streams -> 0..MaxOutput]
    /\ captured \in [Streams -> 0..MaxOutput] /\ written \in [Streams -> 0..MaxOutput]
    /\ reader \in [Streams -> {"read", "flag", "stop", "done"}]
    /\ waiter \in {"idle", "poll", "due", "reap", "join"}
    /\ ended \in OwnCodes \cup {Killed, OverLimit, OverTime}

Quiet(lastCode) ==
    /\ child' = "none" /\ code' = 0 /\ left' = Each(0) /\ pipe' = Each(0)
    /\ captured' = Each(0) /\ written' = Each(0) /\ reader' = Each("done")
    /\ heir' = FALSE /\ asked' = FALSE /\ exceeded' = FALSE /\ expired' = FALSE
    /\ timedOut' = FALSE /\ waiter' = "idle" /\ ended' = lastCode

CaptureInit ==
    /\ child = "none" /\ code = 0 /\ left = Each(0) /\ pipe = Each(0)
    /\ captured = Each(0) /\ written = Each(0) /\ reader = Each("done")
    /\ heir = FALSE /\ asked = FALSE /\ exceeded = FALSE /\ expired = FALSE
    /\ timedOut = FALSE /\ waiter = "idle" /\ ended = 0

(* Popen, then _capture_command_output starts the readers. *)
Launch(volume, forks) ==
    /\ waiter = "idle"
    /\ child' = "running" /\ code' = 0 /\ heir' = forks /\ asked' = FALSE
    /\ left' = volume /\ pipe' = Each(0) /\ captured' = Each(0) /\ written' = Each(0)
    /\ reader' = Each("read") /\ exceeded' = FALSE /\ expired' = FALSE
    /\ timedOut' = FALSE /\ waiter' = "poll" /\ UNCHANGED ended

-----------------------------------------------------------------------------
(* The command *)

Held == child = "running" \/ heir

Emit(s) ==
    /\ Held /\ left[s] > 0 /\ pipe[s] < PipeSize
    /\ left' = [left EXCEPT ![s] = @ - 1]
    /\ pipe' = [pipe EXCEPT ![s] = @ + 1]
    /\ written' = [written EXCEPT ![s] = @ + 1]
    /\ UNCHANGED <<child, code, heir, asked, captured, reader, exceeded, expired, timedOut,
                   waiter, ended>>

(* It exits by itself: with everything written, unless it leaves that to a  *)
(* process it started or gives up.                                          *)
Exit(c) ==
    /\ child = "running" /\ c \in OwnCodes
    /\ c = 0 => heir \/ left = Each(0)
    /\ child' = "exited" /\ code' = c
    /\ UNCHANGED <<heir, asked, left, pipe, captured, written, reader, exceeded, expired,
                   timedOut, waiter, ended>>

(* It obeys SIGTERM; it need not. *)
Obey ==
    /\ child = "running" /\ asked
    /\ child' = "exited" /\ code' = Killed
    /\ UNCHANGED <<heir, asked, left, pipe, captured, written, reader, exceeded, expired,
                   timedOut, waiter, ended>>

HeirExits ==
    /\ heir /\ heir' = FALSE
    /\ UNCHANGED <<child, code, asked, left, pipe, captured, written, reader, exceeded,
                   expired, timedOut, waiter, ended>>

-----------------------------------------------------------------------------
(* read_stream *)

(* A chunk that does not fit is cut off. *)
Read(s) ==
    /\ reader[s] = "read" /\ pipe[s] > 0
    /\ pipe' = [pipe EXCEPT ![s] = @ - 1]
    /\ IF captured[s] < OutputLimit
       THEN captured' = [captured EXCEPT ![s] = @ + 1] /\ UNCHANGED reader
       ELSE reader' = [reader EXCEPT ![s] = "flag"] /\ UNCHANGED captured
    /\ UNCHANGED <<child, code, heir, asked, left, written, exceeded, expired, timedOut,
                   waiter, ended>>

EndOfFile(s) ==
    /\ reader[s] = "read" /\ pipe[s] = 0 /\ ~Held
    /\ reader' = [reader EXCEPT ![s] = "done"]
    /\ UNCHANGED <<child, code, heir, asked, left, pipe, captured, written, exceeded, expired,
                   timedOut, waiter, ended>>

Flag(s) ==
    /\ reader[s] = "flag"
    /\ exceeded' = TRUE /\ reader' = [reader EXCEPT ![s] = "stop"]
    /\ UNCHANGED <<child, code, heir, asked, left, pipe, captured, written, expired, timedOut,
                   waiter, ended>>

(* _stop_process tolerates a process that has exited. *)
StopOverflow(s) ==
    /\ reader[s] = "stop"
    /\ asked' = (asked \/ child = "running") /\ reader' = [reader EXCEPT ![s] = "done"]
    /\ UNCHANGED <<child, code, heir, left, pipe, captured, written, exceeded, expired,
                   timedOut, waiter, ended>>

-----------------------------------------------------------------------------
(* run_command *)

Clock ==
    /\ waiter \in {"poll", "due"} /\ ~expired /\ expired' = TRUE
    /\ UNCHANGED <<child, code, heir, asked, left, pipe, captured, written, reader, exceeded,
                   timedOut, waiter, ended>>

Poll ==
    /\ waiter = "poll"
    /\ waiter' = IF child = "running" /\ ~exceeded THEN "due" ELSE "reap"
    /\ UNCHANGED <<child, code, heir, asked, left, pipe, captured, written, reader, exceeded,
                   expired, timedOut, ended>>

(* A slip: only a command that has written something runs out of time. *)
DueUnlessSilent ==
    /\ waiter = "due"
    /\ timedOut' = (expired /\ \E s \in Streams : captured[s] > 0)
    /\ waiter' = IF timedOut' THEN "reap" ELSE "poll"
    /\ asked' = (asked \/ (timedOut' /\ child = "running"))
    /\ UNCHANGED <<child, code, heir, left, pipe, captured, written, reader, exceeded, expired,
                   ended>>

(* The deadline is looked at after the poll, so the command may have exited *)
(* in between.                                                              *)
Due ==
    /\ waiter = "due"
    /\ waiter' = IF expired THEN "reap" ELSE "poll"
    /\ timedOut' = expired /\ asked' = (asked \/ (expired /\ child = "running"))
    /\ UNCHANGED <<child, code, heir, left, pipe, captured, written, reader, exceeded, expired,
                   ended>>

(* It is given 0.2 seconds and then killed. *)
Reap ==
    /\ waiter = "reap" /\ waiter' = "join"
    /\ IF child = "running" THEN child' = "exited" /\ code' = Killed
       ELSE UNCHANGED <<child, code>>
    /\ UNCHANGED <<heir, asked, left, pipe, captured, written, reader, exceeded, expired,
                   timedOut, ended>>

(* A slip: the result is put together while the readers still read. *)
JoinedNot == TRUE
Joined == \A s \in Streams : reader[s] = "done"

Outcome == IF exceeded THEN OverLimit ELSE IF timedOut THEN OverTime ELSE code

(* The readers are joined before the shared event is looked at. *)
Returns == waiter = "join" /\ Joined

ReaderStep(s) == Read(s) \/ EndOfFile(s) \/ Flag(s) \/ StopOverflow(s)
WaiterStep == Poll \/ Due \/ Reap

CaptureStep ==
    \/ \E s \in Streams : Emit(s) \/ ReaderStep(s)
    \/ \E c \in OwnCodes : Exit(c)
    \/ Obey \/ HeirExits \/ Clock \/ WaiterStep

(* The readers run and the clock ticks; what the command or a process it    *)
(* left behind does is its own affair.  The main thread goes on with        *)
(* something else afterwards, so its fairness is stated with the rest of it. *)
CaptureFairness ==
    WF_captureVars(Clock) /\ \A s \in Streams : WF_captureVars(ReaderStep(s))

(* A return code of the command's own is only reported when both streams    *)
(* were read to their end and kept whole, whatever the order in which the   *)
(* command, the readers and the clock came: a listing that was cut off      *)
(* never passes for a short one.                                            *)
CapturedIsWhole ==
    Returns /\ Outcome \in OwnCodes =>
        \A s \in Streams : captured[s] = written[s]
=============================================================================
