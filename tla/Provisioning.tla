----------------------------- MODULE Provisioning -----------------------------
(***************************************************************************)
(* The tools that create, change and remove apps, endpoints, services and  *)
(* drains.  Each is a fixed sequence of requests; any of them may fail or  *)
(* lose its answer, the wait for an operation may fail or time out, and    *)
(* the server process may stop in between.  What the platform was asked to *)
(* do by then it still does.                                               *)
(*                                                                         *)
(* The resource a call creates bears the call's name.                      *)
(***************************************************************************)
EXTENDS Integers, Sequences, FiniteSets

CONSTANTS
    Calls,        \* tool calls
    OldResources, \* resources that exist before them
    NoResource,
    CallTools,    \* the tools the calls may be of
    MaxCrashes    \* bound: how often the server process stops

Resources == OldResources \cup Calls

Creators == {"createApp", "createAppFromImage", "createVhost", "createEndpoint"}
Tools    == Creators \cup {"delete", "deprovision", "configure", "operate", "run"}

\* The operations a step may start.
Kinds == {"provision", "configure", "deploy", "deprovision", "operate", "execute"}

ASSUME ProvisioningAssumption ==
    /\ OldResources \cap Calls = {} /\ NoResource \notin Resources
    /\ CallTools \subseteq Tools
    /\ MaxCrashes \in Nat

\* A slip: the deploy of a new app's image does not wait for its configuration.
PlanUnwaited(tool) ==
    IF tool = "createAppFromImage" THEN <<"register", "configure", "deploy", "wait", "refetch">>
    ELSE <<"register">>

\* The requests of the managers' methods once the tool has resolved its handles, in order.
CreateFromImage == <<"register", "configure", "wait", "deploy", "wait", "refetch">>
CreateDefault   == <<"register", "provision", "wait">>
CreateEndpoint  == <<"register", "provision", "wait", "refetch">>
Delete          == <<"refetch", "deprovision", "wait">>
Deprovision     == <<"deprovision", "wait">>
Configure       == <<"configure", "wait">>
Operate         == <<"operate", "wait", "refetch">>
RunCommand      == <<"execute", "wait", "logs">>

\* CreateEndpoint stands for the custom-domain and database endpoints and the two kinds
\* of drain, Deprovision for the drains' and a backup's purge, Operate for deploy,
\* rebuild, restart, scale and renew.
Plan(tool) ==
    CASE tool = "createApp"          -> <<"register">>
      [] tool = "createAppFromImage" -> CreateFromImage
      [] tool = "createVhost"        -> CreateDefault
      [] tool = "createEndpoint"     -> CreateEndpoint
      [] tool = "delete"             -> Delete
      [] tool = "deprovision"        -> Deprovision
      [] tool = "configure"          -> Configure
      [] tool = "operate"            -> Operate
      [] tool = "run"                -> RunCommand

VARIABLES
    \* the platform
    live,      \* resources that exist
    removed,   \* resources that were deprovisioned
    op,        \* op[c][k]: the state of the operation of kind k that call c asked for
    crashes,
    \* the calls
    tool,
    stage,     \* "idle", "active" or "over"
    at,        \* the step of its plan an active call is at
    subject,   \* the resource it is about
    opFailure, \* run_command: how the wait failed, to be raised with the output
    ending

platform         == <<live, removed, op>>
provisioningVars == <<platform, crashes, tool, stage, at, subject, opFailure, ending>>

InitProvisioning ==
    /\ live = OldResources /\ removed = {}
    /\ op = [c \in Calls |-> [k \in Kinds |-> "none"]]
    /\ crashes = 0
    /\ tool \in [Calls -> CallTools]
    /\ stage = [c \in Calls |-> "idle"]
    /\ at = [c \in Calls |-> 1]
    /\ subject = [c \in Calls |-> NoResource]
    /\ opFailure = [c \in Calls |-> "none"]
    /\ ending = [c \in Calls |-> "none"]

------------------------------------------------------------------------------
(* The steps of a call. *)

At(c, step) == stage[c] = "active" /\ Plan(tool[c])[at[c]] = step

End(c, how) ==
    /\ stage' = [stage EXCEPT ![c] = "over"]
    /\ ending' = [ending EXCEPT ![c] = how]
    /\ UNCHANGED at

Advance(c) ==
    IF at[c] = Len(Plan(tool[c])) THEN End(c, "returned")
    ELSE at' = [at EXCEPT ![c] = @ + 1] /\ UNCHANGED <<stage, ending>>

\* A call begins: the tools that act on a resource have resolved it, which is gone by
\* the time of the first request if it was removed meanwhile.
Start(c) ==
    /\ stage[c] = "idle"
    /\ stage' = [stage EXCEPT ![c] = "active"]
    /\ IF tool[c] \in Creators THEN UNCHANGED subject
       ELSE \E r \in live : subject' = [subject EXCEPT ![c] = r]
    /\ UNCHANGED <<platform, crashes, tool, at, opFailure, ending>>

\* The POST that creates the resource.
Register(c) ==
    /\ At(c, "register")
    /\ \/ /\ live' = live \cup {c}
          /\ \/ subject' = [subject EXCEPT ![c] = c] /\ Advance(c)
             \/ UNCHANGED subject /\ End(c, "error")
       \/ UNCHANGED <<live, subject>> /\ End(c, "error")
    /\ UNCHANGED <<removed, op, crashes, tool, opFailure>>

\* The POST of an operation.
Ask(c) ==
    \E k \in Kinds :
        /\ At(c, k)
        /\ \/ /\ subject[c] \in live
              /\ op' = [op EXCEPT ![c][k] = "running"]
              /\ (Advance(c) \/ End(c, "error"))
           \/ UNCHANGED op /\ End(c, "error")
        /\ UNCHANGED <<live, removed, crashes, tool, subject, opFailure>>

\* The operation a call waits for: that of the step before.
Awaited(c) == op[c][Plan(tool[c])[at[c] - 1]]

Awaiting(c) == INSTANCE OperationResolution
                   WITH op <- Awaited(c), gone <- subject[c] \in removed,
                        outcome <- ending[c]

\* A slip: an operation that failed or is late is taken for done.
MayProceedAlways(how) == how # "error"

MayProceed(how) == how = "returned"

\* wait_for_operation ends.  run_command goes on to the logs whatever it came to.
AwaitEnds(c) ==
    /\ At(c, "wait")
    /\ \E how \in Awaiting(c)!Permitted :
          \/ /\ MayProceed(how)
             /\ Advance(c)
             /\ UNCHANGED opFailure
          \/ /\ ~MayProceed(how) /\ tool[c] = "run"
             /\ Advance(c)
             /\ opFailure' = [opFailure EXCEPT ![c] = how]
          \/ /\ ~MayProceed(how) /\ tool[c] # "run"
             /\ End(c, how)
             /\ UNCHANGED opFailure
    /\ UNCHANGED <<platform, crashes, tool, subject>>

\* get_by_id, after an operation or before a deprovision.
Refetch(c) ==
    /\ At(c, "refetch")
    /\ \/ subject[c] \in live /\ Advance(c)
       \/ End(c, "error")
    /\ UNCHANGED <<platform, crashes, tool, subject, opFailure>>

\* OperationManager.logs never comes back empty; if it raises, its error is the call's.
Logs(c) ==
    /\ At(c, "logs")
    /\ \/ End(c, IF opFailure[c] = "none" THEN "returned" ELSE "failed with output")
       \/ End(c, "error")
    /\ UNCHANGED <<platform, crashes, tool, subject, opFailure>>

\* The server process stops, and every call it was serving with it.
Crash ==
    /\ crashes < MaxCrashes
    /\ crashes' = crashes + 1
    /\ stage' = [c \in Calls |-> IF stage[c] = "active" THEN "over" ELSE stage[c]]
    /\ ending' = [c \in Calls |-> IF stage[c] = "active" THEN "crashed" ELSE ending[c]]
    /\ UNCHANGED <<platform, tool, at, subject, opFailure>>

------------------------------------------------------------------------------
(* The platform, outside the repository. *)

OpEnds(c, k) ==
    /\ op[c][k] = "running" /\ subject[c] \notin removed
    /\ \/ op' = [op EXCEPT ![c][k] = "failed"] /\ UNCHANGED <<live, removed>>
       \/ /\ op' = [op EXCEPT ![c][k] = "succeeded"]
          /\ IF k = "deprovision"
               THEN live' = live \ {subject[c]} /\ removed' = removed \cup {subject[c]}
               ELSE UNCHANGED <<live, removed>>
    /\ UNCHANGED <<crashes, tool, stage, at, subject, opFailure, ending>>

Step(c) == Register(c) \/ Ask(c) \/ AwaitEnds(c) \/ Refetch(c) \/ Logs(c)

NextProvisioning ==
    \/ \E c \in Calls : Start(c) \/ Step(c)
    \/ \E c \in Calls, k \in Kinds : OpEnds(c, k)
    \/ Crash

ProvisioningSpec == InitProvisioning /\ [][NextProvisioning]_provisioningVars

------------------------------------------------------------------------------
(* Properties. *)

\* Every variable stays in its set.
ProvisioningTypeOK ==
    /\ live \subseteq Resources /\ removed \subseteq Resources
    /\ op \in [Calls -> [Kinds -> {"none", "running", "succeeded", "failed"}]]
    /\ crashes \in 0..MaxCrashes
    /\ tool \in [Calls -> CallTools]
    /\ stage \in [Calls -> {"idle", "active", "over"}]
    /\ at \in [Calls -> Nat] /\ \A c \in Calls : at[c] \in 1..Len(Plan(tool[c]))
    /\ subject \in [Calls -> Resources \cup {NoResource}]
    /\ opFailure \in [Calls -> {"none", "failed", "timeout", "error"}]
    /\ ending \in [Calls -> {"none", "returned", "failed", "timeout", "error", "crashed",
                             "failed with output"}]

Done(c, k) == op[c][k] = "succeeded" \/ subject[c] \in removed

\* A call returns only when every operation it asked for is done, or was overtaken by the
\* removal of the resource; a call that removes returns only when the resource is gone.
ReturnedIsDone ==
    \A c \in Calls : ending[c] = "returned" =>
        /\ \A k \in Kinds : (\E i \in 1..Len(Plan(tool[c])) : Plan(tool[c])[i] = k) => Done(c, k)
        /\ tool[c] \in {"delete", "deprovision"} => subject[c] \in removed

\* A call deploys an image only once the configuration that it made itself is done, and
\* never has two operations running at once: what one leaves half done, the next does not
\* build on.  What other calls ask of the same resource meanwhile is not excluded, a
\* second configuration before the deploy included.
OneOperationAtATime ==
    \A c \in Calls :
        /\ op[c]["deploy"] # "none" => Done(c, "configure")
        /\ subject[c] \notin removed => Cardinality({k \in Kinds : op[c][k] = "running"}) <= 1
==============================================================================
