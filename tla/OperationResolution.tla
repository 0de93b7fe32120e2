------------------------- MODULE OperationResolution -------------------------
(***************************************************************************)
(* What a caller of wait_for_operation may rely on, without clock,         *)
(* requests or polling: the operation makes its way on the platform, and   *)
(* the call ends once, with an outcome the operation's state at that       *)
(* moment justifies.                                                       *)
(***************************************************************************)
VARIABLES op, gone, outcome

vars == <<op, gone, outcome>>

Init == op = "queued" /\ gone = FALSE /\ outcome = "none"

\* The outcomes an operation's state justifies.
Permitted ==
    {"timeout", "error"}
        \cup (IF op = "succeeded" \/ gone THEN {"returned"} ELSE {})
        \cup (IF op = "failed" THEN {"failed"} ELSE {})

Work ==
    /\ ~gone
    /\ \/ op = "queued"  /\ op' \in {"running", "failed"} /\ UNCHANGED gone
       \/ op = "running" /\ op' \in {"succeeded", "failed"} /\ UNCHANGED gone
       \/ gone' = TRUE /\ UNCHANGED op
    /\ UNCHANGED outcome

Settle ==
    /\ outcome = "none"
    /\ outcome' \in Permitted
    /\ UNCHANGED <<op, gone>>

Next == Work \/ Settle

SafetySpec == Init /\ [][Next]_vars

Spec == SafetySpec /\ WF_vars(Settle)
==============================================================================
