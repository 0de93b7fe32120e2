----------------------------- MODULE HttpClient -----------------------------
(***************************************************************************)
(* RetryingHttpClient of dependency_audit/http.py, as its callers see it:  *)
(* one request at a time, at most MaxAttempts attempts, and either a JSON  *)
(* value or an error that may carry a status.  What a value says is up to  *)
(* the caller; here it is only what the server holds or a damaged form of  *)
(* it.  How long the client sleeps between attempts is left out.           *)
(***************************************************************************)
EXTENDS Naturals

CONSTANTS
    MaxAttempts,    \* max_attempts, three
    MaxFaults       \* bound: what goes wrong in one audit or search

ASSUME HttpClientAssumption == MaxAttempts \in 1..3 /\ MaxFaults \in Nat

VARIABLES
    attempt,    \* attempts of the current request that failed and may be repeated
    faults,     \* how many faults there were; an attempt that is repeated is none
    earned      \* whether a fault was one that no retry could have helped

httpVars == <<attempt, faults, earned>>

(* What may come back for an attempt besides a JSON value.  An exception of  *)
(* http.client (a body that breaks off) is none of those that the client    *)
(* catches: it escapes to whoever called the source.                        *)
Failures == {"busy", "lost", "missing", "refused", "oversize", "garbled", "escaped"}

(* A slip: only a status is retried, not a connection that broke. *)
TransientBusy(f) == f = "busy"

(* 408, 425, 429 and 5xx, and an OSError of the transport; a body over the  *)
(* limit and one that is not JSON are not asked for again.                  *)
Transient(f) == f \in {"busy", "lost"}

HttpTypeOK ==
    /\ attempt \in 0..MaxAttempts - 1 /\ faults \in 0..MaxFaults
    /\ earned \in BOOLEAN

HttpInit == attempt = 0 /\ faults = 0 /\ earned = FALSE

(* A failed attempt that is followed by another one. *)
Repeat(f) ==
    /\ Transient(f) /\ attempt + 1 < MaxAttempts
    /\ attempt' = attempt + 1
    /\ UNCHANGED <<faults, earned>>

(* The request ended with a value, damaged or not. *)
Answered(damaged) ==
    /\ damaged => faults < MaxFaults
    /\ faults' = faults + IF damaged THEN 1 ELSE 0
    /\ earned' = (earned \/ damaged)
    /\ attempt' = 0

(* The request ended with an error: HttpRequestError, or what escaped. *)
Failed(f) ==
    /\ f \in Failures /\ faults < MaxFaults
    /\ ~(Transient(f) /\ attempt + 1 < MaxAttempts)
    /\ faults' = faults + 1
    /\ earned' = (earned \/ attempt + 1 = MaxAttempts \/ f \notin {"busy", "lost"})
    /\ attempt' = 0
=============================================================================
