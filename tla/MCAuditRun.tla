----------------------------- MODULE MCAuditRun -----------------------------
(***************************************************************************)
(* AuditRun on small instances: two controls, two attempts, one rename,    *)
(* two attempts to mark the run failed.                                    *)
(***************************************************************************)
EXTENDS AuditRun

TwoControls == <<"c1", "c2">>

\* No commit is in doubt and no attempt outlives its activity.
OrderlyFaults == SUBSET {"crash", "delete"}

\* Everything at once, and each of the two disorders without the other.
DisorderlyFaults == {Fault, Fault \ {"lostack"}, Fault \ {"timeout"}}

\* Orderly and disorderly deployments.
AllFaults == OrderlyFaults \cup DisorderlyFaults

TimeoutOnly == {{"timeout"}}
=============================================================================
