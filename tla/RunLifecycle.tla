---------------------------- MODULE RunLifecycle ----------------------------
(***************************************************************************)
(* The life of an audit run as its readers see it: queued, running, then   *)
(* completed or failed for good.  The row disappears with its project.     *)
(***************************************************************************)
VARIABLE status

Init == status = "absent"

Move(from, to) == status \in from /\ status' = to

Create   == Move({"absent"}, "queued")
Begin    == Move({"queued"}, "running")
Complete == Move({"running"}, "completed")
Fail     == Move({"queued", "running"}, "failed")
Remove   == Move({"queued", "running", "completed", "failed"}, "absent")

Next == Create \/ Begin \/ Complete \/ Fail \/ Remove

Spec == Init /\ [][Next]_status
=============================================================================
