---------------------------- MODULE MCRunExport ----------------------------
(***************************************************************************)
(* RunExport on a small instance: one control, two attempts, one rename,   *)
(* one attempt to mark the run failed.                                     *)
(***************************************************************************)
EXTENDS RunExport

OneControl == <<"c1">>

\* Everything at once, and everything but commits in doubt.
AllFaults == {Fault, Fault \ {"lostack"}}
=============================================================================
