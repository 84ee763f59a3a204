---------------------------- MODULE MCAdmission ----------------------------
(***************************************************************************)
(* Admission alone, against what the runbook says of the mfa claim: one    *)
(* role that has the permission and one that has not.                      *)
(***************************************************************************)
EXTENDS Admission
=============================================================================
