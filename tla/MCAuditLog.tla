----------------------------- MODULE MCAuditLog -----------------------------
(***************************************************************************)
(* AuditLog on the least instance on which two appends overlap: one        *)
(* organisation whose appends nothing serialises, two writers, three ids.  *)
(* MCSharedState has the larger one.                                       *)
(***************************************************************************)
EXTENDS AuditLog
=============================================================================
