-------------------------- MODULE MCTenantContext --------------------------
(***************************************************************************)
(* TenantContext on small instances: two organisations, and sessions of    *)
(* each kind over a pool of two connections.                               *)
(***************************************************************************)
EXTENDS TenantContext, TLC

CONSTANTS c1, c2, a, b, user_a, user_b, token_b, activity_a

OfAll == user_a :> a @@ user_b :> b @@ token_b :> b @@ activity_a :> a

Symmetry == Permutations(Conn)

OfUsers == user_a :> a @@ user_b :> b
=============================================================================
