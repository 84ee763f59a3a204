--------------------------- MODULE MCSharedState ---------------------------
(***************************************************************************)
(* The three components whose state several processes read first and write *)
(* later, without a lock: the audit log, the rate limiter and the signing  *)
(* key.  They share no variable, so one run checks them side by side: a    *)
(* behaviour is one of the component it picks at its start.                *)
(*                                                                         *)
(* Audit log: two organisations (one with serial writers), three writers,  *)
(* five ids.  Limiter: two checks, windows of two seconds, three ticks.    *)
(* Key: two signers, three keys.                                           *)
(***************************************************************************)
EXTENDS AuditLog, RateLimiter, SigningKey, TLC

VARIABLE component

sharedVars == <<component, vars, limiterVars, signerVars>>

SharedInit ==
    /\ component \in {"log", "limiter", "key"}
    /\ Init /\ LimiterInit /\ SignerInit
    /\ component # "limiter" => place = "redis"
    /\ component # "key" => depot = "vault"

SharedNext ==
    /\ \/ component = "log" /\ Next /\ UNCHANGED <<limiterVars, signerVars>>
       \/ component = "limiter" /\ LimiterNext /\ UNCHANGED <<vars, signerVars>>
       \/ component = "key" /\ SignerNext /\ UNCHANGED <<vars, limiterVars>>
    /\ UNCHANGED component

SharedSpec == SharedInit /\ [][SharedNext]_sharedVars

Symmetry == Permutations(Writer) \cup Permutations(Check) \cup Permutations(Signer)
=============================================================================
