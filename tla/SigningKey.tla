----------------------------- MODULE SigningKey -----------------------------
(***************************************************************************)
(* The Ed25519 key an organisation's manifests are signed with: loaded     *)
(* from the secret store by every signing, and created and stored by one   *)
(* that does not find it (_load_or_create_private_key).  Organisations     *)
(* have keys of their own, so one is modelled.                             *)
(*                                                                         *)
(* The store is Vault, which all processes share and which is asked over   *)
(* HTTP, or the memory of one process (EnvSecretStore), which is lost at   *)
(* its restart and whose calls never suspend.                              *)
(***************************************************************************)
EXTENDS Naturals, FiniteSets

CONSTANTS
    Signer,     \* uploads and report stages that may be signing at the same time
    MaxKeys     \* bound: values ever generated for the key

ASSUME SigningKeyAssumption == IsFiniteSet(Signer) /\ MaxKeys \in Nat

VARIABLES
    depot,      \* the store: "vault" or "memory"
    stored,     \* the value it holds, a number in the order of generation
    lastKey,    \* the last value generated
    junk,       \* values an admin stored that are no PEM
    signing,    \* the signers
    inFlight,   \* values of set calls that were given up, and may still arrive
    installs,   \* keys that signers have stored (auxiliary)
    doubts,     \* calls that failed and were taken for a miss, or given up (auxiliary)
    held        \* per signer: what was stored at some moment since it began (auxiliary)

storeVars  == <<stored, lastKey, junk, inFlight>>
signerVars == <<depot, storeVars, signing, installs, doubts, held>>

NoKey == 0

NoSigning == [pc |-> "idle", key |-> NoKey]

Signing ==
    [pc : {"idle", "loading"}, key : {NoKey}]
    \cup [pc : {"creating", "loaded", "signed"}, key : Nat \ {NoKey}]

SignerTypeOK ==
    /\ depot \in {"vault", "memory"}
    /\ stored \in Nat /\ lastKey \in Nat
    /\ junk \subseteq Nat /\ inFlight \subseteq 1 .. lastKey
    /\ signing \in [Signer -> Signing]
    /\ installs \in Nat /\ doubts \in Nat
    /\ held \in [Signer -> SUBSET Nat]

SignerInit ==
    /\ depot \in {"vault", "memory"}
    /\ stored = NoKey /\ lastKey = 0
    /\ junk = {} /\ inFlight = {}
    /\ signing = [s \in Signer |-> NoSigning]
    /\ installs = 0 /\ doubts = 0
    /\ held = [s \in Signer |-> {}]

-----------------------------------------------------------------------------
Goes(s, pc, k) == signing' = [signing EXCEPT ![s] = [pc |-> pc, key |-> k]]

NewKey == lastKey + 1

Generates == lastKey < MaxKeys /\ lastKey' = NewKey

Stores(k) ==
    /\ stored' = k
    /\ held' = [s \in Signer |-> held[s] \cup {k}]

\* Mutant of Found: the key is set under another name than it is read from.
FoundNothing == NoKey

\* What the store has under the reference of the key.
Found == stored

-----------------------------------------------------------------------------
(* Vault                                                                   *)

BeginSigning(s) ==
    /\ depot = "vault"
    /\ signing[s].pc \in {"idle", "signed"}
    /\ Goes(s, "loading", NoKey)
    /\ held' = [held EXCEPT ![s] = {stored}]
    /\ UNCHANGED <<depot, storeVars, installs, doubts>>

LoadKey(s) ==
    /\ signing[s].pc = "loading"
    /\ Found # NoKey
    /\ Goes(s, "loaded", Found)
    /\ UNCHANGED <<depot, storeVars, installs, doubts, held>>

\* 404: the signer generates a key, and will store it.
MissKey(s) ==
    /\ signing[s].pc = "loading"
    /\ Found = NoKey
    /\ Generates
    /\ Goes(s, "creating", NewKey)
    /\ UNCHANGED <<depot, stored, junk, inFlight, installs, doubts, held>>

\* Any other status from 400 on is a SecretStoreError as well.
LoadKeyFails(s) ==
    /\ signing[s].pc = "loading"
    /\ Generates
    /\ Goes(s, "creating", NewKey)
    /\ doubts' = doubts + 1
    /\ UNCHANGED <<depot, stored, junk, inFlight, installs, held>>

InstallKey(s) ==
    /\ signing[s].pc = "creating"
    /\ Stores(signing[s].key)
    /\ installs' = installs + 1
    /\ Goes(s, "loaded", signing[s].key)
    /\ UNCHANGED <<depot, lastKey, junk, inFlight, doubts>>

\* Mutant of RefuseKey: the error of the set call is not raised.
RefuseKeySilently(s) ==
    /\ signing[s].pc = "creating"
    /\ Goes(s, "loaded", signing[s].key)
    /\ UNCHANGED <<depot, storeVars, installs, doubts, held>>

\* Vault does not take the key: the signing fails.
RefuseKey(s) ==
    /\ signing[s].pc = "creating"
    /\ Goes(s, "idle", NoKey)
    /\ UNCHANGED <<depot, storeVars, installs, doubts, held>>

\* The set call is given up after its ten seconds, or with its process; Vault may still get it.
AbandonKey(s) ==
    /\ signing[s].pc = "creating"
    /\ inFlight' = inFlight \cup {signing[s].key}
    /\ doubts' = doubts + 1
    /\ Goes(s, "idle", NoKey)
    /\ UNCHANGED <<depot, stored, lastKey, junk, installs, held>>

ArriveLate(k) ==
    /\ k \in inFlight
    /\ inFlight' = inFlight \ {k}
    /\ Stores(k)
    /\ installs' = installs + 1
    /\ UNCHANGED <<depot, lastKey, junk, signing, doubts>>

\* load_pem_private_key raises on what is no PEM.
Sign(s) ==
    /\ signing[s].pc = "loaded"
    /\ signing[s].key \notin junk
    /\ Goes(s, "signed", signing[s].key)
    /\ UNCHANGED <<depot, storeVars, installs, doubts, held>>

\* No PEM, no connection for the get call, or the process dies.
SigningRaises(s) ==
    /\ signing[s].pc \in {"loading", "loaded"}
    /\ Goes(s, "idle", NoKey)
    /\ UNCHANGED <<depot, storeVars, installs, doubts, held>>

-----------------------------------------------------------------------------
(* The memory of a process                                                 *)

\* get and set do not suspend, so neither does a signing.
SignInMemory(s) ==
    /\ depot = "memory"
    /\ stored \notin junk
    /\ IF Found = NoKey
       THEN Generates /\ stored' = NewKey /\ installs' = installs + 1
       ELSE UNCHANGED <<stored, lastKey, installs>>
    /\ Goes(s, "signed", stored')
    /\ held' = [held EXCEPT ![s] = {stored'}]
    /\ UNCHANGED <<depot, junk, inFlight, doubts>>

RestartStore ==
    /\ depot = "memory"
    /\ stored' = NoKey
    /\ installs' = 0
    /\ UNCHANGED <<depot, lastKey, junk, signing, inFlight, doubts, held>>

-----------------------------------------------------------------------------
\* An admin sets or rotates the secret, to a PEM or to something else.
RotateKey ==
    /\ Generates
    /\ Stores(NewKey)
    /\ junk' \in {junk, junk \cup {NewKey}}
    /\ UNCHANGED <<depot, signing, inFlight, installs, doubts>>

SigningStep(s) ==
    \/ BeginSigning(s) \/ LoadKey(s) \/ MissKey(s) \/ LoadKeyFails(s)
    \/ InstallKey(s) \/ RefuseKey(s) \/ AbandonKey(s)
    \/ Sign(s) \/ SigningRaises(s) \/ SignInMemory(s)

SignerNext ==
    \/ \E s \in Signer : SigningStep(s)
    \/ \E k \in inFlight : ArriveLate(k)
    \/ RestartStore \/ RotateKey

SignerSpec == SignerInit /\ [][SignerNext]_signerVars

-----------------------------------------------------------------------------
(***************************************************************************)
(* A bundle is signed with a key that was in the store at some moment      *)
(* while it was being signed: not with one that a failed set call kept out *)
(* of the store, and not with one that a rotation had replaced before the  *)
(* signing began, whatever the other signers, late calls and admins do.    *)
(***************************************************************************)
SignedWithStoredKey ==
    \A s \in Signer :
        signing[s].pc = "signed" => signing[s].key \in held[s] \ junk

(***************************************************************************)
(* Signers that miss the key at the same time each store one of their own, *)
(* and every failed call may put another in its place; but that is all: a  *)
(* signer that finds a key keeps it.  In the memory of a process there is  *)
(* one, until the process restarts.                                        *)
(***************************************************************************)
KeysBounded ==
    /\ installs <= Cardinality(Signer) + doubts
    /\ depot = "memory" => installs <= 1
=============================================================================
