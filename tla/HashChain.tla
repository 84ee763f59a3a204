----------------------------- MODULE HashChain -----------------------------
(***************************************************************************)
(* What an organisation's audit log promises: one unbroken chain.  `head`  *)
(* is the entry a verifier starts from, `link` holds one pair <<p, e>> per *)
(* entry e, p being the entry whose hash e carries.  The only step is to   *)
(* append one new entry behind the current head.                           *)
(***************************************************************************)
EXTENDS Naturals

CONSTANTS
    Org,
    Id      \* identities an entry may have

VARIABLES head, link

vars == <<head, link>>

Genesis == 0    \* stands for the 64 zeros of a first entry's prev_hash

Init == /\ head = [o \in Org |-> Genesis]
        /\ link = [o \in Org |-> {}]

Append(o) ==
    \E e \in Id \ {Genesis} :
        /\ \A pair \in link[o] : pair[2] # e
        /\ head' = [head EXCEPT ![o] = e]
        /\ link' = [link EXCEPT ![o] = @ \cup {<<head[o], e>>}]

Next == \E o \in Org : Append(o)

Spec == Init /\ [][Next]_vars
=============================================================================
