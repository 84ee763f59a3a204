--------------------------- MODULE ConnectionPool ---------------------------
(***************************************************************************)
(* What sessions rely on in the pool: a connection serves one session at a *)
(* time, and a session that has ended has given back what it held, so that *)
(* no connection is ever lost to the sessions still to come.               *)
(***************************************************************************)
CONSTANTS Conn, Session, None

VARIABLES
    free,      \* connections no session holds
    holder,    \* per session: the connection it holds
    closed     \* sessions that have ended

Init ==
    /\ free = Conn
    /\ holder = [s \in Session |-> None]
    /\ closed = {}

Take(s) ==
    /\ s \notin closed
    /\ holder[s] = None
    /\ \E c \in free :
        /\ holder' = [holder EXCEPT ![s] = c]
        /\ free' = free \ {c}
    /\ UNCHANGED closed

Give(s) ==
    /\ holder[s] # None
    /\ free' = free \cup {holder[s]}
    /\ holder' = [holder EXCEPT ![s] = None]
    /\ closed' \in {closed, closed \cup {s}}

Leave(s) ==
    /\ s \notin closed
    /\ holder[s] = None
    /\ closed' = closed \cup {s}
    /\ UNCHANGED <<free, holder>>

Next == \E s \in Session : Take(s) \/ Give(s) \/ Leave(s)

Spec == Init /\ [][Next]_<<free, holder, closed>>
=============================================================================
