---------------------------- MODULE SessionLine ----------------------------
(***************************************************************************)
(* What refresh token rotation promises of a login: its line of sessions   *)
(* has one session at a time.  A login starts a line, a refresh replaces   *)
(* its session by a new one, a logout ends it for good.                    *)
(***************************************************************************)
EXTENDS Naturals

CONSTANTS
    Line,      \* logins, named by the id of their first session
    Session    \* identities a session may have

VARIABLES
    holder,    \* per line: its live session, or None
    issued     \* per line: the sessions it has had

vars == <<holder, issued>>

None == 0

Init ==
    /\ holder = [l \in Line |-> None]
    /\ issued = [l \in Line |-> {}]

Hand(l, s) ==
    /\ s \in Session \ ({None} \cup issued[l])
    /\ holder' = [holder EXCEPT ![l] = s]
    /\ issued' = [issued EXCEPT ![l] = @ \cup {s}]

Login(l) == issued[l] = {} /\ Hand(l, l)

Refresh(l) == holder[l] # None /\ \E s \in Session : Hand(l, s)

Logout(l) ==
    /\ holder[l] # None
    /\ holder' = [holder EXCEPT ![l] = None]
    /\ UNCHANGED issued

Next == \E l \in Line : Login(l) \/ Refresh(l) \/ Logout(l)

Spec == Init /\ [][Next]_vars
=============================================================================
