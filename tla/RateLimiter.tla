---------------------------- MODULE RateLimiter ----------------------------
(***************************************************************************)
(* The request limits of RateLimiter.check: a counter per key and window   *)
(* of 60 seconds, in Redis, or in the memory of an API process that could  *)
(* not reach Redis when it started.  Keys do not influence each other, and *)
(* neither do Redis and the memories of the processes, so one key is       *)
(* modelled in one place: Redis, or one process.                           *)
(*                                                                         *)
(* The window is part of the name of the counter; it is known here by the  *)
(* second it starts.  In Redis a check is two calls, INCR and then, for    *)
(* the first of a window, EXPIRE; the time is read before the first.       *)
(***************************************************************************)
EXTENDS Naturals, FiniteSets

CONSTANTS
    Check,      \* checks that may be under way at the same time
    Limit,      \* requests admitted per window
    Window,     \* length of a window in seconds, 60
    Expiry,     \* time to live of a counter in seconds, 61
    MaxDelay,   \* seconds a check may come to Redis after the end of its window
    MaxTime,    \* bound: the last second
    MaxHits     \* bound: requests of one window

ASSUME RateLimiterAssumption ==
    /\ IsFiniteSet(Check)
    /\ Limit \in Nat /\ MaxHits \in Nat
    /\ Window \in Nat \ {0} /\ Expiry \in Nat /\ MaxDelay \in Nat
    /\ MaxTime \in Nat /\ MaxTime >= Window
    /\ Expiry >= Window + MaxDelay

VARIABLES
    clock,      \* the time in whole seconds
    start,      \* the second the current window started
    place,      \* where the requests are counted
    hits,       \* the counters, per window; 0 when there is none
    expires,    \* per counter: the time to live, or _memory_expiry; 0 when unset
    check,      \* the checks that wait for Redis
    counted,    \* requests counted so far, per window (auxiliary)
    admitted,   \* requests admitted so far, per window (auxiliary)
    refused     \* windows in which a request got a 429 (auxiliary)

timeVars    == <<clock, start, place>>
counterVars == <<hits, expires>>
tallyVars   == <<counted, admitted, refused>>
limiterVars == <<timeVars, counterVars, check, tallyVars>>

Second == 0 .. MaxTime

NoCheck == [pc |-> "none"]

CheckState ==
    {NoCheck}
    \cup [pc : {"begun"}, window : Second]
    \cup [pc : {"expiring", "counted"}, window : Second, ticket : Nat \ {0}]

LimiterTypeOK ==
    /\ clock \in Second /\ start \in Second
    /\ place \in {"redis", "memory"}
    /\ hits \in [Second -> Nat]
    /\ expires \in [Second -> Nat]
    /\ check \in [Check -> CheckState]
    /\ counted \in [Second -> Nat]
    /\ admitted \in [Second -> Nat]
    /\ refused \subseteq Second

Zero == [w \in Second |-> 0]

\* startup pings Redis once and counts in memory if there is no answer.
LimiterInit ==
    /\ clock = Window /\ start = Window
    /\ place \in {"redis", "memory"}
    /\ hits = Zero /\ expires = Zero
    /\ check = [c \in Check |-> NoCheck]
    /\ counted = Zero /\ admitted = Zero /\ refused = {}

-----------------------------------------------------------------------------
Counted(w) == counted' = [counted EXCEPT ![w] = @ + 1]

\* A request that is the n-th of its window goes on, or gets a 429.
Answer(w, n) ==
    IF n <= Limit
    THEN admitted' = [admitted EXCEPT ![w] = @ + 1] /\ UNCHANGED refused
    ELSE refused' = refused \cup {w} /\ UNCHANGED admitted

\* In memory there is no await: the event loop runs nothing in between.
CheckInMemory ==
    /\ place = "memory"
    /\ LET stale == expires[start] < clock
           n     == IF stale THEN 1 ELSE hits[start] + 1
       IN  /\ n <= MaxHits
           /\ hits' = [hits EXCEPT ![start] = n]
           /\ expires' = IF stale THEN [expires EXCEPT ![start] = clock + Expiry] ELSE expires
           /\ Answer(start, n)
    /\ Counted(start)
    /\ UNCHANGED <<timeVars, check>>

\* The process restarts, without Redis again: its counters are those of a new process.
ForgetMemory ==
    /\ place = "memory"
    /\ hits' = Zero /\ expires' = Zero
    /\ counted' = Zero /\ admitted' = Zero /\ refused' = {}
    /\ UNCHANGED <<timeVars, check>>

-----------------------------------------------------------------------------
BeginCheck(c) ==
    /\ place = "redis"
    /\ check[c] = NoCheck
    /\ check' = [check EXCEPT ![c] = [pc |-> "begun", window |-> start]]
    /\ UNCHANGED <<timeVars, counterVars, tallyVars>>

\* Mutant of CounterOf: one counter per client, the window left to the expiry.
CounterOfClient(w) == Window

\* The counter a request of window w is counted by.
CounterOf(w) == w

\* Redis drops a counter whose time to live is over; one without lives on.
Hits(w) == IF expires[w] # 0 /\ expires[w] <= clock THEN 0 ELSE hits[w]

\* INCR; the first of a window goes on to EXPIRE.
Increment(c) ==
    /\ check[c].pc = "begun"
    /\ LET w == check[c].window
           k == CounterOf(w)
           n == Hits(k) + 1
       IN  /\ n <= MaxHits
           /\ hits' = [hits EXCEPT ![k] = n]
           /\ expires' = IF n = 1 THEN [expires EXCEPT ![k] = 0] ELSE expires
           /\ check' = [check EXCEPT ![c] =
                  [pc |-> IF n = 1 THEN "expiring" ELSE "counted", window |-> w, ticket |-> n]]
           /\ Counted(w)
    /\ UNCHANGED <<timeVars, admitted, refused>>

\* EXPIRE of a counter that is no longer there does nothing.
SetExpiry(c) ==
    /\ check[c].pc = "expiring"
    /\ LET w == check[c].window
           k == CounterOf(w)
       IN  /\ expires' = IF Hits(k) = 0 THEN expires ELSE [expires EXCEPT ![k] = clock + Expiry]
           /\ check' = [check EXCEPT ![c] =
                  [pc |-> "counted", window |-> w, ticket |-> check[c].ticket]]
    /\ UNCHANGED <<timeVars, hits, tallyVars>>

EndCheck(c) ==
    /\ check[c].pc = "counted"
    /\ Answer(check[c].window, check[c].ticket)
    /\ check' = [check EXCEPT ![c] = NoCheck]
    /\ UNCHANGED <<timeVars, counterVars, counted>>

\* A call fails, the client goes away or the process dies: what was counted stays counted.
CheckRaises(c) ==
    /\ check[c] # NoCheck
    /\ check' = [check EXCEPT ![c] = NoCheck]
    /\ UNCHANGED <<timeVars, counterVars, tallyVars>>

\* A check comes to Redis at most MaxDelay seconds after the end of its window.
Tick ==
    /\ clock < MaxTime
    /\ \A c \in Check : check[c].pc = "begun" => clock + 1 < check[c].window + Window + MaxDelay
    /\ clock' = clock + 1
    /\ start' = IF clock + 1 = start + Window THEN clock + 1 ELSE start
    /\ UNCHANGED <<place, counterVars, check, tallyVars>>

CheckStep(c) == BeginCheck(c) \/ Increment(c) \/ SetExpiry(c) \/ EndCheck(c) \/ CheckRaises(c)

LimiterNext == CheckInMemory \/ ForgetMemory \/ Tick \/ \E c \in Check : CheckStep(c)

LimiterSpec == LimiterInit /\ [][LimiterNext]_limiterVars

-----------------------------------------------------------------------------
(***************************************************************************)
(* In every window a counter admits no more requests than the limit,       *)
(* checks that straddle the window's end included, and it refuses one only *)
(* when more than the limit came in that very window: a process that dies  *)
(* between INCR and EXPIRE leaves a counter behind that locks nobody out   *)
(* of a later window.                                                      *)
(***************************************************************************)
WindowsHoldTheLimit ==
    \A w \in Second : admitted[w] <= Limit /\ (w \in refused => counted[w] > Limit)
=============================================================================
