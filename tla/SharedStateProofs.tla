------------------------- MODULE SharedStateProofs -------------------------
(***************************************************************************)
(* Proofs about the rate limiter, for any number of checks, any limit and  *)
(* any times that satisfy RateLimiterAssumption, and about the signing     *)
(* key, for any number of signers.                                         *)
(***************************************************************************)
EXTENDS RateLimiter, SigningKey, FiniteSetTheorems, TLAPS

-----------------------------------------------------------------------------
(***************************************************************************)
(* The limiter.  LimiterInv says why a counter never restarts while its    *)
(* window is counted: no time to live ends before the last check of the    *)
(* window has come (Timely), so the counter is the number of requests of   *)
(* the window.  Every check that may still be admitted then has a ticket   *)
(* of its own below the limit (TicketsLeft).                               *)
(***************************************************************************)
Admissible(f, w) ==
    {c \in Check : f[c].pc \in {"expiring", "counted"} /\ f[c].window = w /\ f[c].ticket <= Limit}

Timely ==
    /\ Window <= start /\ start <= clock /\ clock < start + Window
    /\ \A w \in Second : expires[w] = 0 \/ expires[w] >= w + Expiry
    /\ \A c \in Check : check[c] # NoCheck => place = "redis" /\ check[c].window <= clock
    /\ \A c \in Check : check[c].pc = "begun" => clock < check[c].window + Window + MaxDelay
    /\ place = "memory" => \A w \in Second : expires[w] = 0 => hits[w] = 0

TicketsCounted ==
    \A c \in Check :
        check[c].pc \in {"expiring", "counted"} => check[c].ticket <= counted[check[c].window]

TicketsLeft ==
    \A w \in Second :
        /\ admitted[w] + Cardinality(Admissible(check, w)) <= Limit
        /\ admitted[w] + Cardinality(Admissible(check, w)) <= hits[w]

RefusedOver == \A w \in refused : counted[w] > Limit

LimiterInv ==
    /\ LimiterTypeOK
    /\ Timely
    /\ hits = counted
    /\ TicketsCounted
    /\ TicketsLeft
    /\ RefusedOver

\* Sets that differ from a finite one in at most an element.
LEMMA SizeWith ==
    ASSUME NEW S, IsFiniteSet(S), NEW x, NEW T, T \subseteq S \cup {x}
    PROVE  /\ IsFiniteSet(T)
           /\ Cardinality(S) \in Nat /\ Cardinality(T) \in Nat
           /\ Cardinality(T) <= Cardinality(S) + 1
<1>1. /\ IsFiniteSet(S \cup {x})
      /\ Cardinality(S \cup {x}) = IF x \in S THEN Cardinality(S) ELSE Cardinality(S) + 1
  BY FS_AddElement
<1>2. IsFiniteSet(T) /\ Cardinality(T) <= Cardinality(S \cup {x})
  BY <1>1, FS_Subset
<1>3. Cardinality(S) \in Nat /\ Cardinality(T) \in Nat
  BY <1>2, FS_CardinalityType
<1> QED
  BY <1>1, <1>2, <1>3

LEMMA SizeWithout ==
    ASSUME NEW S, IsFiniteSet(S), NEW x, NEW T, T \subseteq S \ {x}
    PROVE  /\ IsFiniteSet(T)
           /\ Cardinality(S) \in Nat /\ Cardinality(T) \in Nat
           /\ Cardinality(T) <= Cardinality(S)
           /\ x \in S => Cardinality(T) + 1 <= Cardinality(S)
<1>1. /\ IsFiniteSet(S \ {x})
      /\ Cardinality(S \ {x}) = IF x \in S THEN Cardinality(S) - 1 ELSE Cardinality(S)
  BY FS_RemoveElement
<1>2. IsFiniteSet(T) /\ Cardinality(T) <= Cardinality(S \ {x})
  BY <1>1, FS_Subset
<1>3. Cardinality(S) \in Nat /\ Cardinality(T) \in Nat
  BY <1>2, FS_CardinalityType
<1> QED
  BY <1>1, <1>2, <1>3

\* What one check's state can do to the checks that may still be admitted.
LEMMA AdmissibleChange ==
    ASSUME NEW f \in [Check -> CheckState], NEW c \in Check, NEW r \in CheckState, NEW w \in Second
    PROVE  LET g    == [f EXCEPT ![c] = r]
               mine == r.pc \in {"expiring", "counted"} /\ r.window = w /\ r.ticket <= Limit
           IN  /\ Cardinality(Admissible(f, w)) \in Nat
               /\ Cardinality(Admissible(g, w)) \in Nat
               /\ Cardinality(Admissible(g, w)) <= Cardinality(Admissible(f, w)) + 1
               /\ ~ mine => Cardinality(Admissible(g, w)) <= Cardinality(Admissible(f, w))
               /\ ~ mine /\ c \in Admissible(f, w) =>
                      Cardinality(Admissible(g, w)) + 1 <= Cardinality(Admissible(f, w))
<1> DEFINE g    == [f EXCEPT ![c] = r]
           mine == r.pc \in {"expiring", "counted"} /\ r.window = w /\ r.ticket <= Limit
           F    == Admissible(f, w)
           G    == Admissible(g, w)
<1>1. IsFiniteSet(F)
  BY FS_Subset, RateLimiterAssumption DEF Admissible
<1>2. G \subseteq F \cup {c} /\ (~ mine => G \subseteq F \ {c})
  BY DEF Admissible
<1> HIDE DEF F, G, mine
<1>3. /\ Cardinality(F) \in Nat /\ Cardinality(G) \in Nat
      /\ Cardinality(G) <= Cardinality(F) + 1
  BY <1>1, <1>2, SizeWith
<1>4. ~ mine => /\ Cardinality(G) <= Cardinality(F)
                /\ c \in F => Cardinality(G) + 1 <= Cardinality(F)
  BY <1>1, <1>2, SizeWithout
<1> QED
  BY <1>3, <1>4 DEF F, G, mine

LEMMA CheckFacts ==
    ASSUME LimiterTypeOK, NEW c \in Check
    PROVE  /\ check[c] \in CheckState
           /\ check[c] # NoCheck => check[c].window \in Second
           /\ check[c].pc = "none" <=> check[c] = NoCheck
           /\ check[c].pc \in {"expiring", "counted"} => check[c].ticket \in Nat \ {0}
           /\ check[c].pc \in {"none", "begun", "expiring", "counted"}
BY DEF LimiterTypeOK, CheckState, NoCheck

LEMMA LimiterStarts == LimiterInit => LimiterInv
<1> SUFFICES ASSUME LimiterInit PROVE LimiterInv
  OBVIOUS
<1> USE DEF LimiterInit, Zero, NoCheck
<1>1. LimiterTypeOK
  BY RateLimiterAssumption DEF LimiterTypeOK, CheckState, Second
<1>2. Timely
  BY RateLimiterAssumption DEF Timely, Second
<1>3. \A w \in Second : Admissible(check, w) = {}
  BY DEF Admissible
<1>4. TicketsLeft
  BY <1>3, FS_EmptySet, RateLimiterAssumption DEF TicketsLeft
<1> QED
  BY <1>1, <1>2, <1>4 DEF LimiterInv, TicketsCounted, RefusedOver

\* A check in the memory of a process.
LEMMA MemoryKeeps == LimiterInv /\ CheckInMemory => LimiterInv'
<1> SUFFICES ASSUME LimiterInv, CheckInMemory PROVE LimiterInv'
  OBVIOUS
<1> DEFINE n == hits[start] + 1
<1>1. LimiterTypeOK /\ Timely /\ hits = counted /\ TicketsCounted /\ TicketsLeft /\ RefusedOver
  BY DEF LimiterInv
<1>2. /\ clock \in Second /\ start \in Second /\ clock \in Nat /\ start \in Nat
      /\ hits \in [Second -> Nat] /\ expires \in [Second -> Nat] /\ admitted \in [Second -> Nat]
      /\ refused \subseteq Second
  BY <1>1 DEF LimiterTypeOK, Second
<1>3. \A c \in Check : check[c] = NoCheck
  BY <1>1 DEF Timely, CheckInMemory
<1>4. expires[start] < clock => hits[start] = 0
  BY <1>1, <1>2, RateLimiterAssumption DEF Timely, CheckInMemory
<1>5. /\ n \in Nat /\ hits' = [hits EXCEPT ![start] = n]
      /\ counted' = [counted EXCEPT ![start] = counted[start] + 1]
      /\ \/ n <= Limit /\ admitted' = [admitted EXCEPT ![start] = @ + 1] /\ refused' = refused
         \/ n > Limit /\ refused' = refused \cup {start} /\ admitted' = admitted
      /\ \/ expires[start] < clock /\ expires' = [expires EXCEPT ![start] = clock + Expiry]
         \/ expires[start] >= clock /\ expires' = expires
  <2>1. (IF expires[start] < clock THEN 1 ELSE hits[start] + 1) = n /\ n \in Nat
    BY <1>2, <1>4
  <2> HIDE DEF n
  <2>2. /\ hits' = [hits EXCEPT ![start] = n] /\ Answer(start, n) /\ Counted(start)
        /\ expires' = IF expires[start] < clock
                      THEN [expires EXCEPT ![start] = clock + Expiry] ELSE expires
    BY <2>1 DEF CheckInMemory
  <2>3. n <= Limit \/ n > Limit
    BY <2>1, RateLimiterAssumption
  <2>4. ~ (n <= Limit /\ n > Limit)
    BY <2>1, RateLimiterAssumption
  <2>5. \/ n <= Limit /\ admitted' = [admitted EXCEPT ![start] = @ + 1] /\ refused' = refused
        \/ n > Limit /\ refused' = refused \cup {start} /\ admitted' = admitted
    BY <2>2, <2>3, <2>4 DEF Answer
  <2>6. \/ expires[start] < clock /\ expires' = [expires EXCEPT ![start] = clock + Expiry]
        \/ expires[start] >= clock /\ expires' = expires
    BY <1>2, <2>2
  <2> QED
    BY <2>1, <2>2, <2>5, <2>6 DEF Counted
<1>6. UNCHANGED <<clock, start, place, check>>
  BY DEF CheckInMemory, timeVars
<1>7. hits' = counted'
  BY <1>1, <1>5
<1>8. LimiterTypeOK'
  <2>1. hits' \in [Second -> Nat] /\ counted' \in [Second -> Nat]
    BY <1>2, <1>5, <1>7
  <2>2. expires' \in [Second -> Nat]
    BY <1>2, <1>5, RateLimiterAssumption
  <2>3. admitted' \in [Second -> Nat]
    <3>1. CASE admitted' = admitted
      BY <1>2, <3>1
    <3>2. CASE admitted' = [admitted EXCEPT ![start] = @ + 1]
      BY <1>2, <3>2
    <3> QED
      BY <1>5, <3>1, <3>2
  <2>4. refused' \subseteq Second
    BY <1>2, <1>5
  <2> QED
    BY <1>1, <1>6, <2>1, <2>2, <2>3, <2>4 DEF LimiterTypeOK
<1>9. Timely'
  <2>1. \A w \in Second : expires'[w] = 0 \/ expires'[w] >= w + Expiry
    <3> SUFFICES ASSUME NEW w \in Second, w # start \/ expires'[w] # expires[w]
                 PROVE  expires'[w] = 0 \/ expires'[w] >= w + Expiry
      BY <1>1, <1>2 DEF Timely
    <3>1. CASE expires' = expires
      BY <1>1, <3>1 DEF Timely
    <3>2. CASE expires' = [expires EXCEPT ![start] = clock + Expiry]
      <4>1. CASE w = start
        BY <1>1, <1>2, <3>2, <4>1, RateLimiterAssumption DEF Timely
      <4>2. CASE w # start
        BY <1>1, <1>2, <3>2, <4>2 DEF Timely
      <4> QED
        BY <4>1, <4>2
    <3> QED
      BY <1>5, <3>1, <3>2
  <2>2. \A w \in Second : expires'[w] = 0 => hits'[w] = 0
    <3> SUFFICES ASSUME NEW w \in Second, expires'[w] = 0 PROVE hits'[w] = 0
      OBVIOUS
    <3>1. w # start
      <4>1. CASE expires[start] < clock
        BY <1>2, <1>5, <4>1, RateLimiterAssumption
      <4>2. CASE ~ expires[start] < clock
        <5>1. clock > 0
          BY <1>1, <1>2, RateLimiterAssumption DEF Timely
        <5> QED
          BY <1>2, <1>5, <4>2, <5>1
      <4> QED
        BY <4>1, <4>2
    <3> QED
      BY <1>1, <1>2, <1>5, <3>1 DEF Timely, CheckInMemory
  <2> QED
    BY <1>1, <1>3, <1>6, <2>1, <2>2 DEF Timely, NoCheck
<1>10. TicketsCounted'
  BY <1>3, <1>6 DEF TicketsCounted, NoCheck
<1>11. TicketsLeft'
  <2>1. \A w \in Second : Admissible(check, w) = {}
    BY <1>3 DEF Admissible, NoCheck
  <2>2. \A w \in Second : admitted[w] <= Limit /\ admitted[w] <= hits[w]
    BY <1>1, <1>2, <2>1, FS_EmptySet DEF TicketsLeft
  <2>3. \A w \in Second : admitted'[w] <= Limit /\ admitted'[w] <= hits'[w] /\ admitted'[w] \in Nat
    BY <1>2, <1>5, <2>2, RateLimiterAssumption
  <2> QED
    BY <1>6, <2>1, <2>3, FS_EmptySet DEF TicketsLeft
<1>12. RefusedOver'
  <2> SUFFICES ASSUME NEW w \in refused' PROVE counted'[w] > Limit
    BY DEF RefusedOver
  <2>1. CASE w \in refused
    BY <1>1, <1>2, <1>5, <2>1, RateLimiterAssumption DEF RefusedOver
  <2>2. CASE w \notin refused
    BY <1>1, <1>2, <1>5, <2>2, RateLimiterAssumption
  <2> QED
    BY <2>1, <2>2
<1> QED
  BY <1>7, <1>8, <1>9, <1>10, <1>11, <1>12 DEF LimiterInv

LEMMA ForgetKeeps == LimiterInv /\ ForgetMemory => LimiterInv'
<1> SUFFICES ASSUME LimiterInv, ForgetMemory PROVE LimiterInv'
  OBVIOUS
<1>1. LimiterTypeOK /\ Timely /\ UNCHANGED <<clock, start, place, check>> /\ refused' = {}
  BY DEF LimiterInv, ForgetMemory, timeVars
<1>2. /\ hits' = counted' /\ hits' \in [Second -> Nat] /\ expires' \in [Second -> Nat]
      /\ admitted' \in [Second -> Nat]
      /\ \A w \in Second : hits'[w] = 0 /\ admitted'[w] = 0 /\ expires'[w] = 0
  BY DEF ForgetMemory, Zero
<1>3. \A c \in Check : check[c] = NoCheck
  BY <1>1 DEF Timely, ForgetMemory
<1>4. LimiterTypeOK'
  BY <1>1, <1>2 DEF LimiterTypeOK
<1>5. Timely'
  BY <1>1, <1>2, <1>3 DEF Timely, NoCheck
<1>6. TicketsLeft'
  <2>1. \A w \in Second : Admissible(check', w) = {}
    BY <1>1, <1>3 DEF Admissible, NoCheck
  <2> QED
    BY <1>2, <2>1, FS_EmptySet, RateLimiterAssumption DEF TicketsLeft
<1> QED
  BY <1>1, <1>2, <1>3, <1>4, <1>5, <1>6 DEF LimiterInv, TicketsCounted, RefusedOver, NoCheck

LEMMA TickKeeps == LimiterInv /\ Tick => LimiterInv'
<1> SUFFICES ASSUME LimiterInv, Tick PROVE LimiterInv'
  OBVIOUS
<1>1. LimiterTypeOK /\ Timely /\ UNCHANGED <<place, hits, expires, check, counted, admitted, refused>>
  BY DEF LimiterInv, Tick, counterVars, tallyVars
<1>2. LimiterTypeOK'
  BY <1>1, RateLimiterAssumption DEF LimiterTypeOK, Tick, Second
<1>3. Timely'
  <2>1. Window <= start' /\ start' <= clock' /\ clock' < start' + Window
    BY <1>1, RateLimiterAssumption DEF LimiterTypeOK, Timely, Tick, Second
  <2>2. \A c \in Check : check[c] # NoCheck => check[c].window <= clock'
    BY <1>1, CheckFacts DEF LimiterTypeOK, Timely, Tick, Second
  <2> QED
    BY <1>1, <2>1, <2>2 DEF Timely, Tick
<1> QED
  BY <1>1, <1>2, <1>3 DEF LimiterInv, TicketsCounted, TicketsLeft, RefusedOver

\* What the steps of a check have in common, given what they do to it and to the counters.
LEMMA CheckFrame ==
    ASSUME LimiterInv, NEW c \in Check, NEW r \in CheckState,
           check' = [check EXCEPT ![c] = r], UNCHANGED <<clock, start, place>>, place = "redis",
           r # NoCheck => r.window <= clock,
           r.pc = "begun" => clock < r.window + Window + MaxDelay
    PROVE  /\ check' \in [Check -> CheckState]
           /\ \A d \in Check : check'[d] # NoCheck => place' = "redis" /\ check'[d].window <= clock'
           /\ \A d \in Check : check'[d].pc = "begun" => clock' < check'[d].window + Window + MaxDelay
<1>1. check \in [Check -> CheckState] /\ Timely
  BY DEF LimiterInv, LimiterTypeOK
<1> QED
  BY <1>1 DEF Timely

LEMMA BeginKeeps == ASSUME NEW c \in Check PROVE LimiterInv /\ BeginCheck(c) => LimiterInv'
<1> SUFFICES ASSUME LimiterInv, BeginCheck(c) PROVE LimiterInv'
  OBVIOUS
<1> DEFINE r == [pc |-> "begun", window |-> start]
<1>1. /\ LimiterTypeOK /\ Timely /\ TicketsCounted /\ TicketsLeft
      /\ UNCHANGED <<clock, start, place, hits, expires, counted, admitted, refused>>
      /\ check' = [check EXCEPT ![c] = r] /\ place = "redis"
  BY DEF LimiterInv, BeginCheck, timeVars, counterVars, tallyVars
<1>2. /\ r \in CheckState /\ r.window <= clock /\ clock < r.window + Window + MaxDelay
      /\ r.pc = "begun"
  BY <1>1, RateLimiterAssumption DEF LimiterTypeOK, CheckState, Timely, Second
<1>3. LimiterTypeOK' /\ Timely'
  BY <1>1, <1>2, CheckFrame DEF LimiterTypeOK, Timely
<1>4. TicketsCounted'
  BY <1>1, <1>2 DEF TicketsCounted, LimiterTypeOK
<1>5. TicketsLeft'
  <2> SUFFICES ASSUME NEW w \in Second
               PROVE  /\ admitted[w] + Cardinality(Admissible(check', w)) <= Limit
                      /\ admitted[w] + Cardinality(Admissible(check', w)) <= hits[w]
    BY <1>1 DEF TicketsLeft
  <2>1. /\ Cardinality(Admissible(check', w)) <= Cardinality(Admissible(check, w))
        /\ Cardinality(Admissible(check', w)) \in Nat /\ Cardinality(Admissible(check, w)) \in Nat
    BY <1>1, <1>2, AdmissibleChange DEF LimiterTypeOK
  <2> QED
    BY <1>1, <2>1, RateLimiterAssumption DEF TicketsLeft, LimiterTypeOK
<1> QED
  BY <1>1, <1>3, <1>4, <1>5 DEF LimiterInv, RefusedOver

\* A counter is never dropped before the last check of its window: INCR adds one to it.
LEMMA IncrementFacts ==
    ASSUME LimiterInv, NEW c \in Check, Increment(c)
    PROVE  \E w \in Second :
               LET n == hits[w] + 1
                   r == [pc |-> IF n = 1 THEN "expiring" ELSE "counted", window |-> w, ticket |-> n]
               IN  /\ check[c].pc = "begun" /\ check[c].window = w /\ w <= clock /\ place = "redis"
                   /\ n \in Nat \ {0} /\ r \in CheckState
                   /\ hits' = [hits EXCEPT ![w] = n]
                   /\ counted' = [counted EXCEPT ![w] = counted[w] + 1]
                   /\ check' = [check EXCEPT ![c] = r]
                   /\ expires' \in {expires, [expires EXCEPT ![w] = 0]}
                   /\ UNCHANGED <<clock, start, place, admitted, refused>>
<1> DEFINE w == check[c].window
           n == hits[w] + 1
           r == [pc |-> IF n = 1 THEN "expiring" ELSE "counted", window |-> w, ticket |-> n]
<1>1. LimiterTypeOK /\ Timely /\ check[c].pc = "begun"
  BY DEF LimiterInv, Increment
<1>2. check[c] # NoCheck /\ w \in Second
  BY <1>1, CheckFacts
<1>3. /\ w <= clock /\ place = "redis" /\ clock < w + Window + MaxDelay
      /\ w \in Nat /\ clock \in Nat /\ expires[w] \in Nat /\ hits[w] \in Nat
      /\ expires[w] = 0 \/ expires[w] >= w + Expiry
  BY <1>1, <1>2 DEF Timely, LimiterTypeOK, Second
<1>4. Hits(w) = hits[w]
  BY <1>3, RateLimiterAssumption DEF Hits
<1>5. n \in Nat \ {0} /\ r \in CheckState
  BY <1>2, <1>3 DEF CheckState
<1>6. /\ hits' = [hits EXCEPT ![w] = n]
      /\ check' = [check EXCEPT ![c] = r]
      /\ expires' = IF n = 1 THEN [expires EXCEPT ![w] = 0] ELSE expires
      /\ Counted(w)
      /\ UNCHANGED <<clock, start, place, admitted, refused>>
  BY <1>4 DEF Increment, CounterOf, timeVars
<1>7. expires' \in {expires, [expires EXCEPT ![w] = 0]}
  BY <1>6
<1> QED
  BY <1>1, <1>2, <1>3, <1>5, <1>6, <1>7 DEF Counted

LEMMA IncrementKeeps == ASSUME NEW c \in Check PROVE LimiterInv /\ Increment(c) => LimiterInv'
<1> SUFFICES ASSUME LimiterInv, Increment(c) PROVE LimiterInv'
  OBVIOUS
<1> DEFINE R(w) == [pc |-> IF hits[w] + 1 = 1 THEN "expiring" ELSE "counted",
                    window |-> w, ticket |-> hits[w] + 1]
<1>1. PICK w \in Second :
          /\ check[c].pc = "begun" /\ check[c].window = w /\ w <= clock /\ place = "redis"
          /\ hits[w] + 1 \in Nat \ {0} /\ R(w) \in CheckState
          /\ hits' = [hits EXCEPT ![w] = hits[w] + 1]
          /\ counted' = [counted EXCEPT ![w] = counted[w] + 1]
          /\ check' = [check EXCEPT ![c] = R(w)]
          /\ expires' \in {expires, [expires EXCEPT ![w] = 0]}
          /\ UNCHANGED <<clock, start, place, admitted, refused>>
  BY IncrementFacts
<1>2. LimiterTypeOK /\ Timely /\ hits = counted /\ TicketsCounted /\ TicketsLeft /\ RefusedOver
  BY DEF LimiterInv
<1>3. hits \in [Second -> Nat] /\ expires \in [Second -> Nat] /\ check \in [Check -> CheckState]
  BY <1>2 DEF LimiterTypeOK
<1> DEFINE r == R(w)
<1>4. /\ r \in CheckState /\ r.pc \in {"expiring", "counted"} /\ r.window = w
      /\ r.ticket = hits[w] + 1
  BY <1>1
<1>5. check' = [check EXCEPT ![c] = r]
  BY <1>1
<1> HIDE DEF r, R
<1>6. /\ check' \in [Check -> CheckState]
      /\ \A d \in Check : check'[d] # NoCheck => place' = "redis" /\ check'[d].window <= clock'
      /\ \A d \in Check : check'[d].pc = "begun" => clock' < check'[d].window + Window + MaxDelay
  <2>1. r # NoCheck => r.window <= clock
    BY <1>1, <1>4
  <2>2. r.pc = "begun" => clock < r.window + Window + MaxDelay
    BY <1>4
  <2>3. UNCHANGED <<clock, start, place>> /\ place = "redis" /\ r \in CheckState
    BY <1>1, <1>4
  <2> QED
    BY <1>5, <2>1, <2>2, <2>3, CheckFrame
<1>7. hits' = counted' /\ hits' \in [Second -> Nat]
  BY <1>1, <1>2, <1>3
<1>8. expires' \in [Second -> Nat] /\ \A v \in Second : expires'[v] = 0 \/ expires'[v] >= v + Expiry
  BY <1>1, <1>2, <1>3 DEF Timely
<1>9. LimiterTypeOK' /\ Timely'
  BY <1>1, <1>2, <1>6, <1>7, <1>8 DEF LimiterTypeOK, Timely
<1>10. \A v \in Second : counted'[v] >= counted[v] /\ counted'[v] \in Nat /\ counted[v] \in Nat
  BY <1>1, <1>2, <1>3
<1>11. TicketsCounted'
  <2> SUFFICES ASSUME NEW d \in Check, check'[d].pc \in {"expiring", "counted"}
               PROVE  check'[d].ticket <= counted'[check'[d].window]
    BY DEF TicketsCounted
  <2>1. CASE d = c
    BY <1>1, <1>2, <1>3, <1>4, <1>5, <2>1
  <2>2. CASE d # c
    <3>1. check'[d] = check[d]
      BY <1>3, <1>5, <2>2
    <3>2. check[d].window \in Second /\ check[d].ticket \in Nat
      BY <1>2, <3>1, CheckFacts
    <3> QED
      BY <1>2, <1>10, <3>1, <3>2 DEF TicketsCounted
  <2> QED
    BY <2>1, <2>2
<1>12. TicketsLeft'
  <2> SUFFICES ASSUME NEW v \in Second
               PROVE  /\ admitted[v] + Cardinality(Admissible(check', v)) <= Limit
                      /\ admitted[v] + Cardinality(Admissible(check', v)) <= hits'[v]
    BY <1>1 DEF TicketsLeft
  <2> DEFINE mine == r.pc \in {"expiring", "counted"} /\ r.window = v /\ r.ticket <= Limit
             a    == Cardinality(Admissible(check, v))
             b    == Cardinality(Admissible(check', v))
  <2>1. a \in Nat /\ b \in Nat /\ b <= a + 1 /\ (~ mine => b <= a)
    BY <1>3, <1>4, <1>5, AdmissibleChange
  <2>2. mine => v = w /\ hits[w] + 1 <= Limit
    BY <1>4
  <2>3. admitted[v] + a <= Limit /\ admitted[v] + a <= hits[v] /\ admitted[v] \in Nat
    BY <1>2 DEF TicketsLeft, LimiterTypeOK
  <2> HIDE DEF a, b, mine
  <2>4. CASE mine
    <3>1. hits'[v] = hits[v] + 1 /\ hits[v] + 1 <= Limit /\ hits[v] \in Nat
      BY <1>1, <1>3, <2>2, <2>4
    <3> QED
      BY <2>1, <2>3, <3>1, RateLimiterAssumption DEF b
  <2>5. CASE ~ mine
    <3>1. hits'[v] >= hits[v] /\ hits[v] \in Nat /\ hits'[v] \in Nat
      BY <1>1, <1>3
    <3> QED
      BY <2>1, <2>3, <2>5, <3>1, RateLimiterAssumption DEF b
  <2> QED
    BY <2>4, <2>5
<1>13. RefusedOver'
  <2> SUFFICES ASSUME NEW v \in refused PROVE counted'[v] > Limit
    BY <1>1 DEF RefusedOver
  <2>1. v \in Second /\ counted[v] > Limit
    BY <1>2 DEF RefusedOver, LimiterTypeOK
  <2> QED
    BY <1>10, <2>1, RateLimiterAssumption
<1> QED
  BY <1>7, <1>9, <1>11, <1>12, <1>13 DEF LimiterInv

\* A step that only moves a check on, or ends it, keeps the tickets.
LEMMA TicketsAfter ==
    ASSUME LimiterInv, NEW c \in Check, NEW r \in CheckState, check' = [check EXCEPT ![c] = r],
           UNCHANGED <<hits, counted, admitted>>,
           \/ r = NoCheck
           \/ /\ check[c].pc \in {"expiring", "counted"} /\ r.pc = "counted"
              /\ r.window = check[c].window /\ r.ticket = check[c].ticket
    PROVE  TicketsCounted' /\ TicketsLeft'
<1>1. /\ LimiterTypeOK /\ TicketsCounted /\ TicketsLeft
      /\ check \in [Check -> CheckState]
  BY DEF LimiterInv, LimiterTypeOK
<1>2. TicketsCounted'
  BY <1>1 DEF TicketsCounted, NoCheck
<1>3. \A w \in Second : Admissible(check', w) \subseteq Admissible(check, w)
  BY <1>1 DEF Admissible, NoCheck
<1>4. TicketsLeft'
  <2> SUFFICES ASSUME NEW w \in Second
               PROVE  /\ admitted[w] + Cardinality(Admissible(check', w)) <= Limit
                      /\ admitted[w] + Cardinality(Admissible(check', w)) <= hits[w]
    BY DEF TicketsLeft
  <2>1. IsFiniteSet(Admissible(check, w))
    BY FS_Subset, RateLimiterAssumption DEF Admissible
  <2>2. /\ Cardinality(Admissible(check', w)) <= Cardinality(Admissible(check, w))
        /\ IsFiniteSet(Admissible(check', w))
    BY <1>3, <2>1, FS_Subset
  <2>3. Cardinality(Admissible(check', w)) \in Nat /\ Cardinality(Admissible(check, w)) \in Nat
    BY <2>1, <2>2, FS_CardinalityType
  <2> QED
    BY <1>1, <2>2, <2>3, RateLimiterAssumption DEF TicketsLeft, LimiterTypeOK
<1> QED
  BY <1>2, <1>4

LEMMA SetExpiryKeeps == ASSUME NEW c \in Check PROVE LimiterInv /\ SetExpiry(c) => LimiterInv'
<1> SUFFICES ASSUME LimiterInv, SetExpiry(c) PROVE LimiterInv'
  OBVIOUS
<1> DEFINE w == check[c].window
           r == [pc |-> "counted", window |-> w, ticket |-> check[c].ticket]
<1>1. /\ LimiterTypeOK /\ Timely /\ check[c].pc = "expiring" /\ hits = counted /\ RefusedOver
      /\ UNCHANGED <<clock, start, place, hits, counted, admitted, refused>>
      /\ check' = [check EXCEPT ![c] = r]
      /\ expires' = IF Hits(w) = 0 THEN expires ELSE [expires EXCEPT ![w] = clock + Expiry]
  BY DEF LimiterInv, SetExpiry, CounterOf, timeVars, tallyVars
<1>2. /\ check[c] # NoCheck /\ w \in Second /\ r \in CheckState
      /\ clock \in Nat /\ w \in Nat /\ expires \in [Second -> Nat]
  BY <1>1, CheckFacts DEF CheckState, LimiterTypeOK, Second
<1>3. w <= clock /\ place = "redis"
  BY <1>1, <1>2 DEF Timely
<1>4. /\ check' \in [Check -> CheckState]
      /\ \A d \in Check : check'[d] # NoCheck => place' = "redis" /\ check'[d].window <= clock'
      /\ \A d \in Check : check'[d].pc = "begun" => clock' < check'[d].window + Window + MaxDelay
  BY <1>1, <1>2, <1>3, CheckFrame
<1>5. expires' \in [Second -> Nat] /\ \A v \in Second : expires'[v] = 0 \/ expires'[v] >= v + Expiry
  <2>1. CASE expires' = expires
    BY <1>1, <1>2, <2>1 DEF Timely
  <2>2. CASE expires' = [expires EXCEPT ![w] = clock + Expiry]
    BY <1>1, <1>2, <1>3, <2>2, RateLimiterAssumption DEF Timely
  <2> QED
    BY <1>1, <2>1, <2>2
<1>6. LimiterTypeOK' /\ Timely'
  BY <1>1, <1>3, <1>4, <1>5 DEF LimiterTypeOK, Timely
<1>7. TicketsCounted' /\ TicketsLeft'
  BY <1>1, <1>2, TicketsAfter
<1> QED
  BY <1>1, <1>6, <1>7 DEF LimiterInv, RefusedOver

LEMMA RaisesKeeps == ASSUME NEW c \in Check PROVE LimiterInv /\ CheckRaises(c) => LimiterInv'
<1> SUFFICES ASSUME LimiterInv, CheckRaises(c) PROVE LimiterInv'
  OBVIOUS
<1>1. /\ LimiterTypeOK /\ Timely /\ hits = counted /\ RefusedOver /\ check[c] # NoCheck
      /\ UNCHANGED <<clock, start, place, hits, expires, counted, admitted, refused>>
      /\ check' = [check EXCEPT ![c] = NoCheck]
  BY DEF LimiterInv, CheckRaises, timeVars, counterVars, tallyVars
<1>2. NoCheck \in CheckState /\ place = "redis" /\ NoCheck.pc # "begun"
  BY <1>1 DEF CheckState, Timely, NoCheck
<1>3. LimiterTypeOK' /\ Timely'
  BY <1>1, <1>2, CheckFrame DEF LimiterTypeOK, Timely
<1>4. TicketsCounted' /\ TicketsLeft'
  BY <1>1, <1>2, TicketsAfter
<1> QED
  BY <1>1, <1>3, <1>4 DEF LimiterInv, RefusedOver

LEMMA EndKeeps == ASSUME NEW c \in Check PROVE LimiterInv /\ EndCheck(c) => LimiterInv'
<1> SUFFICES ASSUME LimiterInv, EndCheck(c) PROVE LimiterInv'
  OBVIOUS
<1> DEFINE w == check[c].window
           n == check[c].ticket
<1>1. /\ LimiterTypeOK /\ Timely /\ hits = counted /\ RefusedOver /\ TicketsCounted /\ TicketsLeft
      /\ check[c].pc = "counted" /\ Answer(w, n)
      /\ UNCHANGED <<clock, start, place, hits, expires, counted>>
      /\ check' = [check EXCEPT ![c] = NoCheck]
  BY DEF LimiterInv, EndCheck, timeVars, counterVars
<1>2. /\ check[c] # NoCheck /\ w \in Second /\ n \in Nat
      /\ counted \in [Second -> Nat] /\ admitted \in [Second -> Nat] /\ refused \subseteq Second
      /\ check \in [Check -> CheckState]
  BY <1>1, CheckFacts DEF LimiterTypeOK
<1>3. NoCheck \in CheckState /\ place = "redis" /\ NoCheck.pc = "none"
  BY <1>1, <1>2 DEF CheckState, Timely, NoCheck
<1>4. /\ check' \in [Check -> CheckState]
      /\ \A d \in Check : check'[d] # NoCheck => place' = "redis" /\ check'[d].window <= clock'
      /\ \A d \in Check : check'[d].pc = "begun" => clock' < check'[d].window + Window + MaxDelay
  BY <1>1, <1>3, CheckFrame
<1>5. Timely'
  BY <1>1, <1>3, <1>4 DEF Timely
<1>6. TicketsCounted'
  BY <1>1, <1>2, <1>3 DEF TicketsCounted
<1>7. CASE n <= Limit
  <2>1. admitted' = [admitted EXCEPT ![w] = @ + 1] /\ refused' = refused
    BY <1>1, <1>7 DEF Answer
  <2>2. LimiterTypeOK'
    <3>1. admitted' \in [Second -> Nat]
      BY <1>2, <2>1
    <3> QED
      BY <1>1, <1>4, <2>1, <3>1 DEF LimiterTypeOK
  <2>3. TicketsLeft'
    <3> SUFFICES ASSUME NEW v \in Second
                 PROVE  /\ admitted'[v] + Cardinality(Admissible(check', v)) <= Limit
                        /\ admitted'[v] + Cardinality(Admissible(check', v)) <= hits[v]
      BY <1>1 DEF TicketsLeft
    <3> DEFINE a == Cardinality(Admissible(check, v))
               b == Cardinality(Admissible(check', v))
    <3>1. a \in Nat /\ b \in Nat /\ b <= a /\ (c \in Admissible(check, v) => b + 1 <= a)
      BY <1>1, <1>2, <1>3, AdmissibleChange
    <3>2. v = w => c \in Admissible(check, v)
      BY <1>1, <1>7 DEF Admissible
    <3>3. admitted[v] + a <= Limit /\ admitted[v] + a <= hits[v] /\ admitted[v] \in Nat
      BY <1>1, <1>2 DEF TicketsLeft
    <3>4. admitted'[v] = IF v = w THEN admitted[v] + 1 ELSE admitted[v]
      BY <1>2, <2>1
    <3>5. hits[v] \in Nat
      BY <1>1, <1>2
    <3> HIDE DEF a, b
    <3>6. admitted'[v] + b <= Limit /\ admitted'[v] + b <= hits[v]
      BY <3>1, <3>2, <3>3, <3>4, <3>5, RateLimiterAssumption
    <3> QED
      BY <3>6 DEF b
  <2> QED
    BY <1>1, <1>5, <1>6, <2>1, <2>2, <2>3 DEF LimiterInv, RefusedOver
<1>8. CASE ~ n <= Limit
  <2>1. refused' = refused \cup {w} /\ admitted' = admitted
    BY <1>1, <1>8 DEF Answer
  <2>2. LimiterTypeOK'
    BY <1>1, <1>2, <1>4, <2>1 DEF LimiterTypeOK
  <2>3. TicketsLeft'
    BY <1>1, <1>3, <2>1, TicketsAfter
  <2>4. counted[w] > Limit
    BY <1>1, <1>2, <1>8, RateLimiterAssumption DEF TicketsCounted
  <2>5. RefusedOver'
    BY <1>1, <2>1, <2>4 DEF RefusedOver
  <2> QED
    BY <1>1, <1>5, <1>6, <2>2, <2>3, <2>5 DEF LimiterInv
<1> QED
  BY <1>7, <1>8

LEMMA LimiterStutters == LimiterInv /\ UNCHANGED limiterVars => LimiterInv'
<1> SUFFICES ASSUME LimiterInv, UNCHANGED limiterVars PROVE LimiterInv'
  OBVIOUS
<1>1. UNCHANGED <<clock, start, place, hits, expires, check, counted, admitted, refused>>
  BY DEF limiterVars, timeVars, counterVars, tallyVars
<1> QED
  BY <1>1 DEF LimiterInv, LimiterTypeOK, Timely, TicketsCounted, TicketsLeft, RefusedOver

LEMMA LimiterKeeps == LimiterInv /\ [LimiterNext]_limiterVars => LimiterInv'
BY MemoryKeeps, ForgetKeeps, TickKeeps, BeginKeeps, IncrementKeeps, SetExpiryKeeps, EndKeeps,
   RaisesKeeps, LimiterStutters DEF LimiterNext, CheckStep

LEMMA LimiterImplied == LimiterInv => WindowsHoldTheLimit
<1> SUFFICES ASSUME LimiterInv, NEW w \in Second
             PROVE  admitted[w] <= Limit /\ (w \in refused => counted[w] > Limit)
  BY DEF WindowsHoldTheLimit
<1>1. LimiterTypeOK /\ TicketsLeft /\ RefusedOver
  BY DEF LimiterInv
<1>2. IsFiniteSet(Admissible(check, w))
  BY FS_Subset, RateLimiterAssumption DEF Admissible
<1>3. Cardinality(Admissible(check, w)) \in Nat
  BY <1>2, FS_CardinalityType
<1> QED
  BY <1>1, <1>3, RateLimiterAssumption DEF TicketsLeft, RefusedOver, LimiterTypeOK

(***************************************************************************)
(* No window of RateLimiter.check admits more than its limit, and a 429 is *)
(* only ever given in a window that more than the limit came to, for any   *)
(* number of concurrent checks and any times with Expiry >= Window +       *)
(* MaxDelay (61 seconds, for windows of 60 and checks at most one late).   *)
(***************************************************************************)
THEOREM LimitsHold == LimiterSpec => []WindowsHoldTheLimit
<1>1. LimiterSpec => []LimiterInv
  BY LimiterStarts, LimiterKeeps, PTL DEF LimiterSpec
<1> QED
  BY <1>1, LimiterImplied, PTL

-----------------------------------------------------------------------------
(* How close to each other the windows of two requests may be.             *)

\* The windows that requests have come in, and the current one.
Opened ==
    {start} \cup {w \in Second : counted[w] # 0}
    \cup {w \in Second : \E c \in Check : check[c] # NoCheck /\ check[c].window = w}

WindowsApart ==
    \A w \in Opened : w <= start /\ \A v \in Opened : v < w => v + Window <= w

LEMMA OpenedStep ==
    ASSUME LimiterInv, [LimiterNext]_limiterVars
    PROVE  \/ start' = start /\ Opened' \subseteq Opened
           \/ start' = start + Window /\ Opened' \subseteq Opened \cup {start'}
<1>1. /\ start \in Second /\ counted \in [Second -> Nat] /\ check \in [Check -> CheckState]
      /\ start \in Nat
  BY RateLimiterAssumption DEF LimiterInv, LimiterTypeOK, Second
<1>2. CASE UNCHANGED limiterVars
  BY <1>2 DEF limiterVars, timeVars, tallyVars, Opened
<1>3. CASE CheckInMemory
  <2>1. start' = start /\ check' = check /\ counted' = [counted EXCEPT ![start] = counted[start] + 1]
    BY <1>3 DEF CheckInMemory, Counted, timeVars
  <2> QED
    BY <1>1, <2>1 DEF Opened
<1>4. CASE ForgetMemory
  BY <1>4 DEF ForgetMemory, timeVars, Zero, Opened
<1>5. CASE Tick
  <2>1. /\ UNCHANGED <<check, counted>>
        /\ start' = start \/ (start' = start + Window)
    BY <1>5 DEF Tick, tallyVars
  <2> QED
    BY <2>1 DEF Opened
<1>6. ASSUME NEW c \in Check, CheckStep(c) PROVE start' = start /\ Opened' \subseteq Opened
  <2>1. CASE BeginCheck(c)
    <3> DEFINE r == [pc |-> "begun", window |-> start]
    <3>1. /\ UNCHANGED <<start, counted>> /\ check' = [check EXCEPT ![c] = r]
          /\ r.window = start
      BY <2>1 DEF BeginCheck, timeVars, tallyVars
    <3> HIDE DEF r
    <3>2. \A d \in Check : check'[d] = check[d] \/ check'[d].window = start
      BY <1>1, <3>1
    <3> QED
      BY <1>1, <3>1, <3>2 DEF Opened
  <2>2. CASE Increment(c)
    <3>1. PICK w \in Second, r \in CheckState :
              /\ check[c].pc = "begun" /\ check[c].window = w /\ r.window = w
              /\ counted' = [counted EXCEPT ![w] = counted[w] + 1]
              /\ check' = [check EXCEPT ![c] = r] /\ start' = start
      BY <2>2, IncrementFacts
    <3>2. check[c] # NoCheck /\ w \in Opened
      BY <3>1 DEF NoCheck, Opened
    <3>3. /\ \A d \in Check : check'[d] = check[d] \/ check'[d].window = w
          /\ \A v \in Second : counted'[v] = counted[v] \/ v = w
      BY <1>1, <3>1
    <3> QED
      BY <3>1, <3>2, <3>3 DEF Opened
  <2>3. CASE SetExpiry(c) \/ EndCheck(c) \/ CheckRaises(c)
    <3>1. PICK r : /\ r = NoCheck \/ (check[c] # NoCheck /\ r.window = check[c].window)
                   /\ check' = [check EXCEPT ![c] = r]
                   /\ UNCHANGED <<start, counted>>
      <4>1. CASE SetExpiry(c)
        <5> DEFINE r == [pc |-> "counted", window |-> check[c].window, ticket |-> check[c].ticket]
        <5>1. /\ check[c].pc = "expiring" /\ check' = [check EXCEPT ![c] = r]
              /\ UNCHANGED <<start, counted>>
          BY <4>1 DEF SetExpiry, timeVars, tallyVars
        <5>2. check[c] # NoCheck /\ r.window = check[c].window
          BY <5>1 DEF NoCheck
        <5> HIDE DEF r
        <5> QED
          BY <5>1, <5>2
      <4>2. CASE EndCheck(c) \/ CheckRaises(c)
        BY <4>2 DEF EndCheck, CheckRaises, timeVars, tallyVars
      <4> QED
        BY <2>3, <4>1, <4>2
    <3>2. \A d \in Check : check'[d] # NoCheck =>
              \E e \in Check : check[e] # NoCheck /\ check'[d].window = check[e].window
      BY <1>1, <3>1
    <3> QED
      BY <3>1, <3>2 DEF Opened
  <2> QED
    BY <1>6, <2>1, <2>2, <2>3 DEF CheckStep
<1> QED
  BY <1>2, <1>3, <1>4, <1>5, <1>6 DEF LimiterNext

LEMMA ApartStep == LimiterInv /\ WindowsApart /\ [LimiterNext]_limiterVars => WindowsApart'
<1> SUFFICES ASSUME LimiterInv, WindowsApart, [LimiterNext]_limiterVars PROVE WindowsApart'
  OBVIOUS
<1>1. Opened \subseteq Nat /\ start \in Nat /\ start' \in Nat /\ Window \in Nat
  <2>1. LimiterTypeOK'
    BY LimiterKeeps DEF LimiterInv
  <2>2. LimiterTypeOK
    BY DEF LimiterInv
  <2>3. Second \subseteq Nat /\ Window \in Nat /\ start \in Second /\ start' \in Second
    BY <2>1, <2>2, RateLimiterAssumption DEF LimiterTypeOK, Second
  <2> QED
    BY <2>3 DEF Opened
<1>2. \A w \in Opened : w <= start /\ \A v \in Opened : v < w => v + Window <= w
  BY DEF WindowsApart
<1>3. CASE start' = start /\ Opened' \subseteq Opened
  BY <1>2, <1>3 DEF WindowsApart
<1>4. CASE start' = start + Window /\ Opened' \subseteq Opened \cup {start'}
  <2> SUFFICES ASSUME NEW w \in Opened' PROVE w <= start' /\ \A v \in Opened' : v < w => v + Window <= w
    BY DEF WindowsApart
  <2>1. \A v \in Opened : v <= start /\ v + Window <= start' /\ v <= start'
    BY <1>1, <1>2, <1>4
  <2>2. \A v \in Opened' : v \in Opened \/ v = start'
    BY <1>4
  <2> HIDE DEF Opened
  <2>3. CASE w = start'
    BY <1>1, <2>1, <2>2, <2>3
  <2>4. CASE w \in Opened
    <3>1. \A v \in Opened' : v < w => v \in Opened
      BY <1>1, <2>1, <2>2, <2>4
    <3> QED
      BY <1>2, <2>1, <2>4, <3>1
  <2> QED
    BY <2>2, <2>3, <2>4
<1> QED
  BY <1>3, <1>4, OpenedStep

\* Of three windows that are apart, one begins two windows after another.
LEMMA TwoWindowsMeet ==
    ASSUME LimiterInv, WindowsApart, NEW t \in Second
    PROVE  \E v, w \in Second : \A u \in Second \ {v, w} :
               admitted[u] # 0 => u + Window <= t \/ t + Window <= u
<1> DEFINE Meets(u) == u \in Second /\ admitted[u] # 0 /\ t < u + Window /\ u < t + Window
<1>1. /\ Second \subseteq Nat /\ Window \in Nat /\ t \in Nat
      /\ \A u \in Second : admitted[u] # 0 => u \in Opened
  <2>1. ASSUME NEW u \in Second, admitted[u] # 0 PROVE counted[u] # 0
    <3>1. IsFiniteSet(Admissible(check, u))
      BY FS_Subset, RateLimiterAssumption DEF Admissible
    <3>2. Cardinality(Admissible(check, u)) \in Nat
      BY <3>1, FS_CardinalityType
    <3>3. admitted[u] + Cardinality(Admissible(check, u)) <= counted[u]
      BY DEF LimiterInv, TicketsLeft
    <3>4. admitted[u] \in Nat /\ counted[u] \in Nat
      BY DEF LimiterInv, LimiterTypeOK
    <3> QED
      BY <2>1, <3>2, <3>3, <3>4
  <2> QED
    BY <2>1, RateLimiterAssumption DEF Second, Opened
<1>2. \A u, v \in Second : Meets(u) /\ Meets(v) /\ u < v => u + Window <= v /\ v < t + Window
  BY <1>1 DEF WindowsApart
<1>3. ~ \E u, v, x \in Second : Meets(u) /\ Meets(v) /\ Meets(x) /\ u < v /\ v < x
  <2> SUFFICES ASSUME NEW u \in Second, NEW v \in Second, NEW x \in Second,
                      Meets(u), Meets(v), Meets(x), u < v, v < x
               PROVE  FALSE
    OBVIOUS
  <2>1. u + Window <= v /\ v + Window <= x /\ x < t + Window /\ t < u + Window
    BY <1>2
  <2> QED
    BY <1>1, <2>1
<1>4. \A u \in Second : admitted[u] # 0 /\ ~ Meets(u) => u + Window <= t \/ t + Window <= u
  BY <1>1
<1> HIDE DEF Meets
<1>5. \E v, w \in Second : \A u \in Second \ {v, w} : ~ Meets(u)
  <2>1. CASE \A u, v \in Second : Meets(u) /\ Meets(v) => u = v
    BY <2>1
  <2>2. CASE \E u, v \in Second : Meets(u) /\ Meets(v) /\ u # v
    <3>1. PICK u \in Second, v \in Second : Meets(u) /\ Meets(v) /\ u # v
      BY <2>2
    <3>2. \A x \in Second \ {u, v} : ~ Meets(x)
      BY <1>1, <1>3, <3>1
    <3> QED
      BY <3>2
  <2> QED
    BY <2>1, <2>2
<1> QED
  BY <1>4, <1>5

(***************************************************************************)
(* Windows are fixed, so a client may be admitted twice the limit around a *)
(* change of window, but no more: of all windows with an admitted request, *)
(* at most two have a second in common with the Window seconds from t, and *)
(* they admit the limit each.                                              *)
(***************************************************************************)
THEOREM BurstsAreBounded ==
    LimiterSpec => [](\A t \in Second : \E v, w \in Second :
        /\ admitted[v] + admitted[w] <= 2 * Limit
        /\ \A u \in Second \ {v, w} : admitted[u] # 0 => u + Window <= t \/ t + Window <= u)
<1> DEFINE Bursts == \A t \in Second : \E v, w \in Second :
               /\ admitted[v] + admitted[w] <= 2 * Limit
               /\ \A u \in Second \ {v, w} : admitted[u] # 0 => u + Window <= t \/ t + Window <= u
<1>1. LimiterInit => LimiterInv /\ WindowsApart
  <2>1. ASSUME LimiterInit PROVE WindowsApart
    <3>1. start = Window /\ Window \in Nat /\ \A w \in Second : counted[w] = 0
      BY <2>1, RateLimiterAssumption DEF LimiterInit, Zero
    <3>4. \A c \in Check : check[c] = NoCheck
      BY <2>1 DEF LimiterInit
    <3>2. \A w \in Opened : w = start
      BY <3>1, <3>4 DEF Opened
    <3> QED
      BY <3>1, <3>2 DEF WindowsApart
  <2>2. LimiterInit => WindowsApart
    BY <2>1
  <2> QED
    BY <2>2, LimiterStarts
<1>2. LimiterInv /\ WindowsApart => Bursts
  <2> SUFFICES ASSUME LimiterInv, WindowsApart, NEW t \in Second
               PROVE  \E v, w \in Second :
                          /\ admitted[v] + admitted[w] <= 2 * Limit
                          /\ \A u \in Second \ {v, w} :
                                 admitted[u] # 0 => u + Window <= t \/ t + Window <= u
    OBVIOUS
  <2>1. PICK v \in Second, w \in Second : \A u \in Second \ {v, w} :
            admitted[u] # 0 => u + Window <= t \/ t + Window <= u
    BY TwoWindowsMeet
  <2>2. /\ admitted[v] \in Nat /\ admitted[w] \in Nat /\ Limit \in Nat
        /\ admitted[v] <= Limit /\ admitted[w] <= Limit
    BY LimiterImplied, RateLimiterAssumption DEF LimiterInv, LimiterTypeOK, WindowsHoldTheLimit
  <2>3. admitted[v] + admitted[w] <= 2 * Limit
    BY <2>2
  <2> QED
    BY <2>1, <2>3
<1> HIDE DEF Bursts
<1>3. LimiterSpec => []Bursts
  BY <1>1, <1>2, ApartStep, LimiterKeeps, PTL DEF LimiterSpec
<1> QED
  BY <1>3 DEF Bursts

-----------------------------------------------------------------------------
(***************************************************************************)
(* The signing key.  In SignerInv, KeysKnown says that values are numbered *)
(* in the order of their generation, so that one taken from the store was  *)
(* there before any later one that is no PEM; KeysHeld follows a key from  *)
(* the store to the bundle; and KeysLeft counts, once there is a key, the  *)
(* ones that may still be put in its place: those of the signers that      *)
(* create one, and those of calls that were given up.                      *)
(***************************************************************************)
Creators(f) == {s \in Signer : f[s].pc = "creating"}

KeysKnown ==
    /\ stored <= lastKey
    /\ \A k \in junk : k <= lastKey
    /\ \A s \in Signer : signing[s].key <= lastKey

KeysHeld ==
    \A s \in Signer :
        /\ signing[s].pc = "loading" => stored \in held[s]
        /\ signing[s].pc = "loaded" => signing[s].key \in held[s]
        /\ signing[s].pc = "signed" => signing[s].key \in held[s] \ junk

KeysLeft ==
    IF stored = NoKey
    THEN installs = 0 /\ Cardinality(inFlight) <= doubts
    ELSE installs + Cardinality(Creators(signing)) + Cardinality(inFlight) <= Cardinality(Signer) + doubts

MemoryAlone ==
    depot = "memory" =>
        /\ installs <= 1 /\ inFlight = {}
        /\ \A s \in Signer : signing[s].pc \in {"idle", "signed"}

SignerInv ==
    /\ SignerTypeOK
    /\ KeysKnown
    /\ KeysHeld
    /\ KeysLeft
    /\ MemoryAlone

LEMMA SignerStarts == SignerInit => SignerInv
<1> SUFFICES ASSUME SignerInit PROVE SignerInv
  OBVIOUS
<1> USE DEF SignerInit, NoSigning, NoKey
<1>1. SignerTypeOK /\ KeysKnown /\ KeysHeld /\ MemoryAlone
  BY DEF SignerTypeOK, Signing, KeysKnown, KeysHeld, MemoryAlone
<1>2. KeysLeft
  BY FS_EmptySet DEF KeysLeft
<1> QED
  BY <1>1, <1>2 DEF SignerInv

LEMMA SignerFacts ==
    ASSUME SignerTypeOK
    PROVE  /\ signing \in [Signer -> Signing] /\ stored \in Nat /\ lastKey \in Nat
           /\ installs \in Nat /\ doubts \in Nat
           /\ IsFiniteSet(inFlight) /\ Cardinality(inFlight) \in Nat
           /\ IsFiniteSet(Creators(signing)) /\ Cardinality(Creators(signing)) \in Nat
           /\ Cardinality(Creators(signing)) <= Cardinality(Signer) /\ Cardinality(Signer) \in Nat
           /\ \A s \in Signer : signing[s].key \in Nat
<1>1. signing \in [Signer -> Signing] /\ lastKey \in Nat /\ inFlight \subseteq 1 .. lastKey
  BY DEF SignerTypeOK
<1>2. IsFiniteSet(1 .. lastKey)
  BY <1>1, FS_Interval
<1>3. IsFiniteSet(inFlight)
  BY <1>1, <1>2, FS_Subset
<1>4. /\ IsFiniteSet(Creators(signing))
      /\ Cardinality(Creators(signing)) <= Cardinality(Signer)
  BY FS_Subset, SigningKeyAssumption DEF Creators
<1>5. /\ Cardinality(inFlight) \in Nat /\ Cardinality(Creators(signing)) \in Nat
      /\ Cardinality(Signer) \in Nat
  BY <1>3, <1>4, FS_CardinalityType, SigningKeyAssumption
<1> QED
  BY <1>1, <1>3, <1>4, <1>5 DEF SignerTypeOK, Signing, NoKey

\* What a signer's own steps keep, when the store is not touched.
LEMMA SignerMoves ==
    ASSUME SignerInv, NEW s \in Signer, NEW pc \in {"idle", "loading", "loaded", "signed"},
           NEW k \in Nat, Goes(s, pc, k), k <= lastKey, [pc |-> pc, key |-> k] \in Signing,
           UNCHANGED <<depot, stored, lastKey, junk, inFlight, installs, doubts>>,
           held' \in [Signer -> SUBSET Nat],
           \A t \in Signer : t # s => held'[t] = held[t],
           pc = "loading" => stored \in held'[s],
           pc = "loaded" => k \in held'[s],
           pc = "signed" => k \in held'[s] \ junk,
           depot = "memory" => pc \in {"idle", "signed"}
    PROVE  SignerInv'
<1>1. /\ SignerTypeOK /\ KeysKnown /\ KeysHeld /\ KeysLeft /\ MemoryAlone
      /\ signing' = [signing EXCEPT ![s] = [pc |-> pc, key |-> k]]
      /\ signing \in [Signer -> Signing]
  BY DEF SignerInv, SignerTypeOK, Goes
<1>2. SignerTypeOK'
  BY <1>1 DEF SignerTypeOK
<1>3. KeysKnown' /\ KeysHeld' /\ MemoryAlone'
  BY <1>1 DEF KeysKnown, KeysHeld, MemoryAlone
<1>4. KeysLeft'
  <2>1. Creators(signing') \subseteq Creators(signing)
    BY <1>1 DEF Creators
  <2>2. /\ Cardinality(Creators(signing')) <= Cardinality(Creators(signing))
        /\ IsFiniteSet(Creators(signing'))
    BY <1>1, <2>1, SignerFacts, FS_Subset
  <2>3. Cardinality(Creators(signing')) \in Nat
    BY <2>2, FS_CardinalityType
  <2> QED
    BY <1>1, <2>2, <2>3, SignerFacts DEF KeysLeft
<1> QED
  BY <1>2, <1>3, <1>4 DEF SignerInv

\* The steps that leave the store alone.
LEMMA LocalKeeps ==
    ASSUME NEW s \in Signer
    PROVE  SignerInv /\ (BeginSigning(s) \/ LoadKey(s) \/ RefuseKey(s) \/ Sign(s) \/ SigningRaises(s))
             => SignerInv'
<1> SUFFICES ASSUME SignerInv,
                    BeginSigning(s) \/ LoadKey(s) \/ RefuseKey(s) \/ Sign(s) \/ SigningRaises(s)
             PROVE  SignerInv'
  OBVIOUS
<1>1. /\ SignerTypeOK /\ KeysKnown /\ KeysHeld /\ MemoryAlone /\ signing[s] \in Signing
      /\ stored \in Nat /\ held \in [Signer -> SUBSET Nat] /\ signing[s].key \in Nat
      /\ UNCHANGED <<depot, stored, lastKey, junk, inFlight, installs, doubts>>
  BY SignerFacts DEF SignerInv, SignerTypeOK, BeginSigning, LoadKey, RefuseKey, Sign, SigningRaises,
     storeVars
<1>2. /\ [pc |-> "idle", key |-> NoKey] \in Signing /\ [pc |-> "loading", key |-> NoKey] \in Signing
      /\ NoKey \in Nat /\ NoKey <= lastKey
  BY <1>1 DEF Signing, NoKey, SignerTypeOK
<1>3. CASE BeginSigning(s)
  <2>1. /\ Goes(s, "loading", NoKey) /\ held' = [held EXCEPT ![s] = {stored}]
        /\ depot # "memory"
    BY <1>3 DEF BeginSigning
  <2>2. held' \in [Signer -> SUBSET Nat] /\ stored \in held'[s]
        /\ \A t \in Signer : t # s => held'[t] = held[t]
    BY <1>1, <2>1
  <2> QED
    BY <1>1, <1>2, <2>1, <2>2, SignerMoves
<1>4. CASE LoadKey(s)
  <2>1. /\ Goes(s, "loaded", stored) /\ held' = held /\ signing[s].pc = "loading"
        /\ stored # NoKey
    BY <1>4 DEF LoadKey, Found
  <2>2. stored <= lastKey /\ [pc |-> "loaded", key |-> stored] \in Signing /\ stored \in held[s]
        /\ depot # "memory"
    BY <1>1, <2>1 DEF KeysKnown, Signing, KeysHeld, MemoryAlone
  <2> QED
    BY <1>1, <2>1, <2>2, SignerMoves
<1>5. CASE RefuseKey(s) \/ SigningRaises(s)
  <2>1. Goes(s, "idle", NoKey) /\ held' = held
    BY <1>5 DEF RefuseKey, SigningRaises
  <2> QED
    BY <1>1, <1>2, <2>1, SignerMoves
<1>6. CASE Sign(s)
  <2>1. /\ Goes(s, "signed", signing[s].key) /\ held' = held /\ signing[s].pc = "loaded"
        /\ signing[s].key \notin junk
    BY <1>6 DEF Sign
  <2>2. /\ signing[s].key <= lastKey /\ [pc |-> "signed", key |-> signing[s].key] \in Signing
        /\ signing[s].key \in held[s] \ junk
    BY <1>1, <2>1 DEF KeysKnown, Signing, KeysHeld
  <2> QED
    BY <1>1, <2>1, <2>2, SignerMoves
<1> QED
  BY <1>3, <1>4, <1>5, <1>6

\* A signer turns to creating a key, on a miss or on an error of the store.
LEMMA CreateKeeps ==
    ASSUME NEW s \in Signer
    PROVE  SignerInv /\ (MissKey(s) \/ LoadKeyFails(s)) => SignerInv'
<1> SUFFICES ASSUME SignerInv, MissKey(s) \/ LoadKeyFails(s) PROVE SignerInv'
  OBVIOUS
<1>1. /\ SignerTypeOK /\ KeysKnown /\ KeysHeld /\ KeysLeft /\ MemoryAlone
      /\ signing[s].pc = "loading" /\ lastKey' = lastKey + 1
      /\ signing' = [signing EXCEPT ![s] = [pc |-> "creating", key |-> lastKey + 1]]
      /\ UNCHANGED <<depot, stored, junk, inFlight, installs, held>>
      /\ \/ stored = NoKey /\ doubts' = doubts
         \/ doubts' = doubts + 1
  BY DEF SignerInv, MissKey, LoadKeyFails, Generates, Goes, NewKey, Found
<1>2. /\ signing \in [Signer -> Signing] /\ lastKey \in Nat /\ doubts \in Nat /\ installs \in Nat
      /\ stored \in Nat /\ \A t \in Signer : signing[t].key \in Nat
      /\ junk \subseteq Nat
  BY <1>1, SignerFacts DEF SignerTypeOK
<1>3. [pc |-> "creating", key |-> lastKey + 1] \in Signing
  BY <1>2 DEF Signing, NoKey
<1>4. signing' \in [Signer -> Signing]
  BY <1>1, <1>2, <1>3
<1>5. SignerTypeOK'
  <2>1. doubts' \in Nat /\ lastKey' \in Nat /\ inFlight' \subseteq 1 .. lastKey'
    BY <1>1, <1>2 DEF SignerTypeOK
  <2> QED
    BY <1>1, <1>4, <2>1 DEF SignerTypeOK
<1>6. KeysKnown' /\ KeysHeld'
  <2>1. KeysKnown'
    BY <1>1, <1>2 DEF KeysKnown
  <2>2. KeysHeld'
    BY <1>1, <1>2 DEF KeysHeld
  <2> QED
    BY <2>1, <2>2
<1>7. MemoryAlone'
  BY <1>1 DEF MemoryAlone
<1>8. KeysLeft'
  <2>1. Creators(signing') \subseteq Creators(signing) \cup {s}
    BY <1>1 DEF Creators
  <2>2. /\ Cardinality(Creators(signing')) <= Cardinality(Creators(signing)) + 1
        /\ Cardinality(Creators(signing')) \in Nat
    BY <1>1, <2>1, SignerFacts, SizeWith
  <2> QED
    BY <1>1, <2>2, SignerFacts DEF KeysLeft
<1> QED
  BY <1>5, <1>6, <1>7, <1>8 DEF SignerInv

LEMMA InstallKeeps == ASSUME NEW s \in Signer PROVE SignerInv /\ InstallKey(s) => SignerInv'
<1> SUFFICES ASSUME SignerInv, InstallKey(s) PROVE SignerInv'
  OBVIOUS
<1> DEFINE k == signing[s].key
<1>1. /\ SignerTypeOK /\ KeysKnown /\ KeysHeld /\ KeysLeft /\ MemoryAlone
      /\ signing[s].pc = "creating" /\ stored' = k /\ installs' = installs + 1
      /\ held' = [t \in Signer |-> held[t] \cup {k}]
      /\ signing' = [signing EXCEPT ![s] = [pc |-> "loaded", key |-> k]]
      /\ UNCHANGED <<depot, lastKey, junk, inFlight, doubts>>
  BY DEF SignerInv, InstallKey, Stores, Goes
<1>2. /\ signing \in [Signer -> Signing] /\ lastKey \in Nat /\ doubts \in Nat /\ installs \in Nat
      /\ stored \in Nat /\ held \in [Signer -> SUBSET Nat]
  BY <1>1, SignerFacts DEF SignerTypeOK
<1>3. k \in Nat \ {NoKey} /\ [pc |-> "loaded", key |-> k] \in Signing /\ k <= lastKey
  BY <1>1, <1>2 DEF Signing, KeysKnown
<1>4. signing' \in [Signer -> Signing] /\ held' \in [Signer -> SUBSET Nat]
  BY <1>1, <1>2, <1>3
<1>5. SignerTypeOK'
  BY <1>1, <1>2, <1>3, <1>4 DEF SignerTypeOK
<1>6. KeysKnown'
  BY <1>1, <1>2, <1>3 DEF KeysKnown
<1>7. KeysHeld'
  BY <1>1, <1>2, <1>3 DEF KeysHeld
<1>8. MemoryAlone'
  BY <1>1 DEF MemoryAlone
<1>9. KeysLeft'
  <2>1. Creators(signing') \subseteq Creators(signing) \ {s} /\ s \in Creators(signing)
    BY <1>1, <1>2 DEF Creators
  <2>2. /\ Cardinality(Creators(signing')) + 1 <= Cardinality(Creators(signing))
        /\ Cardinality(Creators(signing')) \in Nat
    BY <1>1, <2>1, SignerFacts, SizeWithout
  <2> QED
    BY <1>1, <1>3, <2>2, SignerFacts DEF KeysLeft
<1> QED
  BY <1>5, <1>6, <1>7, <1>8, <1>9 DEF SignerInv

LEMMA AbandonKeeps == ASSUME NEW s \in Signer PROVE SignerInv /\ AbandonKey(s) => SignerInv'
<1> SUFFICES ASSUME SignerInv, AbandonKey(s) PROVE SignerInv'
  OBVIOUS
<1> DEFINE k == signing[s].key
<1>1. /\ SignerTypeOK /\ KeysKnown /\ KeysHeld /\ KeysLeft /\ MemoryAlone
      /\ signing[s].pc = "creating" /\ inFlight' = inFlight \cup {k} /\ doubts' = doubts + 1
      /\ signing' = [signing EXCEPT ![s] = [pc |-> "idle", key |-> NoKey]]
      /\ UNCHANGED <<depot, stored, lastKey, junk, installs, held>>
  BY DEF SignerInv, AbandonKey, Goes
<1>2. /\ signing \in [Signer -> Signing] /\ lastKey \in Nat /\ doubts \in Nat /\ installs \in Nat
      /\ stored \in Nat /\ inFlight \subseteq 1 .. lastKey
  BY <1>1, SignerFacts DEF SignerTypeOK
<1>3. k \in 1 .. lastKey /\ [pc |-> "idle", key |-> NoKey] \in Signing
  BY <1>1, <1>2 DEF Signing, KeysKnown, NoKey
<1>4. signing' \in [Signer -> Signing]
  BY <1>1, <1>2, <1>3
<1>5. SignerTypeOK'
  <2>1. inFlight' \subseteq 1 .. lastKey'
    BY <1>1, <1>2, <1>3
  <2>2. doubts' \in Nat
    BY <1>1, <1>2
  <2> QED
    BY <1>1, <1>4, <2>1, <2>2 DEF SignerTypeOK
<1>6. KeysKnown' /\ KeysHeld'
  BY <1>1, <1>2 DEF KeysKnown, KeysHeld, NoKey
<1>7. MemoryAlone'
  BY <1>1 DEF MemoryAlone
<1>8. KeysLeft'
  <2>1. Creators(signing') \subseteq Creators(signing) \ {s} /\ s \in Creators(signing)
    BY <1>1, <1>2 DEF Creators
  <2>2. /\ Cardinality(Creators(signing')) + 1 <= Cardinality(Creators(signing))
        /\ Cardinality(Creators(signing')) \in Nat
    BY <1>1, <2>1, SignerFacts, SizeWithout
  <2>3. Cardinality(inFlight') <= Cardinality(inFlight) + 1 /\ Cardinality(inFlight') \in Nat
    BY <1>1, SignerFacts, SizeWith
  <2> QED
    BY <1>1, <2>2, <2>3, SignerFacts DEF KeysLeft
<1> QED
  BY <1>5, <1>6, <1>7, <1>8 DEF SignerInv

LEMMA ArriveKeeps == ASSUME NEW k \in inFlight PROVE SignerInv /\ ArriveLate(k) => SignerInv'
<1> SUFFICES ASSUME SignerInv, ArriveLate(k) PROVE SignerInv'
  OBVIOUS
<1>1. /\ SignerTypeOK /\ KeysKnown /\ KeysHeld /\ KeysLeft /\ MemoryAlone
      /\ inFlight' = inFlight \ {k} /\ stored' = k /\ installs' = installs + 1
      /\ held' = [t \in Signer |-> held[t] \cup {k}]
      /\ UNCHANGED <<depot, lastKey, junk, signing, doubts>>
  BY DEF SignerInv, ArriveLate, Stores
<1>2. /\ lastKey \in Nat /\ installs \in Nat /\ held \in [Signer -> SUBSET Nat]
      /\ k \in 1 .. lastKey /\ inFlight \subseteq 1 .. lastKey
  BY <1>1, SignerFacts DEF SignerTypeOK
<1>3. SignerTypeOK'
  <2>1. held' \in [Signer -> SUBSET Nat]
    BY <1>1, <1>2
  <2>2. stored' \in Nat /\ installs' \in Nat /\ inFlight' \subseteq 1 .. lastKey'
    BY <1>1, <1>2
  <2> QED
    BY <1>1, <2>1, <2>2 DEF SignerTypeOK
<1>4. KeysKnown' /\ KeysHeld'
  BY <1>1, <1>2 DEF KeysKnown, KeysHeld
<1>5. MemoryAlone'
  BY <1>1 DEF MemoryAlone
<1>6. KeysLeft'
  <2>1. Cardinality(inFlight') + 1 <= Cardinality(inFlight) /\ Cardinality(inFlight') \in Nat
    BY <1>1, SignerFacts, SizeWithout
  <2>2. stored' # NoKey
    BY <1>1, <1>2 DEF NoKey
  <2> QED
    BY <1>1, <2>1, <2>2, SignerFacts DEF KeysLeft
<1> QED
  BY <1>3, <1>4, <1>5, <1>6 DEF SignerInv

LEMMA RotateKeeps == SignerInv /\ RotateKey => SignerInv'
<1> SUFFICES ASSUME SignerInv, RotateKey PROVE SignerInv'
  OBVIOUS
<1> DEFINE k == lastKey + 1
<1>1. /\ SignerTypeOK /\ KeysKnown /\ KeysHeld /\ KeysLeft /\ MemoryAlone
      /\ lastKey' = k /\ stored' = k /\ junk' \in {junk, junk \cup {k}}
      /\ held' = [t \in Signer |-> held[t] \cup {k}]
      /\ UNCHANGED <<depot, signing, inFlight, installs, doubts>>
  BY DEF SignerInv, RotateKey, Stores, Generates, NewKey
<1>2. /\ lastKey \in Nat /\ held \in [Signer -> SUBSET Nat] /\ inFlight \subseteq 1 .. lastKey
      /\ junk \subseteq Nat /\ \A t \in Signer : signing[t].key \in Nat
  BY <1>1, SignerFacts DEF SignerTypeOK
<1>3. SignerTypeOK'
  <2>1. held' \in [Signer -> SUBSET Nat]
    BY <1>1, <1>2
  <2>2. stored' \in Nat /\ lastKey' \in Nat /\ inFlight' \subseteq 1 .. lastKey' /\ junk' \subseteq Nat
    BY <1>1, <1>2
  <2> QED
    BY <1>1, <2>1, <2>2 DEF SignerTypeOK
<1>4. KeysKnown'
  BY <1>1, <1>2 DEF KeysKnown
<1>5. KeysHeld'
  <2> SUFFICES ASSUME NEW s \in Signer
               PROVE  /\ signing[s].pc = "loading" => k \in held'[s]
                      /\ signing[s].pc = "loaded" => signing[s].key \in held'[s]
                      /\ signing[s].pc = "signed" => signing[s].key \in held'[s] \ junk'
    BY <1>1 DEF KeysHeld
  <2>1. signing[s].key # k
    BY <1>1, <1>2 DEF KeysKnown
  <2> QED
    BY <1>1, <1>2, <2>1 DEF KeysHeld
<1>6. MemoryAlone'
  BY <1>1 DEF MemoryAlone
<1>7. KeysLeft'
  BY <1>1, <1>2, SignerFacts DEF KeysLeft, NoKey
<1> QED
  BY <1>3, <1>4, <1>5, <1>6, <1>7 DEF SignerInv

LEMMA MemorySignKeeps == ASSUME NEW s \in Signer PROVE SignerInv /\ SignInMemory(s) => SignerInv'
<1> SUFFICES ASSUME SignerInv, SignInMemory(s) PROVE SignerInv'
  OBVIOUS
<1>1. /\ SignerTypeOK /\ KeysKnown /\ KeysHeld /\ KeysLeft /\ MemoryAlone
      /\ depot = "memory" /\ stored \notin junk
      /\ signing' = [signing EXCEPT ![s] = [pc |-> "signed", key |-> stored']]
      /\ held' = [held EXCEPT ![s] = {stored'}]
      /\ UNCHANGED <<depot, junk, inFlight, doubts>>
  BY DEF SignerInv, SignInMemory, Goes
<1>2. /\ lastKey \in Nat /\ stored \in Nat /\ installs \in Nat /\ held \in [Signer -> SUBSET Nat]
      /\ inFlight \subseteq 1 .. lastKey /\ junk \subseteq Nat
      /\ signing \in [Signer -> Signing] /\ \A t \in Signer : signing[t].key \in Nat
  BY <1>1, SignerFacts DEF SignerTypeOK
<1>3. \/ /\ stored = NoKey /\ lastKey' = lastKey + 1 /\ stored' = lastKey + 1
         /\ installs' = installs + 1
      \/ stored # NoKey /\ UNCHANGED <<stored, lastKey, installs>>
  BY DEF SignInMemory, Generates, NewKey, Found
<1>4. Cardinality(Creators(signing')) = 0 /\ Cardinality(inFlight) = 0 /\ Cardinality(Signer) >= 1
  <2>1. Creators(signing') = {} /\ inFlight = {} /\ Signer # {}
    BY <1>1, <1>2 DEF MemoryAlone, Creators
  <2>2. Cardinality(Signer) # 0 /\ Cardinality(Signer) \in Nat
    BY <1>1, <2>1, SigningKeyAssumption, FS_EmptySet, SignerFacts
  <2> QED
    BY <2>1, <2>2, FS_EmptySet
<1>5. /\ stored' \in Nat \ {0} /\ lastKey' \in Nat /\ lastKey' >= lastKey /\ stored' <= lastKey'
      /\ installs' \in Nat /\ installs' <= 1
  BY <1>1, <1>2, <1>3 DEF KeysKnown, KeysLeft, MemoryAlone, NoKey
<1>6. SignerTypeOK'
  <2>1. signing' \in [Signer -> Signing] /\ held' \in [Signer -> SUBSET Nat]
    BY <1>1, <1>2, <1>5 DEF Signing, NoKey
  <2>2. inFlight' \subseteq 1 .. lastKey'
    BY <1>1, <1>2, <1>5
  <2> QED
    BY <1>1, <1>5, <2>1, <2>2 DEF SignerTypeOK
<1>7. KeysKnown'
  BY <1>1, <1>2, <1>5 DEF KeysKnown
<1>8. KeysHeld'
  <2>1. stored' \notin junk
    BY <1>1, <1>2, <1>3 DEF KeysKnown
  <2> QED
    BY <1>1, <1>2, <2>1 DEF KeysHeld, MemoryAlone
<1>9. MemoryAlone'
  BY <1>1, <1>2, <1>5 DEF MemoryAlone
<1>10. KeysLeft'
  BY <1>1, <1>4, <1>5, SignerFacts DEF KeysLeft, NoKey
<1> QED
  BY <1>6, <1>7, <1>8, <1>9, <1>10 DEF SignerInv

LEMMA RestartKeeps == SignerInv /\ RestartStore => SignerInv'
<1> SUFFICES ASSUME SignerInv, RestartStore PROVE SignerInv'
  OBVIOUS
<1>1. /\ SignerTypeOK /\ KeysKnown /\ KeysHeld /\ KeysLeft /\ MemoryAlone
      /\ depot = "memory" /\ stored' = NoKey /\ installs' = 0
      /\ UNCHANGED <<depot, lastKey, junk, signing, inFlight, doubts, held>>
  BY DEF SignerInv, RestartStore
<1>2. SignerTypeOK' /\ KeysKnown' /\ KeysHeld' /\ MemoryAlone'
  BY <1>1 DEF SignerTypeOK, KeysKnown, KeysHeld, MemoryAlone, NoKey
<1>3. KeysLeft'
  <2>1. inFlight' = {} /\ doubts' \in Nat
    BY <1>1 DEF MemoryAlone, SignerTypeOK
  <2>2. Cardinality(inFlight') = 0
    BY <2>1, FS_EmptySet
  <2> QED
    BY <1>1, <2>1, <2>2 DEF KeysLeft
<1> QED
  BY <1>2, <1>3 DEF SignerInv

LEMMA SignerStutters == SignerInv /\ UNCHANGED signerVars => SignerInv'
<1> SUFFICES ASSUME SignerInv, UNCHANGED signerVars PROVE SignerInv'
  OBVIOUS
<1>1. UNCHANGED <<depot, stored, lastKey, junk, inFlight, signing, installs, doubts, held>>
  BY DEF signerVars, storeVars
<1> QED
  BY <1>1 DEF SignerInv, SignerTypeOK, KeysKnown, KeysHeld, KeysLeft, MemoryAlone

LEMMA SignerKeeps == SignerInv /\ [SignerNext]_signerVars => SignerInv'
BY LocalKeeps, CreateKeeps, InstallKeeps, AbandonKeeps, ArriveKeeps, RotateKeeps, MemorySignKeeps,
   RestartKeeps, SignerStutters DEF SignerNext, SigningStep

LEMMA SignerImplied == SignerInv => SignedWithStoredKey /\ KeysBounded
<1> SUFFICES ASSUME SignerInv PROVE SignedWithStoredKey /\ KeysBounded
  OBVIOUS
<1>1. SignerTypeOK /\ KeysHeld /\ KeysLeft /\ MemoryAlone
  BY DEF SignerInv
<1>2. SignedWithStoredKey
  BY <1>1 DEF SignedWithStoredKey, KeysHeld
<1>3. KeysBounded
  BY <1>1, SignerFacts DEF KeysBounded, KeysLeft, MemoryAlone
<1> QED
  BY <1>2, <1>3

LEMMA SignerInvariant == SignerSpec => []SignerInv
BY SignerStarts, SignerKeeps, PTL DEF SignerSpec

(***************************************************************************)
(* sign_manifest never returns a bundle signed with a key that was not in  *)
(* the secret store while it ran, for any number of signers, whatever      *)
(* calls to the store fail, get lost or arrive late, and whatever is       *)
(* rotated meanwhile.                                                      *)
(***************************************************************************)
THEOREM BundlesSigned == SignerSpec => []SignedWithStoredKey
BY SignerInvariant, SignerImplied, PTL

(***************************************************************************)
(* How often _load_or_create_private_key can store a key: at most once per *)
(* concurrent signer and per failed or abandoned call of the store, and    *)
(* once per life of the process if the store is its memory.                *)
(***************************************************************************)
THEOREM KeysCreated == SignerSpec => []KeysBounded
BY SignerInvariant, SignerImplied, PTL

(***************************************************************************)
(* Type correctness of the counters and checks of RateLimiter, and of the  *)
(* store and the signers of sign_manifest.                                 *)
(***************************************************************************)
THEOREM LimiterTypeCorrect == LimiterSpec => []LimiterTypeOK
<1>1. LimiterInv => LimiterTypeOK
  BY DEF LimiterInv
<1> QED
  BY <1>1, LimiterStarts, LimiterKeeps, PTL DEF LimiterSpec

THEOREM SignerTypeCorrect == SignerSpec => []SignerTypeOK
<1>1. SignerInv => SignerTypeOK
  BY DEF SignerInv
<1> QED
  BY <1>1, SignerInvariant, PTL
=============================================================================
