------------------------- MODULE TenantContextProofs -------------------------
(***************************************************************************)
(* Proofs about database sessions and tenants, for any pool, organisations *)
(* and requests.                                                           *)
(*                                                                         *)
(* The inductive invariant IInv adds to the properties that a handler runs *)
(* under its own tenant or none (HandlersOwn), that a connection whose     *)
(* transaction has not set a tenant has the one a rollback goes back to    *)
(* (SettingKept), that such a tenant was left by a handler or an activity  *)
(* of that organisation (KeptBy), and what a request has done and how it   *)
(* has ended at which place (WorkPlaced, UnloggedRaised, DeniedPlaced,     *)
(* CommittedPlaced, DeniedChangeNothing).  That sessions that have ended   *)
(* hold no connection, a part of SettingKept, and the part of TypeOK that  *)
(* says where a connection may be are what the refinement of               *)
(* ConnectionPool needs.                                                   *)
(***************************************************************************)
EXTENDS TenantContext, TLAPS

HandlersOwn ==
    \A r \in Request : At(r, "handler") => setting[conn[r]] \in {OrgOf[r], NoOrg}

\* The transaction of r has not set a tenant.
Unset(r) == At(r, "start") \/ At(r, "unset") \/ (r \in Anonymous /\ At(r, "handler"))

SettingKept ==
    /\ \A c \in fresh : setting[c] = kept[c]
    /\ \A i \in DOMAIN idle : setting[idle[i]] = kept[idle[i]]
    /\ \A r \in Request : pc[r] = "done" => conn[r] = NoConn
    /\ \A r \in Request : Unset(r) => setting[conn[r]] = kept[conn[r]]

KeptBy == \A c \in Conn : kept[c] # NoOrg => LeftBy(kept[c])

WorkPlaced ==
    \A r \in Request :
        /\ conn[r] = NoConn \/ pc[r] \in {"start", "unset", "committed", "done"} => work[r] = {}
        /\ pc[r] = "cleanup" => work[r] = {} \/ (work[r] = {"change"} /\ outcome[r] = "raised")

\* A change without its entry is the last a request commits.
UnloggedRaised ==
    \A w \in commits : w.what # {} /\ w.by \in Logged =>
        \/ "log" \in w.what
        \/ w.at = "cleanup" /\ outcome[w.by] = "raised" /\ pc[w.by] = "done"

\* A request is refused or denied before it has changed anything, and goes to the reset.
DeniedPlaced == \A r \in Request : outcome[r] \in {"refused", "denied"} => pc[r] \in {"cleanup", "done"}

CommittedPlaced == \A w \in commits : pc[w.by] \notin {"start", "unset", "handler"}

DeniedChangeNothing == \A w \in commits : w.what # {} => outcome[w.by] \notin {"refused", "denied"}

IInv ==
    /\ TypeOK
    /\ NoForeignWrites
    /\ HandlersOwn
    /\ SettingKept
    /\ KeptBy
    /\ WorkPlaced
    /\ UnloggedRaised
    /\ DeniedPlaced
    /\ CommittedPlaced
    /\ DeniedChangeNothing
    /\ RefusalsNeedAnotherOrg

-----------------------------------------------------------------------------
LEMMA IInvInit == Init => IInv
<1> SUFFICES ASSUME Init PROVE IInv
  OBVIOUS
<1>1. TypeOK
  BY TenantContextAssumption DEF Init, TypeOK, Tenant, Place, Outcome, Work, Committed, NoConn
<1>2. HandlersOwn /\ SettingKept /\ KeptBy /\ WorkPlaced
  BY DEF Init, HandlersOwn, SettingKept, Unset, KeptBy, WorkPlaced, At
<1>3. /\ NoForeignWrites /\ UnloggedRaised /\ RefusalsNeedAnotherOrg
      /\ DeniedPlaced /\ CommittedPlaced /\ DeniedChangeNothing
  BY DEF Init, NoForeignWrites, UnloggedRaised, RefusalsNeedAnotherOrg, DeniedPlaced, CommittedPlaced,
         DeniedChangeNothing
<1> QED
  BY <1>1, <1>2, <1>3 DEF IInv

\* A step that moves a request, sets its work and says how it ends, on the connection it has.
LEMMA LocalSteps ==
    ASSUME IInv, NEW r \in Request, NEW to \in Place, NEW todo \in SUBSET Work, NEW how \in Outcome,
           pc' = [pc EXCEPT ![r] = to],
           work' = [work EXCEPT ![r] = todo],
           outcome' = [outcome EXCEPT ![r] = how],
           UNCHANGED <<pool, tenants, conn, commits>>,
           pc[r] # "done",
           to \in {"start", "unset"} => conn[r] = NoConn,
           to = "done" => conn[r] = NoConn,
           to = "handler" /\ conn[r] # NoConn => setting[conn[r]] \in {OrgOf[r], NoOrg},
           to = "handler" /\ r \in Anonymous => Unset(r),
           conn[r] = NoConn \/ to \in {"start", "unset", "committed", "done"} => todo = {},
           to = "cleanup" => todo = {} \/ (todo = {"change"} /\ how = "raised"),
           to \in {"start", "unset", "handler"} => pc[r] \in {"start", "unset", "handler"},
           how \in {"refused", "denied"} => to = "cleanup" /\ pc[r] \in {"start", "handler"},
           how = "refused" /\ outcome[r] # "refused" => \E o \in Org \ {OrgOf[r]} : LeftBy(o)
    PROVE  IInv'
<1> USE DEF IInv
<1>1. TypeOK'
  BY DEF TypeOK, pool, tenants
<1>2. \A s \in Request : /\ pc'[s] = IF s = r THEN to ELSE pc[s]
                         /\ work'[s] = IF s = r THEN todo ELSE work[s]
                         /\ outcome'[s] = IF s = r THEN how ELSE outcome[s]
  BY DEF TypeOK
<1>3. UNCHANGED <<fresh, idle, setting, kept, conn, commits>>
  BY DEF pool, tenants
<1>4. HandlersOwn'
  BY <1>2, <1>3 DEF HandlersOwn, At
<1>5. SettingKept'
  <2>1. \A s \in Request : Unset(s)' => Unset(s)
    BY <1>2, <1>3 DEF Unset, At
  <2> QED
    BY <1>2, <1>3, <2>1 DEF SettingKept
<1>6. KeptBy' /\ NoForeignWrites'
  BY <1>3 DEF KeptBy, NoForeignWrites, LeftBy
<1>7. WorkPlaced'
  BY <1>2, <1>3 DEF WorkPlaced
<1>8. UnloggedRaised'
  BY <1>2, <1>3 DEF UnloggedRaised, TypeOK, Committed
<1>9. RefusalsNeedAnotherOrg'
  <2>1. \A o : LeftBy(o)' = LeftBy(o)
    BY <1>3 DEF LeftBy
  <2> QED
    BY <1>2, <2>1 DEF RefusalsNeedAnotherOrg
<1>10. \A w \in commits : w.by \in Request
  BY DEF TypeOK, Committed
<1>11. DeniedPlaced' /\ CommittedPlaced' /\ DeniedChangeNothing'
  BY <1>2, <1>3, <1>10 DEF DeniedPlaced, CommittedPlaced, DeniedChangeNothing
<1> QED
  BY <1>1, <1>4, <1>5, <1>6, <1>7, <1>8, <1>9, <1>11

\* A session that waits takes a connection that is unopened or at the head of the queue.
LEMMA Checkouts ==
    ASSUME IInv, NEW r \in Request, CheckoutIdle(r) \/ CheckoutFresh(r)
    PROVE  IInv'
<1> USE DEF IInv
<1>1. /\ UNCHANGED <<setting, kept, pc, work, outcome, commits>>
      /\ pc[r] \in {"start", "unset", "committed", "cleanup"} /\ conn[r] = NoConn
  BY DEF CheckoutIdle, CheckoutFresh, tenants, Waits
<1> DEFINE Taken(c) ==
          /\ conn' = [conn EXCEPT ![r] = c]
          /\ setting[c] = kept[c]
          /\ \A s \in Request : conn[s] # c
          /\ \/ c \in fresh /\ fresh' = fresh \ {c} /\ idle' = idle /\ \A i \in DOMAIN idle : idle[i] # c
             \/ idle # <<>> /\ c = idle[1] /\ idle' = Tail(idle) /\ fresh' = fresh
<1>2. PICK c \in Conn : Taken(c)
  <2>1. CASE CheckoutIdle(r)
    <3>1. idle # <<>> /\ idle \in Seq(Conn) /\ 1 \in DOMAIN idle /\ idle[1] = Head(idle)
      BY <2>1 DEF CheckoutIdle, TypeOK
    <3>2. idle[1] \in Conn
      BY <3>1
    <3>3. setting[idle[1]] = kept[idle[1]] /\ \A s \in Request : conn[s] # idle[1]
      BY <3>1 DEF SettingKept, TypeOK
    <3>4. conn' = [conn EXCEPT ![r] = idle[1]] /\ idle' = Tail(idle) /\ fresh' = fresh
      BY <2>1, <3>1 DEF CheckoutIdle, Takes
    <3>5. Taken(idle[1])
      BY <3>1, <3>3, <3>4
    <3> QED
      BY <3>2, <3>5
  <2>2. CASE CheckoutFresh(r)
    <3>1. PICK c \in fresh : Takes(r, c) /\ fresh' = fresh \ {c} /\ idle' = idle
      BY <2>2 DEF CheckoutFresh
    <3>2. c \in Conn /\ setting[c] = kept[c] /\ \A s \in Request : conn[s] # c
      BY <3>1 DEF SettingKept, TypeOK
    <3>3. \A i \in DOMAIN idle : idle[i] # c
      BY <3>1 DEF TypeOK
    <3>4. Taken(c)
      BY <3>1, <3>2, <3>3 DEF Takes
    <3> QED
      BY <3>2, <3>4
  <2> QED
    BY <2>1, <2>2
<1>3. \A s \in Request : conn'[s] = IF s = r THEN c ELSE conn[s]
  BY <1>2 DEF TypeOK
<1>4. /\ idle' \in Seq(Conn)
      /\ \A i \in DOMAIN idle' : \E j \in DOMAIN idle : idle'[i] = idle[j] /\ idle[j] # c
      /\ \A i, j \in DOMAIN idle' : i # j => idle'[i] # idle'[j]
  <2>1. CASE idle' = idle /\ \A i \in DOMAIN idle : idle[i] # c
    BY <2>1 DEF TypeOK
  <2>2. CASE idle # <<>> /\ c = idle[1] /\ idle' = Tail(idle)
    <3> DEFINE n == Len(idle)
    <3>1. idle \in Seq(Conn) /\ n \in Nat \ {0} /\ DOMAIN idle = 1 .. n
      BY <2>2 DEF TypeOK
    <3>2. Tail(idle) \in Seq(Conn) /\ DOMAIN Tail(idle) = 1 .. n - 1
          /\ \A i \in 1 .. n - 1 : Tail(idle)[i] = idle[i + 1]
      BY <3>1, <2>2
    <3>3. \A i, j \in 1 .. n : i # j => idle[i] # idle[j]
      BY <3>1 DEF TypeOK
    <3> HIDE DEF n
    <3>4. \A i \in 1 .. n - 1 : i + 1 \in 1 .. n /\ i + 1 # 1 /\ 1 \in 1 .. n
      BY <3>1
    <3> QED
      BY <2>2, <3>1, <3>2, <3>3, <3>4
  <2> QED
    BY <1>2, <2>1, <2>2
<1>5. TypeOK'
  <2>1. conn' \in [Request -> Conn \cup {NoConn}]
    BY <1>2 DEF TypeOK
  <2>2. fresh' \subseteq fresh /\ c \notin fresh'
    <3>1. CASE c \in fresh /\ fresh' = fresh \ {c}
      BY <3>1
    <3>2. CASE idle # <<>> /\ c = idle[1] /\ fresh' = fresh
      <4>1. 1 \in DOMAIN idle
        BY <3>2 DEF TypeOK
      <4> QED
        BY <3>2, <4>1 DEF TypeOK
    <3> QED
      BY <1>2, <3>1, <3>2
  <2>3. \A i \in DOMAIN idle' : idle'[i] \notin fresh'
    BY <1>4, <2>2 DEF TypeOK
  <2>4. \A s \in Request : conn'[s] \notin fresh' /\ \A i \in DOMAIN idle' : idle'[i] # conn'[s]
    BY <1>3, <1>4, <2>2 DEF TypeOK
  <2>5. \A s, t \in Request : s # t /\ conn'[s] = conn'[t] => conn'[s] = NoConn
    BY <1>2, <1>3 DEF TypeOK
  <2> QED
    BY <1>1, <1>4, <2>1, <2>2, <2>3, <2>4, <2>5 DEF TypeOK
<1>6. HandlersOwn'
  BY <1>1, <1>3 DEF HandlersOwn, At
<1>7. SettingKept'
  <2>1. \A x \in fresh' : setting[x] = kept[x]
    BY <1>2 DEF SettingKept
  <2>2. \A i \in DOMAIN idle' : setting[idle'[i]] = kept[idle'[i]]
    BY <1>4 DEF SettingKept
  <2>3. \A s \in Request : pc[s] = "done" => conn'[s] = NoConn
    BY <1>1, <1>3 DEF SettingKept
  <2>4. \A s \in Request : Unset(s)' => setting[conn'[s]] = kept[conn'[s]]
    <3>1. \A s \in Request : s # r /\ Unset(s)' => Unset(s)
      BY <1>1, <1>3 DEF Unset, At
    <3> QED
      BY <1>2, <1>3, <3>1 DEF SettingKept
  <2> QED
    BY <1>1, <2>1, <2>2, <2>3, <2>4 DEF SettingKept
<1>8. /\ KeptBy' /\ NoForeignWrites' /\ WorkPlaced' /\ UnloggedRaised' /\ RefusalsNeedAnotherOrg'
      /\ DeniedPlaced' /\ CommittedPlaced' /\ DeniedChangeNothing'
  BY <1>1, <1>3 DEF KeptBy, LeftBy, NoForeignWrites, WorkPlaced, UnloggedRaised,
                    RefusalsNeedAnotherOrg, DeniedPlaced, CommittedPlaced, DeniedChangeNothing
<1> QED
  BY <1>5, <1>6, <1>7, <1>8

\* A transaction ends with tenant t; if it is committed, then under tenant u.
LEMMA Endings ==
    ASSUME IInv, NEW r \in Request, NEW t \in Tenant, NEW u \in Tenant,
           NEW to \in {"committed", "cleanup", "done"},
           Releases(r, t), Moves(r, to),
           conn[r] # NoConn, pc[r] # "done", to = "committed" => pc[r] = "handler",
           commits' = commits \/ Records(r, u),
           work[r] # {} /\ commits' # commits => u \in {OrgOf[r], NoOrg},
           t # NoOrg => LeftBy(t)',
           r \in Logged /\ commits' # commits =>
               \/ work[r] = {}
               \/ "log" \in work[r]
               \/ pc[r] = "cleanup" /\ outcome[r] = "raised" /\ to = "done"
    PROVE  IInv'
<1> USE DEF IInv
<1> DEFINE c == conn[r]
           new == [by |-> r, at |-> pc[r], what |-> work[r], tenant |-> u]
<1>1. /\ c \in Conn /\ c # NoConn /\ c \notin fresh
      /\ \A i \in DOMAIN idle : idle[i] # c
      /\ \A s \in Request : s # r => conn[s] # c
  BY DEF TypeOK
<1>2. /\ setting' = [setting EXCEPT ![c] = t] /\ kept' = [kept EXCEPT ![c] = t]
      /\ idle' = Append(idle, c) /\ conn' = [conn EXCEPT ![r] = NoConn]
      /\ work' = [work EXCEPT ![r] = {}] /\ pc' = [pc EXCEPT ![r] = to]
      /\ fresh' = fresh /\ outcome' = outcome
  BY DEF Releases, Moves
<1> HIDE DEF c
<1>3. /\ \A x \in Conn : setting'[x] = (IF x = c THEN t ELSE setting[x])
      /\ \A x \in Conn : kept'[x] = (IF x = c THEN t ELSE kept[x])
      /\ \A s \in Request : conn'[s] = (IF s = r THEN NoConn ELSE conn[s])
      /\ \A s \in Request : work'[s] = (IF s = r THEN {} ELSE work[s])
      /\ \A s \in Request : pc'[s] = (IF s = r THEN to ELSE pc[s])
  BY <1>2 DEF TypeOK
<1>4. /\ idle' \in Seq(Conn)
      /\ \A i \in DOMAIN idle' : idle'[i] = c \/ \E j \in DOMAIN idle : idle'[i] = idle[j]
      /\ \A i, j \in DOMAIN idle' : i # j => idle'[i] # idle'[j]
  <2> DEFINE n == Len(idle)
  <2>1. idle \in Seq(Conn) /\ n \in Nat /\ DOMAIN idle = 1 .. n
    BY DEF TypeOK
  <2>2. idle' \in Seq(Conn) /\ DOMAIN idle' = 1 .. n + 1 /\ idle'[n + 1] = c
        /\ \A i \in 1 .. n : idle'[i] = idle[i]
    BY <1>1, <1>2, <2>1
  <2>3. \A i, j \in 1 .. n : i # j => idle[i] # idle[j]
    BY <2>1 DEF TypeOK
  <2> HIDE DEF n
  <2>4. \A i \in 1 .. n + 1 : i = n + 1 \/ i \in 1 .. n
    BY <2>1
  <2> QED
    BY <1>1, <2>1, <2>2, <2>3, <2>4
<1>5. commits' \subseteq commits \cup {new} /\ commits \subseteq commits'
  BY DEF Records
<1>6. new \in Committed /\ new.by = r /\ new.at = pc[r] /\ new.tenant = u /\ new.what = work[r]
  BY TenantContextAssumption DEF Committed, TypeOK, Tenant
<1> HIDE DEF new
<1>7. TypeOK'
  <2>1. /\ setting' \in [Conn -> Tenant] /\ kept' \in [Conn -> Tenant]
        /\ conn' \in [Request -> Conn \cup {NoConn}] /\ work' \in [Request -> SUBSET Work]
        /\ pc' \in [Request -> Place] /\ commits' \subseteq Committed
    BY <1>2, <1>5, <1>6 DEF TypeOK, Place
  <2>2. \A i \in DOMAIN idle' : idle'[i] \notin fresh'
    BY <1>1, <1>2, <1>4 DEF TypeOK
  <2>3. NoConn \notin Conn
    BY TenantContextAssumption DEF NoConn
  <2>4. \A i \in DOMAIN idle' : idle'[i] \in Conn
    BY <1>4
  <2>5. \A s \in Request : conn'[s] \notin fresh' /\ \A i \in DOMAIN idle' : idle'[i] # conn'[s]
    BY <1>1, <1>2, <1>3, <1>4, <2>3, <2>4 DEF TypeOK
  <2>6. \A s, q \in Request : s # q /\ conn'[s] = conn'[q] => conn'[s] = NoConn
    BY <1>3 DEF TypeOK
  <2> QED
    BY <1>2, <1>4, <2>1, <2>2, <2>5, <2>6 DEF TypeOK
<1>8. HandlersOwn'
  <2> SUFFICES ASSUME NEW s \in Request, pc'[s] = "handler", conn'[s] # NoConn
               PROVE  setting'[conn'[s]] \in {OrgOf[s], NoOrg}
    BY DEF HandlersOwn, At
  <2>1. s # r /\ conn'[s] = conn[s] /\ pc[s] = "handler" /\ conn[s] \in Conn /\ conn[s] # c
    BY <1>1, <1>3 DEF TypeOK
  <2> QED
    BY <1>3, <2>1 DEF HandlersOwn, At
<1>9. SettingKept'
  <2>1. \A x \in fresh' : setting'[x] = kept'[x]
    BY <1>2, <1>3 DEF SettingKept, TypeOK
  <2>2. \A i \in DOMAIN idle' : setting'[idle'[i]] = kept'[idle'[i]]
    <3> SUFFICES ASSUME NEW i \in DOMAIN idle' PROVE setting'[idle'[i]] = kept'[idle'[i]]
      OBVIOUS
    <3>1. idle'[i] \in Conn
      BY <1>4
    <3> QED
      BY <1>3, <1>4, <3>1 DEF SettingKept
  <2>3. \A s \in Request : pc'[s] = "done" => conn'[s] = NoConn
    BY <1>3 DEF SettingKept
  <2>4. ASSUME NEW s \in Request, Unset(s)' PROVE setting'[conn'[s]] = kept'[conn'[s]]
    <3>1. /\ s # r /\ conn'[s] = conn[s] /\ Unset(s)
          /\ conn[s] # NoConn /\ conn[s] \in Conn /\ conn[s] # c
      BY <1>1, <1>3, <2>4 DEF TypeOK, Unset, At
    <3> QED
      BY <1>3, <3>1 DEF SettingKept
  <2> QED
    BY <2>1, <2>2, <2>3, <2>4 DEF SettingKept
<1>10. KeptBy'
  <2>1. \A o : LeftBy(o) => LeftBy(o)'
    BY <1>5 DEF LeftBy
  <2> QED
    BY <1>3, <2>1 DEF KeptBy
<1>11. WorkPlaced'
  BY <1>2, <1>3 DEF WorkPlaced
<1>12. NoForeignWrites'
  <2> SUFFICES ASSUME NEW w \in commits', w.what # {} PROVE w.tenant \in {OrgOf[w.by], NoOrg}
    BY DEF NoForeignWrites
  <2>1. w \in commits \/ (w = new /\ commits' # commits)
    BY <1>5
  <2> QED
    BY <1>6, <2>1 DEF NoForeignWrites
<1>13. UnloggedRaised'
  <2> SUFFICES ASSUME NEW w \in commits', w.what # {}, w.by \in Logged
               PROVE  \/ "log" \in w.what
                      \/ w.at = "cleanup" /\ outcome[w.by] = "raised" /\ pc'[w.by] = "done"
    BY <1>2 DEF UnloggedRaised
  <2>1. CASE w \in commits
    <3>1. w.by \in Request
      BY <2>1 DEF TypeOK, Committed
    <3> QED
      BY <1>3, <2>1, <3>1 DEF UnloggedRaised
  <2>2. CASE w \notin commits
    <3>1. w = new /\ commits' # commits
      BY <1>5, <2>2
    <3> QED
      BY <1>3, <1>6, <3>1
  <2> QED
    BY <2>1, <2>2
<1>14. RefusalsNeedAnotherOrg'
  <2>1. \A o : LeftBy(o) => LeftBy(o)'
    BY <1>5 DEF LeftBy
  <2> QED
    BY <1>2, <2>1 DEF RefusalsNeedAnotherOrg
<1>15. DeniedPlaced'
  BY <1>2, <1>3 DEF DeniedPlaced
<1>16. \A w \in commits' : w.by \in Request /\ (w \in commits \/ w.by = r)
  BY <1>5, <1>6 DEF TypeOK, Committed
<1>17. CommittedPlaced'
  BY <1>3, <1>16 DEF CommittedPlaced
<1>18. DeniedChangeNothing'
  <2> SUFFICES ASSUME NEW w \in commits', w.what # {}
               PROVE  outcome[w.by] \notin {"refused", "denied"}
    BY <1>2 DEF DeniedChangeNothing
  <2>1. CASE w \in commits
    BY <2>1 DEF DeniedChangeNothing
  <2>2. CASE w \notin commits
    <3>1. w = new
      BY <1>5, <2>2
    <3>2. w.by = r /\ work[r] # {}
      BY <1>6, <3>1
    <3> QED
      BY <3>2 DEF DeniedPlaced, WorkPlaced
  <2> QED
    BY <2>1, <2>2
<1> QED
  BY <1>7, <1>8, <1>9, <1>10, <1>11, <1>12, <1>13, <1>14, <1>15, <1>17, <1>18

\* A session sets the tenant of the connection it holds.
LEMMA SettingsOfTenant ==
    ASSUME IInv, NEW r \in Request, r \notin Anonymous, At(r, "start"), SetsTenant(r)
    PROVE  IInv'
<1> USE DEF IInv
<1> DEFINE c == conn[r]
<1>1. /\ c \in Conn /\ c # NoConn /\ c \notin fresh
      /\ \A i \in DOMAIN idle : idle[i] # c
      /\ \A s \in Request : s # r => conn[s] # c
  BY DEF TypeOK, At
<1>2. /\ setting' = [setting EXCEPT ![c] = OrgOf[r]] /\ pc' = [pc EXCEPT ![r] = "handler"]
      /\ pc[r] = "start"
      /\ UNCHANGED <<fresh, idle, kept, conn, work, outcome, commits>>
  BY DEF SetsTenant, Moves, At, pool
<1> HIDE DEF c
<1>3. OrgOf[r] \in Tenant
  BY TenantContextAssumption DEF Tenant
<1>4. /\ \A x \in Conn : setting'[x] = (IF x = c THEN OrgOf[r] ELSE setting[x])
      /\ \A s \in Request : pc'[s] = (IF s = r THEN "handler" ELSE pc[s])
  BY <1>2 DEF TypeOK
<1>5. \A s \in Request : conn[s] # NoConn => conn[s] \in Conn /\ (s = r \/ conn[s] # c)
  BY <1>1 DEF TypeOK
<1>6. conn[r] = c
  BY DEF c
<1>7. TypeOK'
  <2>1. setting' \in [Conn -> Tenant] /\ pc' \in [Request -> Place]
    BY <1>2, <1>3 DEF TypeOK, Place
  <2> QED
    BY <1>2, <2>1 DEF TypeOK
<1>8. HandlersOwn'
  BY <1>2, <1>4, <1>5, <1>6 DEF HandlersOwn, At
<1>9. SettingKept'
  <2>1. \A x \in fresh : setting'[x] = kept[x]
    BY <1>1, <1>4 DEF SettingKept, TypeOK
  <2>2. \A i \in DOMAIN idle : setting'[idle[i]] = kept[idle[i]]
    <3> SUFFICES ASSUME NEW i \in DOMAIN idle PROVE setting'[idle[i]] = kept[idle[i]]
      OBVIOUS
    <3>1. idle[i] \in Conn /\ idle[i] # c
      BY <1>1 DEF TypeOK
    <3> QED
      BY <1>4, <3>1 DEF SettingKept
  <2>3. \A s \in Request : pc'[s] = "done" => conn[s] = NoConn
    BY <1>4 DEF SettingKept
  <2>4. ASSUME NEW s \in Request, Unset(s)' PROVE setting'[conn[s]] = kept[conn[s]]
    <3>1. s # r /\ Unset(s) /\ conn[s] # NoConn
      BY <1>2, <1>4, <2>4 DEF Unset, At
    <3>2. conn[s] \in Conn /\ conn[s] # c
      BY <1>5, <3>1
    <3> QED
      BY <1>4, <3>1, <3>2 DEF SettingKept
  <2> QED
    BY <1>2, <2>1, <2>2, <2>3, <2>4 DEF SettingKept
<1>10. KeptBy' /\ NoForeignWrites' /\ RefusalsNeedAnotherOrg'
  BY <1>2 DEF KeptBy, LeftBy, NoForeignWrites, RefusalsNeedAnotherOrg
<1>11. WorkPlaced'
  BY <1>2, <1>4 DEF WorkPlaced
<1>12. UnloggedRaised'
  BY <1>2, <1>4 DEF UnloggedRaised, TypeOK, Committed
<1>13. \A w \in commits : w.by \in Request
  BY DEF TypeOK, Committed
<1>14. DeniedPlaced' /\ CommittedPlaced' /\ DeniedChangeNothing'
  BY <1>2, <1>4, <1>13 DEF DeniedPlaced, CommittedPlaced, DeniedChangeNothing
<1> QED
  BY <1>7, <1>8, <1>9, <1>10, <1>11, <1>12, <1>14

-----------------------------------------------------------------------------
\* Every step of a session keeps the invariant.
LEMMA IInvNext == IInv /\ [Next]_vars => IInv'
<1> SUFFICES ASSUME IInv, [Next]_vars PROVE IInv'
  OBVIOUS
<1>1. CASE AllDone \/ UNCHANGED vars
  <2>1. UNCHANGED <<fresh, idle, setting, kept, pc, conn, work, outcome, commits>>
    BY <1>1 DEF AllDone, vars, pool, tenants
  <2> QED
    BY <2>1 DEF IInv, TypeOK, NoForeignWrites, HandlersOwn, SettingKept, Unset, KeptBy, LeftBy,
                WorkPlaced, UnloggedRaised, RefusalsNeedAnotherOrg, DeniedPlaced, CommittedPlaced,
                DeniedChangeNothing, At
<1>2. CASE \E r \in Request : Step(r)
  <2> PICK r \in Request : Step(r)
    BY <1>2
  <2>1. /\ pc[r] \in Place /\ work[r] \in SUBSET Work /\ outcome[r] \in Outcome
        /\ work = [work EXCEPT ![r] = work[r]] /\ outcome = [outcome EXCEPT ![r] = outcome[r]]
        /\ pc = [pc EXCEPT ![r] = pc[r]]
        /\ conn[r] = NoConn => work[r] = {}
        /\ outcome[r] \in {"refused", "denied"} => pc[r] \in {"cleanup", "done"}
    BY DEF IInv, TypeOK, WorkPlaced, DeniedPlaced
  <2>2. CASE TenantNotSet(r)
    <3>1. /\ pc' = [pc EXCEPT ![r] = "unset"] /\ pc[r] = "start" /\ conn[r] = NoConn
          /\ UNCHANGED <<pool, tenants, conn, work, outcome, commits>>
      BY <2>2 DEF TenantNotSet, Exhausted, Waits, Moves
    <3>2. "unset" \in Place /\ work[r] = {}
      BY <3>1 DEF Place, IInv, WorkPlaced
    <3> QED
      BY <2>1, <3>1, <3>2, LocalSteps
  <2>3. CASE CheckoutIdle(r) \/ CheckoutFresh(r)
    BY <2>3, Checkouts
  <2>4. CASE PoolTimeout(r)
    <3>1. PICK to \in {"done", "cleanup"} : pc' = [pc EXCEPT ![r] = to]
      BY <2>4 DEF PoolTimeout, Moves
    <3>2. /\ outcome' = [outcome EXCEPT ![r] = "error"]
          /\ pc[r] \in {"start", "unset", "committed", "cleanup"} /\ conn[r] = NoConn
          /\ UNCHANGED <<pool, tenants, conn, work, commits>>
      BY <2>4 DEF PoolTimeout, Exhausted, Ends, Waits
    <3>3. to \in Place /\ "error" \in Outcome /\ work[r] = {}
      BY <3>1, <3>2 DEF Place, Outcome, IInv, WorkPlaced
    <3> QED
      BY <2>1, <3>1, <3>2, <3>3, LocalSteps
  <2>5. CASE Authenticate(r) \/ SetCurrentOrg(r)
    BY <2>5, SettingsOfTenant, TenantContextAssumption DEF Authenticate, SetCurrentOrg
  <2>6. CASE FindToken(r) \/ FindRun(r)
    <3>1. /\ pc' = [pc EXCEPT ![r] = "handler"] /\ pc[r] \in {"start", "unset"} /\ conn[r] # NoConn
          /\ setting[conn[r]] \in {OrgOf[r], NoOrg} /\ Unset(r)
          /\ UNCHANGED <<pool, tenants, conn, work, outcome, commits>>
      BY <2>6 DEF FindToken, FindRun, Moves, At, Visible, StrictlyVisible, TenantOf, Unset
    <3> DEFINE todo == work[r]
               how == outcome[r]
    <3>2. /\ work' = [work EXCEPT ![r] = todo] /\ outcome' = [outcome EXCEPT ![r] = how]
          /\ UNCHANGED <<pool, tenants, conn, commits>>
      BY <2>1, <3>1
    <3>3. /\ "handler" \in Place /\ todo \in SUBSET Work /\ how \in Outcome
          /\ how \notin {"refused", "denied"} /\ todo = {}
      BY <2>1, <3>1 DEF Place, IInv, WorkPlaced
    <3> HIDE DEF todo, how
    <3> QED
      BY <3>1, <3>2, <3>3, LocalSteps
  <2>7. CASE Refuse(r)
    <3>1. /\ pc' = [pc EXCEPT ![r] = "cleanup"] /\ outcome' = [outcome EXCEPT ![r] = "refused"]
          /\ At(r, "start") /\ setting[conn[r]] \notin {OrgOf[r], NoOrg}
          /\ UNCHANGED <<pool, tenants, conn, work, commits>>
      BY <2>7 DEF Refuse, Moves, Ends, Visible, TenantOf
    <3>2. "cleanup" \in Place /\ "refused" \in Outcome /\ work[r] = {}
      BY <3>1 DEF Place, Outcome, IInv, WorkPlaced, At
    <3>3. conn[r] \in Conn /\ setting[conn[r]] = kept[conn[r]] /\ kept[conn[r]] \in Tenant
      BY <3>1 DEF IInv, TypeOK, SettingKept, Unset, At
    <3>4. \E o \in Org \ {OrgOf[r]} : LeftBy(o)
      BY <3>1, <3>3 DEF IInv, KeptBy, Tenant
    <3> QED
      BY <2>1, <3>1, <3>2, <3>4, LocalSteps DEF At
  <2>8. CASE Change(r) \/ AppendAuditLog(r)
    <3>1. PICK todo \in SUBSET Work : work' = [work EXCEPT ![r] = todo]
      BY <2>1, <2>8 DEF Change, AppendAuditLog, Work
    <3>2. /\ pc[r] = "handler" /\ conn[r] # NoConn
          /\ UNCHANGED <<pool, tenants, pc, conn, outcome, commits>>
      BY <2>8 DEF Change, AppendAuditLog, At
    <3>3. setting[conn[r]] \in {OrgOf[r], NoOrg}
      BY <3>2 DEF IInv, HandlersOwn, At
    <3>4. r \in Anonymous => Unset(r)
      BY <3>2 DEF Unset, At
    <3> QED
      BY <2>1, <3>1, <3>2, <3>3, <3>4, LocalSteps
  <2>9. CASE PermissionDenied(r)
    <3>1. /\ pc' = [pc EXCEPT ![r] = "cleanup"] /\ outcome' = [outcome EXCEPT ![r] = "denied"]
          /\ pc[r] = "handler" /\ work[r] = {}
          /\ UNCHANGED <<pool, tenants, conn, work, commits>>
      BY <2>9 DEF PermissionDenied, Moves, Ends, At
    <3>2. "cleanup" \in Place /\ "denied" \in Outcome
      BY DEF Place, Outcome
    <3> QED
      BY <2>1, <3>1, <3>2, LocalSteps
  <2>10. CASE HandlerReads(r)
    <3>1. /\ pc' = [pc EXCEPT ![r] = "cleanup"] /\ pc[r] = "handler" /\ work[r] = {}
          /\ UNCHANGED <<pool, tenants, conn, work, outcome, commits>>
      BY <2>10 DEF HandlerReads, Moves, At
    <3>2. "cleanup" \in Place
      BY DEF Place
    <3> QED
      BY <2>1, <3>1, <3>2, LocalSteps
  <2>11. CASE HandlerRaises(r)
    <3>1. /\ pc' = [pc EXCEPT ![r] = "cleanup"] /\ outcome' = [outcome EXCEPT ![r] = "raised"]
          /\ pc[r] = "handler" /\ work[r] \in {{}, {"change"}}
          /\ UNCHANGED <<pool, tenants, conn, work, commits>>
      BY <2>11 DEF HandlerRaises, Moves, Ends, At
    <3>2. "cleanup" \in Place /\ "raised" \in Outcome
      BY DEF Place, Outcome
    <3> QED
      BY <2>1, <3>1, <3>2, LocalSteps
  <2>12. CASE Commit(r)
    <3>1. PICK to \in {"committed", "cleanup", "done"} :
              /\ At(r, "handler") /\ pc[r] = "handler" /\ conn[r] # NoConn
              /\ r \in Logged => work[r] # {"change"}
              /\ Records(r, setting[conn[r]]) /\ Releases(r, setting[conn[r]]) /\ Moves(r, to)
      BY <2>12 DEF Commit, AfterCommit, At, TenantOf
    <3>2. conn[r] \in Conn /\ setting[conn[r]] \in {OrgOf[r], NoOrg} /\ setting[conn[r]] \in Tenant
      BY <3>1 DEF IInv, TypeOK, HandlersOwn
    <3>3. PICK t \in Tenant : t = setting[conn[r]]
      BY <3>2
    <3>4. ASSUME t # NoOrg PROVE LeftBy(t)'
      <4>1. CASE r \in Anonymous
        <5>1. t = kept[conn[r]]
          BY <3>1, <3>3, <4>1 DEF IInv, SettingKept, Unset
        <5>2. LeftBy(t)
          BY <3>2, <3>4, <5>1 DEF IInv, KeptBy
        <5>3. commits \subseteq commits'
          BY <3>1 DEF Records
        <5> QED
          BY <5>2, <5>3 DEF LeftBy
      <4>2. CASE r \notin Anonymous
        <5> DEFINE new == [by |-> r, at |-> pc[r], what |-> work[r], tenant |-> t]
        <5>1. new \in commits'
          BY <3>1, <3>3 DEF Records
        <5>2. new.tenant = t /\ OrgOf[new.by] = t /\ new.by \notin Anonymous /\ new.at = "handler"
          BY <3>1, <3>2, <3>3, <3>4, <4>2
        <5> HIDE DEF new
        <5> QED
          BY <5>1, <5>2 DEF LeftBy
      <4> QED
        BY <4>1, <4>2
    <3>5. r \in Logged => work[r] = {} \/ "log" \in work[r]
      BY <2>1, <3>1 DEF Work
    <3> QED
      BY <3>1, <3>2, <3>3, <3>4, <3>5, Endings
  <2>13. CASE RevokesNothing(r)
    <3>1. /\ At(r, "start") /\ pc[r] = "start" /\ conn[r] # NoConn
          /\ Records(r, setting[conn[r]]) /\ Releases(r, setting[conn[r]]) /\ Moves(r, "cleanup")
      BY <2>13 DEF RevokesNothing, At, TenantOf
    <3>2. /\ conn[r] \in Conn /\ setting[conn[r]] = kept[conn[r]] /\ setting[conn[r]] \in Tenant
          /\ work[r] = {}
      BY <3>1 DEF IInv, TypeOK, SettingKept, Unset, WorkPlaced
    <3>3. PICK t \in Tenant : t = setting[conn[r]]
      BY <3>2
    <3>4. t # NoOrg => LeftBy(t)
      BY <3>2, <3>3 DEF IInv, KeptBy
    <3>5. t # NoOrg => LeftBy(t)'
      BY <3>1, <3>4 DEF Records, LeftBy
    <3> QED
      BY <3>1, <3>2, <3>3, <3>5, Endings
  <2>14. CASE Refresh(r)
    <3>1. PICK how \in {"ok", "lost"} : outcome' = [outcome EXCEPT ![r] = how]
      BY <2>14 DEF Refresh, Ends
    <3>2. /\ pc' = [pc EXCEPT ![r] = "cleanup"] /\ pc[r] = "committed"
          /\ UNCHANGED <<pool, tenants, conn, work, commits>>
      BY <2>14 DEF Refresh, Moves, At
    <3>3. "cleanup" \in Place /\ how \in Outcome /\ work[r] = {}
      BY <3>1, <3>2 DEF Place, Outcome, IInv, WorkPlaced
    <3> QED
      BY <2>1, <3>1, <3>2, <3>3, LocalSteps
  <2>15. CASE StatementFails(r) \/ MissRun(r)
    <3>1. PICK how \in {"error", "lost"} : outcome' = [outcome EXCEPT ![r] = how]
      BY <2>15 DEF StatementFails, MissRun, Ends
    <3>2. /\ pc' = [pc EXCEPT ![r] = "aborted"] /\ pc[r] # "done"
          /\ UNCHANGED <<pool, tenants, conn, work, commits>>
      BY <2>15 DEF StatementFails, MissRun, Moves, At
    <3>3. "aborted" \in Place /\ how \in Outcome
      BY <3>1 DEF Place, Outcome
    <3> QED
      BY <2>1, <3>1, <3>2, <3>3, LocalSteps
  <2>16. CASE ResetTenant(r)
    <3>1. /\ conn[r] # NoConn /\ pc[r] = "cleanup"
          /\ Records(r, NoOrg) /\ Releases(r, NoOrg) /\ Moves(r, "done")
      BY <2>16 DEF ResetTenant, At
    <3>2. NoOrg \in Tenant
      BY DEF Tenant
    <3>3. work[r] = {} \/ (work[r] = {"change"} /\ outcome[r] = "raised")
      BY <3>1 DEF IInv, WorkPlaced
    <3> QED
      BY <3>1, <3>2, <3>3, Endings
  <2>17. CASE CloseSession(r)
    <3>1. /\ conn[r] # NoConn /\ pc[r] # "done"
          /\ Releases(r, kept[conn[r]]) /\ Moves(r, "done") /\ commits' = commits
      BY <2>17 DEF CloseSession, At
    <3>2. conn[r] \in Conn /\ kept[conn[r]] \in Tenant
      BY <3>1 DEF IInv, TypeOK
    <3>3. PICK t \in Tenant : t = kept[conn[r]]
      BY <3>2
    <3>4. t # NoOrg => LeftBy(t)'
      BY <3>1, <3>2, <3>3 DEF IInv, KeptBy, LeftBy
    <3> QED
      BY <3>1, <3>2, <3>3, <3>4, Endings
  <2> QED
    BY <2>2, <2>3, <2>4, <2>5, <2>6, <2>7, <2>8, <2>9, <2>10, <2>11, <2>12, <2>13, <2>14, <2>15, <2>16,
       <2>17
    DEF Step
<1> QED
  BY <1>1, <1>2 DEF Next

(***************************************************************************)
(* The inductive invariant of the pool and its sessions.                   *)
(***************************************************************************)
THEOREM Inductive == Spec => []IInv
<1> QED
  BY IInvInit, IInvNext, PTL DEF Spec

(***************************************************************************)
(* Every connection is unopened, in the pool's queue once, or held by one  *)
(* session.                                                                *)
(***************************************************************************)
THEOREM TypeCorrect == Spec => []TypeOK
<1>1. IInv => TypeOK
  BY DEF IInv
<1> QED
  BY <1>1, Inductive, PTL

(***************************************************************************)
(* Nothing is changed under the tenant of another organisation, although   *)
(* connections come from the pool with tenants of others and activities    *)
(* may go on without having set theirs.                                    *)
(***************************************************************************)
THEOREM WritesStayInTenant == Spec => []NoForeignWrites
<1>1. IInv => NoForeignWrites
  BY DEF IInv
<1> QED
  BY <1>1, Inductive, PTL

(***************************************************************************)
(* A request that is refused or denied permission has changed nothing, in  *)
(* its handler or in get_db's commit, and what a handler that logs has     *)
(* changed is committed with its entry, except the changes of handlers     *)
(* that raise before they append one.                                      *)
(***************************************************************************)
THEOREM LoggedWithChanges == Spec => []ChangesAreLogged
<1>1. IInv => ChangesAreLogged
  BY DEF IInv, UnloggedRaised, DeniedChangeNothing, ChangesAreLogged
<1> QED
  BY <1>1, Inductive, PTL

(***************************************************************************)
(* No request is refused before a handler or an activity of another        *)
(* organisation has set its tenant and committed, with or without changes. *)
(***************************************************************************)
THEOREM RefusalsNeedOthers == Spec => []RefusalsNeedAnotherOrg
<1>1. IInv => RefusalsNeedAnotherOrg
  BY DEF IInv
<1> QED
  BY <1>1, Inductive, PTL

(***************************************************************************)
(* Every tenant that a connection brings back to the pool was left there   *)
(* by a commit of a handler or an activity of that organisation: never by  *)
(* get_db's commit, a logout's or a rollback.                              *)
(***************************************************************************)
THEOREM TenantsLeft == Spec => []TenantsLeftByCommits
<1>1. ASSUME IInv PROVE TenantsLeftByCommits
  <2>1. \A i \in DOMAIN idle : idle[i] \in Conn /\ setting[idle[i]] = kept[idle[i]]
    BY <1>1 DEF IInv, TypeOK, SettingKept
  <2> QED
    BY <1>1, <2>1 DEF IInv, KeptBy, TenantsLeftByCommits
<1> QED
  BY <1>1, Inductive, PTL

-----------------------------------------------------------------------------
(* The sessions implement ConnectionPool.                                  *)

FreeConns == fresh \cup {idle[i] : i \in DOMAIN idle}

Ended == {r \in Request : pc[r] = "done"}

LEMMA PoolInit == Init => Pool!Init
BY DEF Init, Pool!Init, NoConn

\* The queue's head leaves it: the others stay.
LEMMA HeadLeaves ==
    ASSUME IInv, idle # <<>>, idle' = Tail(idle), fresh' = fresh
    PROVE  Head(idle) \in FreeConns /\ FreeConns' = FreeConns \ {Head(idle)}
<1> DEFINE n == Len(idle)
<1>1. idle \in Seq(Conn) /\ n \in Nat \ {0} /\ DOMAIN idle = 1 .. n /\ Head(idle) = idle[1]
  BY DEF IInv, TypeOK
<1>2. /\ DOMAIN Tail(idle) = 1 .. n - 1
      /\ \A i \in 1 .. n - 1 : Tail(idle)[i] = idle[i + 1]
  BY <1>1
<1>3. /\ \A i, j \in 1 .. n : i # j => idle[i] # idle[j]
      /\ \A i \in 1 .. n : idle[i] \notin fresh
  BY <1>1 DEF IInv, TypeOK
<1> HIDE DEF n
<1>4. /\ 1 \in 1 .. n
      /\ \A i \in 1 .. n - 1 : i + 1 \in 1 .. n /\ i + 1 # 1
      /\ \A i \in 1 .. n : i # 1 => i - 1 \in 1 .. n - 1 /\ (i - 1) + 1 = i
  BY <1>1
<1>5. {Tail(idle)[i] : i \in 1 .. n - 1} = {idle[i] : i \in 1 .. n} \ {idle[1]}
  <2>1. ASSUME NEW x \in {idle[i] : i \in 1 .. n}, x # idle[1]
        PROVE  x \in {Tail(idle)[i] : i \in 1 .. n - 1}
    <3>1. PICK i \in 1 .. n : x = idle[i]
      BY <2>1
    <3>2. i # 1 /\ i - 1 \in 1 .. n - 1 /\ x = Tail(idle)[i - 1]
      BY <1>2, <1>4, <2>1, <3>1
    <3> QED
      BY <3>2
  <2>2. ASSUME NEW i \in 1 .. n - 1
        PROVE  Tail(idle)[i] \in {idle[j] : j \in 1 .. n} \ {idle[1]}
    <3>1. i + 1 \in 1 .. n /\ i + 1 # 1 /\ 1 \in 1 .. n /\ Tail(idle)[i] = idle[i + 1]
      BY <1>2, <1>4
    <3>2. idle[i + 1] # idle[1]
      BY <1>3, <3>1
    <3> QED
      BY <3>1, <3>2
  <2> QED
    BY <2>1, <2>2
<1>6. idle[1] \notin fresh
  BY <1>3, <1>4
<1>7. /\ FreeConns = fresh \cup {idle[i] : i \in 1 .. n}
      /\ FreeConns' = fresh \cup {Tail(idle)[i] : i \in 1 .. n - 1}
  BY <1>1, <1>2 DEF FreeConns
<1>8. idle[1] \in {idle[i] : i \in 1 .. n}
  BY <1>4
<1> QED
  BY <1>1, <1>5, <1>6, <1>7, <1>8

\* A checkout is a Take.
LEMMA CheckoutsTake ==
    ASSUME IInv, NEW r \in Request, CheckoutIdle(r) \/ CheckoutFresh(r)
    PROVE  \E c \in FreeConns : conn' = [conn EXCEPT ![r] = c] /\ FreeConns' = FreeConns \ {c}
<1>1. CASE CheckoutIdle(r)
  <2>1. /\ idle # <<>> /\ idle' = Tail(idle) /\ fresh' = fresh
        /\ conn' = [conn EXCEPT ![r] = Head(idle)]
    BY <1>1 DEF CheckoutIdle, Takes
  <2> QED
    BY <2>1, HeadLeaves
<1>2. CASE CheckoutFresh(r)
  <2>1. PICK c \in fresh : /\ conn' = [conn EXCEPT ![r] = c] /\ fresh' = fresh \ {c}
                           /\ idle' = idle
    BY <1>2 DEF CheckoutFresh, Takes
  <2>2. \A i \in DOMAIN idle : idle[i] # c
    BY <2>1 DEF IInv, TypeOK
  <2>3. c \in FreeConns /\ FreeConns' = FreeConns \ {c}
    BY <2>1, <2>2 DEF FreeConns
  <2> QED
    BY <2>1, <2>3
<1> QED
  BY <1>1, <1>2

\* What a commit, a reset and a close release goes back to the pool.
LEMMA ReleasesGive ==
    ASSUME IInv, NEW r \in Request, NEW t, Releases(r, t), conn[r] # NoConn
    PROVE  conn' = [conn EXCEPT ![r] = NoConn] /\ FreeConns' = FreeConns \cup {conn[r]}
<1> DEFINE n == Len(idle)
<1>1. idle \in Seq(Conn) /\ n \in Nat /\ DOMAIN idle = 1 .. n /\ conn[r] \in Conn
  BY DEF IInv, TypeOK
<1>2. /\ conn' = [conn EXCEPT ![r] = NoConn] /\ fresh' = fresh
      /\ DOMAIN idle' = 1 .. n + 1 /\ idle'[n + 1] = conn[r]
      /\ \A i \in 1 .. n : idle'[i] = idle[i]
  BY <1>1 DEF Releases
<1> HIDE DEF n
<1>3. 1 .. n + 1 = 1 .. n \cup {n + 1}
  BY <1>1
<1> QED
  BY <1>1, <1>2, <1>3 DEF FreeConns

LEMMA PoolNext == IInv /\ [Next]_vars => [Pool!Next]_<<FreeConns, conn, Ended>>
<1> SUFFICES ASSUME IInv, [Next]_vars PROVE [Pool!Next]_<<FreeConns, conn, Ended>>
  OBVIOUS
<1>1. CASE AllDone \/ UNCHANGED vars
  BY <1>1 DEF AllDone, vars, pool, FreeConns, Ended
<1>2. ASSUME NEW r \in Request, Step(r) PROVE [Pool!Next]_<<FreeConns, conn, Ended>>
  <2>1. /\ pc \in [Request -> Place] /\ conn \in [Request -> Conn \cup {NoConn}]
        /\ pc[r] = "done" => conn[r] = NoConn
    BY DEF IInv, TypeOK, SettingKept
  <2>2. CASE CheckoutIdle(r) \/ CheckoutFresh(r)
    <3>1. r \notin Ended /\ conn[r] = NoConn /\ Ended' = Ended
      BY <2>2 DEF CheckoutIdle, CheckoutFresh, Waits, Ended
    <3> QED
      BY <2>2, <3>1, CheckoutsTake DEF Pool!Next, Pool!Take, FreeConns, Ended
  <2>3. CASE Commit(r) \/ RevokesNothing(r) \/ ResetTenant(r) \/ CloseSession(r)
    <3>1. PICK to \in Place : /\ \E t : Releases(r, t)
                              /\ conn[r] # NoConn /\ pc' = [pc EXCEPT ![r] = to]
      <4>1. "done" \in Place /\ "cleanup" \in Place /\ AfterCommit(r) \subseteq Place
        BY DEF Place, AfterCommit
      <4> QED
        BY <2>3, <4>1 DEF Commit, RevokesNothing, ResetTenant, CloseSession, At, Moves
    <3>2. r \notin Ended /\ Ended' \in {Ended, Ended \cup {r}}
      BY <2>1, <3>1 DEF Ended
    <3> QED
      BY <3>1, <3>2, ReleasesGive DEF Pool!Next, Pool!Give, FreeConns, Ended
  <2>4. CASE PoolTimeout(r)
    <3>1. /\ UNCHANGED <<fresh, idle, conn>> /\ conn[r] = NoConn /\ r \notin Ended
          /\ Ended' \in {Ended, Ended \cup {r}}
      BY <2>1, <2>4 DEF PoolTimeout, Exhausted, Waits, Moves, pool, Ended
    <3>2. FreeConns' = FreeConns
      BY <3>1 DEF FreeConns
    <3> QED
      BY <3>1, <3>2 DEF Pool!Next, Pool!Leave, FreeConns, Ended
  <2>5. CASE \/ TenantNotSet(r) \/ Authenticate(r) \/ FindToken(r) \/ Refuse(r) \/ SetCurrentOrg(r)
             \/ FindRun(r) \/ MissRun(r) \/ PermissionDenied(r) \/ Change(r) \/ AppendAuditLog(r)
             \/ HandlerReads(r) \/ HandlerRaises(r) \/ Refresh(r) \/ StatementFails(r)
    <3>1. UNCHANGED <<fresh, idle, conn>>
      BY <2>5 DEF TenantNotSet, Authenticate, FindToken, Refuse, SetCurrentOrg, FindRun, MissRun,
                  PermissionDenied, Change, AppendAuditLog, HandlerReads, HandlerRaises, Refresh,
                  StatementFails, SetsTenant, pool
    <3>2. pc' = pc \/ (pc[r] # "done" /\ \E to \in Place \ {"done"} : pc' = [pc EXCEPT ![r] = to])
      <4>1. Place \ {"done"} = {"start", "unset", "handler", "committed", "cleanup", "aborted"}
        BY DEF Place
      <4> QED
        BY <2>5, <4>1 DEF TenantNotSet, Authenticate, FindToken, Refuse, SetCurrentOrg, FindRun,
                          MissRun, PermissionDenied, Change, AppendAuditLog, HandlerReads,
                          HandlerRaises, Refresh, StatementFails, SetsTenant, At, Moves
    <3>3. Ended' = Ended
      BY <2>1, <3>2 DEF Ended
    <3> QED
      BY <3>1, <3>3 DEF FreeConns
  <2> QED
    BY <1>2, <2>2, <2>3, <2>4, <2>5 DEF Step
<1> QED
  BY <1>1, <1>2 DEF Next

(***************************************************************************)
(* For any pool and requests: a connection serves one session at a time,   *)
(* and whichever way a session ends, it gives back the one it holds.       *)
(***************************************************************************)
THEOREM ImplementsPool == Spec => PoolSpec
<1>1. PoolSpec <=> Pool!Init /\ [][Pool!Next]_<<FreeConns, conn, Ended>>
  BY DEF PoolSpec, Pool!Spec, FreeConns, Ended
<1> QED
  BY <1>1, PoolInit, PoolNext, Inductive, PTL DEF Spec
=============================================================================
