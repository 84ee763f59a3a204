--------------------------- MODULE TenantContext ---------------------------
(***************************************************************************)
(* Database sessions over a pool of connections: get_db, the dependency    *)
(* get_current_user, set_current_org, the handlers that write and append   *)
(* to the audit log, and the activities of the workflow.                   *)
(*                                                                         *)
(* The tenant is a setting of the connection (app.current_org_id), read by *)
(* the row level policies of every table of an organisation.  A session    *)
(* takes a connection at its first statement and gives it back with every  *)
(* commit, with the setting that was committed; a rollback takes the       *)
(* setting back with the rest.  The next statement takes the connection    *)
(* that has been in the pool for longest.                                  *)
(***************************************************************************)
EXTENDS Naturals, Sequences

CONSTANTS
    Conn,        \* connections the pool may open
    Org,
    NoOrg,       \* the setting is empty
    Request,     \* sessions: requests of the API and activities
    OrgOf,       \* per request: the organisation it serves
    Anonymous,   \* the requests without get_current_user: refresh, logout, SCIM
    Activity,    \* the activities of the workflow
    Logged       \* the requests whose handler appends to the audit log

ASSUME TenantContextAssumption ==
    /\ NoOrg \notin Org
    /\ "none" \notin Conn
    /\ OrgOf \in [Request -> Org]
    /\ Anonymous \subseteq Request
    /\ Activity \subseteq Request
    /\ Anonymous \cap Activity = {}
    /\ Logged \subseteq Request

VARIABLES
    fresh,     \* connections that were not opened yet
    idle,      \* the pool's queue
    setting,   \* per connection: the tenant in effect
    kept,      \* per connection: the tenant that a rollback goes back to
    pc,        \* per request: how far it is
    conn,      \* per request: the connection of its open transaction
    work,      \* per request: what the transaction has changed
    outcome,   \* per request: how it ends
    commits    \* every commit: by whom, from where, of what, under which tenant

pool    == <<fresh, idle>>
tenants == <<setting, kept>>
vars    == <<pool, tenants, pc, conn, work, outcome, commits>>

Tenant == Org \cup {NoOrg}

NoConn == "none"

Work == {"change", "log"}

\* "unset": an activity goes on without its tenant; "aborted": a statement of the transaction has
\* failed, or the activity has not found its run.
Place == {"start", "unset", "handler", "committed", "cleanup", "aborted", "done"}

Outcome == {"ok", "refused", "denied", "raised", "lost", "error"}

Committed == [by : Request, at : Place, what : SUBSET Work, tenant : Tenant]

\* Every connection is unopened, in the queue once, or held by one request.
TypeOK ==
    /\ fresh \subseteq Conn
    /\ idle \in Seq(Conn)
    /\ setting \in [Conn -> Tenant]
    /\ kept \in [Conn -> Tenant]
    /\ pc \in [Request -> Place]
    /\ conn \in [Request -> Conn \cup {NoConn}]
    /\ work \in [Request -> SUBSET Work]
    /\ outcome \in [Request -> Outcome]
    /\ commits \subseteq Committed
    /\ \A i, j \in DOMAIN idle : i # j => idle[i] # idle[j]
    /\ \A i \in DOMAIN idle : idle[i] \notin fresh
    /\ \A r \in Request : conn[r] \notin fresh /\ \A i \in DOMAIN idle : idle[i] # conn[r]
    /\ \A r, s \in Request : r # s /\ conn[r] = conn[s] => conn[r] = NoConn

Init ==
    /\ fresh = Conn
    /\ idle = <<>>
    /\ setting = [c \in Conn |-> NoOrg]
    /\ kept = [c \in Conn |-> NoOrg]
    /\ pc = [r \in Request |-> "start"]
    /\ conn = [r \in Request |-> NoConn]
    /\ work = [r \in Request |-> {}]
    /\ outcome = [r \in Request |-> "ok"]
    /\ commits = {}

-----------------------------------------------------------------------------
(* The pool                                                                *)

At(r, p) == pc[r] = p /\ conn[r] # NoConn

Moves(r, to) == pc' = [pc EXCEPT ![r] = to]

Ends(r, how) == outcome' = [outcome EXCEPT ![r] = how]

TenantOf(r) == setting[conn[r]]

Waits(r) == pc[r] \in {"start", "unset", "committed", "cleanup"} /\ conn[r] = NoConn

Takes(r, c) == conn' = [conn EXCEPT ![r] = c]

\* Mutant of CheckoutIdle: the connection can be taken by a second session.
CheckoutIdleShared(r) ==
    /\ Waits(r)
    /\ idle # <<>>
    /\ Takes(r, Head(idle))
    /\ UNCHANGED <<pool, tenants, pc, work, outcome, commits>>

CheckoutIdle(r) ==
    /\ Waits(r)
    /\ idle # <<>>
    /\ Takes(r, Head(idle))
    /\ idle' = Tail(idle)
    /\ UNCHANGED <<fresh, tenants, pc, work, outcome, commits>>

CheckoutFresh(r) ==
    /\ Waits(r)
    /\ idle = <<>>
    /\ \E c \in fresh : Takes(r, c) /\ fresh' = fresh \ {c}
    /\ UNCHANGED <<idle, tenants, pc, work, outcome, commits>>

\* No connection comes free in time.
Exhausted(r) == Waits(r) /\ idle = <<>> /\ fresh = {}

\* The statement that waits raises; when that happens to get_db's reset, it is left out.
PoolTimeout(r) ==
    /\ Exhausted(r)
    /\ ~(r \in Activity /\ pc[r] = "start")
    /\ Moves(r, IF pc[r] = "cleanup" \/ r \in Activity THEN "done" ELSE "cleanup")
    /\ Ends(r, "error")
    /\ UNCHANGED <<pool, tenants, conn, work, commits>>

\* set_current_org swallows the exception: the activity goes on, and its next statement waits again.
TenantNotSet(r) ==
    /\ Exhausted(r)
    /\ r \in Activity
    /\ pc[r] = "start"
    /\ Moves(r, "unset")
    /\ UNCHANGED <<pool, tenants, conn, work, outcome, commits>>

\* The transaction of r ends with the setting t of its connection, which goes back to the pool.
Releases(r, t) ==
    /\ setting' = [setting EXCEPT ![conn[r]] = t]
    /\ kept' = [kept EXCEPT ![conn[r]] = t]
    /\ idle' = Append(idle, conn[r])
    /\ conn' = [conn EXCEPT ![r] = NoConn]
    /\ work' = [work EXCEPT ![r] = {}]
    /\ UNCHANGED <<fresh, outcome>>

\* A commit under tenant t, which may have changed nothing.
Records(r, t) ==
    commits' = commits \cup {[by |-> r, at |-> pc[r], what |-> work[r], tenant |-> t]}

-----------------------------------------------------------------------------
(* Requests and activities                                                 *)

SetsTenant(r) ==
    /\ setting' = [setting EXCEPT ![conn[r]] = OrgOf[r]]
    /\ Moves(r, "handler")
    /\ UNCHANGED <<pool, kept, conn, work, outcome, commits>>

\* Mutant of Visible: the policies have no clause for the empty setting.
VisibleToOwn(o, t) == t = o

\* Do the policies show the rows of organisation o under tenant t?
Visible(o, t) == t \in {o, NoOrg}

\* Mutant of StrictlyVisible: the policies are not enforced.
StrictlyVisibleToAll(o, t) == TRUE

\* projects, audit_runs and evidence_items have policies without the clause for no tenant.
StrictlyVisible(o, t) == t = o

\* get_current_user reads the membership first and sets the tenant then.
Authenticate(r) ==
    /\ r \notin Anonymous \cup Activity
    /\ At(r, "start")
    /\ Visible(OrgOf[r], TenantOf(r))
    /\ SetsTenant(r)

\* The row of the token is looked up; the tenant is not set.
FindToken(r) ==
    /\ r \in Anonymous
    /\ At(r, "start")
    /\ Visible(OrgOf[r], TenantOf(r))
    /\ Moves(r, "handler")
    /\ UNCHANGED <<pool, tenants, conn, work, outcome, commits>>

\* No membership, or no row of the token of a refresh or a SCIM call: a 403 or 401.
Refuse(r) ==
    /\ r \notin Activity
    /\ At(r, "start")
    /\ ~Visible(OrgOf[r], TenantOf(r))
    /\ Moves(r, "cleanup")
    /\ Ends(r, "refused")
    /\ UNCHANGED <<pool, tenants, conn, work, commits>>

\* A logout, which logs nothing, that sees no row of its token: it commits and answers "not revoked".
\* Whether a token is sent to be refreshed or to log out is left open.
RevokesNothing(r) ==
    /\ r \in Anonymous \ Logged
    /\ At(r, "start")
    /\ ~Visible(OrgOf[r], TenantOf(r))
    /\ Records(r, TenantOf(r))
    /\ Releases(r, TenantOf(r))
    /\ Moves(r, "cleanup")

\* An activity sets the tenant first.
SetCurrentOrg(r) ==
    /\ r \in Activity
    /\ At(r, "start")
    /\ SetsTenant(r)

\* An activity whose tenant was not set reads its run under the tenant it finds.
FindRun(r) ==
    /\ At(r, "unset")
    /\ StrictlyVisible(OrgOf[r], TenantOf(r))
    /\ Moves(r, "handler")
    /\ UNCHANGED <<pool, tenants, conn, work, outcome, commits>>

\* It does not see the run, or its insert of the report fails the policy: it ends without a commit.
MissRun(r) ==
    /\ At(r, "unset")
    /\ ~StrictlyVisible(OrgOf[r], TenantOf(r))
    /\ Moves(r, "aborted")
    /\ Ends(r, "lost")
    /\ UNCHANGED <<pool, tenants, conn, work, commits>>

\* Rows that differ from what was read; assigning the values they have changes nothing.
Change(r) ==
    /\ At(r, "handler")
    /\ work[r] = {}
    /\ work' = [work EXCEPT ![r] = {"change"}]
    /\ UNCHANGED <<pool, tenants, pc, conn, outcome, commits>>

AppendAuditLog(r) ==
    /\ r \in Logged
    /\ At(r, "handler")
    /\ "log" \notin work[r]
    /\ work' = [work EXCEPT ![r] = @ \cup {"log"}]
    /\ UNCHANGED <<pool, tenants, pc, conn, outcome, commits>>

\* require_permission raises a 403; whom it denies, by role, rows and tags, is left open.
PermissionDenied(r) ==
    /\ r \notin Anonymous \cup Activity
    /\ At(r, "handler")
    /\ work[r] = {}
    /\ Moves(r, "cleanup")
    /\ Ends(r, "denied")
    /\ UNCHANGED <<pool, tenants, conn, work, commits>>

\* A handler that only reads has nothing to commit.
HandlerReads(r) ==
    /\ r \notin Activity
    /\ At(r, "handler")
    /\ work[r] = {}
    /\ Moves(r, "cleanup")
    /\ UNCHANGED <<pool, tenants, conn, work, outcome, commits>>

\* A handler raises an HTTPException, perhaps after it has changed objects.
HandlerRaises(r) ==
    /\ r \notin Activity
    /\ At(r, "handler")
    /\ work[r] \in {{}, {"change"}}
    /\ Moves(r, "cleanup")
    /\ Ends(r, "raised")
    /\ UNCHANGED <<pool, tenants, conn, work, commits>>

\* The session of an activity is closed; a handler reads its row again, or returns.
AfterCommit(r) ==
    CASE r \in Activity  -> {"done"}
      [] r \in Anonymous -> {"cleanup"}
      [] OTHER           -> {"committed", "cleanup"}

\* Mutant of Commit: the handler commits before it appends to the log.
CommitBeforeLog(r) ==
    /\ At(r, "handler")
    /\ Records(r, TenantOf(r))
    /\ Releases(r, TenantOf(r))
    /\ \E to \in AfterCommit(r) : Moves(r, to)

\* A handler that logs has done so before it commits what it changed.  A commit with nothing changed
\* is one like any other: an unchanged policy or plan, the progress of most stages.
Commit(r) ==
    /\ At(r, "handler")
    /\ r \in Logged => work[r] # {"change"}
    /\ Records(r, TenantOf(r))
    /\ Releases(r, TenantOf(r))
    /\ \E to \in AfterCommit(r) : Moves(r, to)

\* db.refresh after the commit, which finds the row or raises; its table has either kind of policy.
Refresh(r) ==
    /\ At(r, "committed")
    /\ Moves(r, "cleanup")
    /\ \E found \in {Visible(OrgOf[r], TenantOf(r)), StrictlyVisible(OrgOf[r], TenantOf(r))} :
        Ends(r, IF found THEN "ok" ELSE "lost")
    /\ UNCHANGED <<pool, tenants, conn, work, commits>>

\* A statement fails, and the connection's transaction with it.
StatementFails(r) ==
    /\ \E p \in {"start", "unset", "handler", "committed", "cleanup"} : At(r, p)
    /\ Moves(r, "aborted")
    /\ Ends(r, "error")
    /\ UNCHANGED <<pool, tenants, conn, work, commits>>

\* Mutant of ResetTenant: the reset is left to the next request.
ResetTenantLater(r) ==
    /\ r \notin Activity
    /\ At(r, "cleanup")
    /\ Records(r, TenantOf(r))
    /\ Releases(r, TenantOf(r))
    /\ Moves(r, "done")

\* get_db clears the tenant and commits, whatever the handler did; its commit flushes what a handler
\* that raised has changed (integrations, users and memberships, whose policies allow no tenant).
ResetTenant(r) ==
    /\ r \notin Activity
    /\ At(r, "cleanup")
    /\ Records(r, NoOrg)
    /\ Releases(r, NoOrg)
    /\ Moves(r, "done")

\* Mutant of CloseSession: the session is dropped with its transaction open.
CloseSessionHolding(r) ==
    /\ At(r, "aborted") \/ (r \in Activity /\ At(r, "handler"))
    /\ Moves(r, "done")
    /\ UNCHANGED <<pool, tenants, conn, work, outcome, commits>>

\* A session is closed: its transaction, with the tenant set in it, is rolled back.
CloseSession(r) ==
    /\ At(r, "aborted") \/ (r \in Activity /\ At(r, "handler"))
    /\ Releases(r, kept[conn[r]])
    /\ Moves(r, "done")
    /\ UNCHANGED commits

-----------------------------------------------------------------------------
Step(r) ==
    \/ CheckoutIdle(r) \/ CheckoutFresh(r) \/ PoolTimeout(r) \/ TenantNotSet(r)
    \/ Authenticate(r) \/ FindToken(r) \/ Refuse(r) \/ RevokesNothing(r)
    \/ SetCurrentOrg(r) \/ FindRun(r) \/ MissRun(r)
    \/ PermissionDenied(r) \/ Change(r) \/ AppendAuditLog(r) \/ HandlerReads(r)
    \/ HandlerRaises(r) \/ Commit(r) \/ Refresh(r) \/ StatementFails(r)
    \/ ResetTenant(r) \/ CloseSession(r)

\* Nothing else lets the model stop: no session waits for ever for a connection of another.
AllDone ==
    /\ \A r \in Request : pc[r] = "done"
    /\ UNCHANGED vars

Next == AllDone \/ \E r \in Request : Step(r)

Spec == Init /\ [][Next]_vars

-----------------------------------------------------------------------------
(***************************************************************************)
(* Whatever tenant a connection comes with, and although set_current_org   *)
(* may fail unnoticed, nothing is changed under a tenant that is neither   *)
(* the session's own nor empty.                                            *)
(***************************************************************************)
NoForeignWrites == \A w \in commits : w.what # {} => w.tenant \in {OrgOf[w.by], NoOrg}

(***************************************************************************)
(* get_db commits after every handler, and yet: a request that was refused *)
(* or denied permission has changed nothing, and what a handler that       *)
(* appends to the log has changed is committed with its entry, unless the  *)
(* handler raised in between: get_db then commits the changes alone.       *)
(***************************************************************************)
ChangesAreLogged ==
    \A w \in commits : w.what # {} =>
        /\ outcome[w.by] \notin {"refused", "denied"}
        /\ \/ w.by \in Logged => "log" \in w.what
           \/ w.at = "cleanup" /\ outcome[w.by] = "raised"

\* A handler behind get_current_user, or an activity, of o has committed under tenant o.
LeftBy(o) ==
    \E w \in commits : w.tenant = o /\ OrgOf[w.by] = o /\ w.by \notin Anonymous /\ w.at = "handler"

(***************************************************************************)
(* A request is refused only after a handler or an activity of another     *)
(* organisation has set its tenant and committed: the requests of one      *)
(* organisation, however they end, never make each other fail, and neither *)
(* does a commit of get_db or of a logout.                                 *)
(***************************************************************************)
RefusalsNeedAnotherOrg ==
    \A r \in Request : outcome[r] = "refused" => \E o \in Org \ {OrgOf[r]} : LeftBy(o)

(***************************************************************************)
(* A connection goes back to the pool with a tenant only if a handler or   *)
(* an activity of that organisation has committed under it, with or        *)
(* without changes: no request that only reads, raises, is refused or      *)
(* denied, or has its transaction aborted leaves its own.                  *)
(***************************************************************************)
TenantsLeftByCommits ==
    \A i \in DOMAIN idle : setting[idle[i]] # NoOrg => LeftBy(setting[idle[i]])

(***************************************************************************)
(* Whatever ends a session - its commit, get_db's reset, a failed          *)
(* statement, an activity that raises - it gives its connection back, and  *)
(* nobody else has held it meanwhile: sessions implement ConnectionPool.   *)
(***************************************************************************)
Pool == INSTANCE ConnectionPool WITH
    Session <- Request, None <- NoConn,
    free <- fresh \cup {idle[i] : i \in DOMAIN idle},
    holder <- conn,
    closed <- {r \in Request : pc[r] = "done"}

PoolSpec == Pool!Spec

(***************************************************************************)
(* "We set it at session level to survive commit/refresh within one        *)
(* request lifecycle" (tenancy.py): a request that has set its tenant and  *)
(* commits goes on under it.  The code gives the connection back.          *)
(***************************************************************************)
TenantSurvivesCommit ==
    \A r \in Request \ Anonymous : At(r, "committed") => TenantOf(r) = OrgOf[r]
=============================================================================
