# A verification model of Audity

TLA+ specifications of the Audity backend: what it keeps in its database and
object store, who changes it, in which order, and what must hold whatever the
interleaving, crash, retry or timeout. Small instances are model-checked with
TLC; the most important results are proved for every instance with TLAPS.

Paths below are relative to the repository root; `app/` is `src/backend/app/`.

## 1. The system

Audity is a FastAPI service (`app/main.py`, `app/enterprise.py`) over Postgres
(SQLAlchemy's async session, `app/db.py`), an object store (`app/storage.py`)
and Temporal (`app/temporal_workflow.py`, run by `src/worker/`). Users of an
organisation create projects, connect integrations, upload evidence and launch
audit runs; a run collects evidence, evaluates a catalog of controls, renders a
signed report and leaves findings and remediation tasks, which users then
approve, waive or comment on. Everything of note is written to a hash-chained
audit log.

| Component | State | Operations | Correct when |
|---|---|---|---|
| Audit run workflow: `main.create_audit_run`, `workflow_launcher`, `temporal_workflow`, `workflow_runtime`, worker | `audit_runs`, report rows of `evidence_items`, `findings`, `remediation_tasks`, report objects; the workflow's own position | create, launch, eight stages, `mark_audit_failed` | the status only moves forward, a terminal status is logged, a completed run has its report and exactly its findings and tasks |
| Audit log: `audit_log.py` | `audit_log_entries`, its id sequence | append, inside the caller's transaction | every entry links to the one before it in its organisation |
| Refresh token sessions: `auth_sessions.py` | `auth_sessions` | login, refresh, logout | a token is exchanged once, a revoked session stays revoked |
| Request transaction: `db.get_db` | the session of a request | commit in a `finally` | what is committed is logged |
| Tenant context: `tenancy.py`, row level policies | `app.current_org_id` of a pooled connection | set, reset | nothing is done under the tenant of another organisation |
| Request authentication: `deps.py`, `security.py` | – | token, user, membership, MFA | checks see current rows |
| Findings, approvals, waivers, comments: `enterprise.py` 498-605 | `findings.status`, `finding_approvals`, `waivers`, `remediation_comments` | request, decide, waive, comment | the finding's status follows the decisions |
| Permissions: `permissions.py` | `role_permissions` | decide | a role has its defaults and the rows added to them |
| Rate limiter: `rate_limit.py` | counters per key and minute, in Redis or in memory | check | a window admits the limit and refuses only beyond it |
| Signing and secrets: `signing.py`, `secret_store.py` | secrets by reference | get, set, rotate, sign, verify | what is signed is signed with a key that was stored |
| Evidence: `main.py` 701-829, `av_scanner.py` | `evidence_items`, objects | upload, scan, download | a downloadable row has a clean object with its hash |
| Auditor package: `enterprise.py` 608-665, `package_export.py` | `audit_packages`, objects | export | a package is one consistent picture of a run |
| Rules and risk: `rules.py`, `catalog_engine.py` | – | evaluate, score | score within bounds, levels by threshold |
| SCIM: `enterprise.py` 261-450 | `users`, `memberships` | provision, patch | the log's last word on an account or membership is so |
| CRUD: projects, integrations, organisations, policies, plans | single rows | create, update, delete | – |
| Frontend, endpoint agent, scripts, deployment | – | clients and configuration | – |

How they meet: every handler and activity runs its own database transaction at
READ COMMITTED and interleaves with all others at each `await`; handlers and
activities all append to the audit log; the API deletes projects (foreign keys
cascade) while the workflow runs; users waive findings that persisting a run
again deletes; SCIM deactivates users and changes roles while their calls are
being checked; Temporal retries activities and closes them at a timeout without
stopping the attempt that is running.

What is hard, and what the properties are for, is listed line by line under
`hazards` in `PROJECT.json`: reads that are used after an await (audit log,
sessions, decisions, provisioning), writes that the object-relational session
leaves out because the value it read was the same, keys and counters that two
processes create at once, commits in doubt that are retried, attempts that
outlive their activity, objects and rows written one after the other, runs
whose launch or failure path is lost.

## 2. Modules

| Module | Models | Composes |
|---|---|---|
| `AuditLog` | `append_audit_log` in concurrent transactions | refines `HashChain` |
| `HashChain` | abstract: one growing chain per organisation | |
| `RateLimiter` | the counters of `RateLimiter.check`, in Redis or in memory | |
| `SigningKey` | the signing key in the secret store, loaded or created | |
| `AuditRun` | one audit run, inline or under Temporal, with users and faults | refines `RunLifecycle` |
| `RunLifecycle` | abstract: queued, running, completed or failed | |
| `RunExport` | a package export beside the run it packs | extends `AuditRun` |
| `AuthSessions` | refresh token sessions | refines `SessionLine` |
| `SessionLine` | abstract: one live session per login | |
| `Directory` | SCIM creation and patches of a user and memberships | |
| `Admission` | the checks in front of a sensitive endpoint | |
| `FindingDecisions` | approvals, decisions and waivers of a finding | |
| `EvidenceStore` | uploads, downloads and package exports of one run | |
| `TenantContext` | database sessions over the connection pool, the tenant setting, the policies that read it | refines `ConnectionPool` |
| `ConnectionPool` | abstract: a connection serves one session at a time and comes back when that ends | |
| `*Proofs` | theorems: `AuditLogProofs`, `AuditRunProofs`, `RunExportProofs`, `AuthSessionsProofs`, `EvidenceStoreProofs`, `TenantContextProofs` about the module of that name, `SharedStateProofs` about `RateLimiter` and `SigningKey`, `AccountsProofs` about `Admission`, `FindingDecisions` and `Directory` | |
| `MC*` | the instances TLC checks | |

`MCSharedState` and `MCAccounts` each put components side by side whose models
share no variable: a behaviour picks one of them at its start and the others
stand still. They are together because they raise one question: in
`MCSharedState`, what several processes do to a store that they read first and
write later without a lock; in `MCAccounts`, what becomes of a request that
checks rows which other requests commit in between.

### AuditLog

A writer is a database transaction that appends one entry (no caller appends
twice in one transaction). `ReadPrevious` is the query of `append_audit_log`,
`InsertEntry` the flush that draws an id from the sequence, `Commit` makes the
row visible, `Rollback` gives it up and loses the id. A hash is represented by
the id of the entry it was computed from: the digest covers `prev_hash`, the
payload and a timestamp in microseconds, so two entries have different hashes.
The trigger `prevent_audit_log_mutation` leaves no other write to the table, so
there is no action for one. `SerialOrg` are organisations whose appends do not
overlap; for the others nothing is assumed.

### RateLimiter

A counter belongs to a key and a window; keys do not influence each other, so
there is one. In Redis a check is `Increment` and, for the first of its window,
`SetExpiry`, and it may die before, between or after them (`CheckRaises`). Redis
drops a counter whose time to live is over (`Hits`; external, modelled from its
use). In memory a check has no `await` and is one step (`CheckInMemory`). The
place is chosen once, as `startup` does; `ForgetMemory` is a restart. `Tick`
holds the one thing the code relies on without saying so: a check comes to
Redis at most `MaxDelay` seconds after its window has ended. With 61 seconds to
live from the first `INCR` on, that is one second; a check that comes later
would find its counter gone, and be the first of its window again.

### SigningKey

`_load_or_create_private_key` takes every `SecretStoreError` of the get for a
miss: a 404 (`MissKey`) or any other status of Vault (`LoadKeyFails`). It then
stores a key of its own, which Vault takes (`InstallKey`), refuses (`RefuseKey`)
or gets after the caller has given up (`AbandonKey`, `ArriveLate`). An admin may
set the secret to a key or to something that is none (`RotateKey`, `junk`). In
memory neither call suspends, so a signing is one step.

### AuditRun

State: the rows the run owns, the two report objects, the project row, the
position of the workflow (`wf`), the values it carries (`results`, `report`),
one attempt of a stage (`work`) and one of the failure activity (`mark`).

* `CreateRun` and `Launch` are two steps, as in `create_audit_run`: the commit
  comes first. `LaunchFails` is Temporal being down or the API dying between.
* A stage that writes is a read step, steps for the object puts, and a commit
  step; the read-only stages are one step. `_update_run_progress` is part of
  the stage's first step: it writes no column except the status, in
  `snapshot_integrations`, because it assigns back the dictionary that it loaded
  and changed in place, which SQLAlchemy does not see as a change. For the same
  reason an assigned status that equals the one read is not written
  (`seen` in `CommitSnapshot`, `CompletedRow`, `FailedRow`).
* `StageReturns`, `StageRaises`, `AttemptLimit` are the retry policy
  (3 attempts) and the `try`/`except` of the workflow; in inline mode one
  attempt. `MarkReturns`, `MarkRaises` are the `except` block, which has no
  retry limit under Temporal and no retry inline.
* `TimeoutStage`, `TimeoutMark` are Temporal's schedule-to-close timeout. The
  attempt that is running goes on (`work` stays) and reports to nobody. A new
  attempt starts only after the previous one reported failure, since no
  start-to-close or heartbeat timeout is set: so one `work` slot is enough.
* `KillStageAttempt`, `KillMarkAttempt` lose a worker; Temporal learns of it
  only at the timeout (`Lost`). `KillInlineRun` loses the API process.
* `RenameProject`, `DeleteProject`, `WaiveFinding` are the API's writes to the
  same rows. Finding ids are the attempt and the control they were made from.

`faults` selects what a behaviour may meet: `crash`, `timeout`, `lostack` (a
commit takes effect and the client sees an error) and `delete`. It never changes
in a behaviour, so a property can say under which faults it is claimed.

### AuthSessions

A request is a transaction: `Refresh` finds the session of the token and checks
`revoked_at` and `expires_at`, `CheckUser` reads the user, `Flush` writes under
the row's lock, `Commit` publishes. `Login` and `Logout` have fewer checks, as
in the code. Membership rows are never deleted, so that check always passes. A
handler that raises after its flush commits all the same (`get_db`), so it needs
no action of its own; `Abort` is a lost connection.

### Directory

One user, several organisations. A SCIM request reads the account, then the
membership, and writes at its commit the columns it assigned another value than
it read (`Flushed`). A creation flushes the new account before it reads the
membership (`InsertAccount`), which waits for another one with the same email.
Creations and patches log what they assign (`CommitLogged`); the patch of a
group logs nothing, and a patch that comes to an unknown group raises after its
other assignments, which `get_db` commits (`CommitUnlogged`). `told` is what the
log says last, `untold` what it may be wrong about, and why.

### Admission

One call of one user: the queries of `get_current_user` (`CheckActive`,
`CheckMembership`), of `require_mfa` (`CheckMfa`) and of `require_permission`
(`CheckPermission`) are steps of their own, between which SCIM, the policy
endpoint and the permissions endpoint commit (`Provision`, `UpsertPolicy`,
`CreatePermission`). `seen` and `missed` collect which of the four facts held,
or did not, at some moment since the call began. `ContextMfa` is `FALSE` because
the `UserContext` is built without the claim.

### FindingDecisions

One control of one run: its finding, the approvals that are requested for it
and its waivers. `CommitDecision` writes, of the approval and of the finding, the
columns whose value it changes (`RowAfter`, `StatusAfter`); it asks neither for
a pending approval nor for another user than the requester.
`PersistResults` is the run's repetition: it replaces the finding and deletes
what refers to it, and requests that read the old rows fail at their commit
(`gone`).

### EvidenceStore

An upload is a put, a scan, the signature and flush, and a commit; `UploadFails`
stands for whatever ends it in between, and the object stays. An export selects
rows, gets their objects one by one (`GetObject`, `ObjectUnavailable`), puts the
archive and commits its rows. Keys are drawn anew for every object, so a request
stands for its key, and `content` says which uploads are inside a package, since
a package may be packed by the next. A download is a check and a get. Flushed
rows hold the project's row against deletion, since they refer to it.

### RunExport

`RunExport` extends `AuditRun` by the variable `pkg`: the export in progress and
what its statements have read so far. A step is one of `AuditRun` or one of the
export, which writes nothing that the run reads. Rows of uploads are left to
`EvidenceStore`; what matters here is that the run's report keys are written
again by later attempts. An object the store does not return is packed as
`Placeholder`, since `build_auditor_package` catches every error.

### TenantContext

A request is a session of `get_db` (a user's, behind `get_current_user`, or an
`Anonymous` one: token refresh, logout, SCIM), or an `Activity` of the workflow
with a session of its own. `setting` is `app.current_org_id` of a connection,
`kept` its value when the connection's transaction began. The pool is SQLAlchemy's
(`CheckoutIdle`, `CheckoutFresh`, `PoolTimeout`, `Releases`; external), modelled
from how the session uses it:

* a session takes a connection at its first statement and gives it back at each
  commit; the queue is first in, first out, so the next statement gets the
  connection that has been idle for longest, with whatever tenant is on it. A
  connection is opened only when none is idle;
* `set_config(..., false)` lasts beyond the transaction if that commits, and is
  rolled back with it otherwise (`CloseSession`, `kept`);
* `get_db` clears the setting and commits in its `finally` block (`ResetTenant`),
  whatever the handler did, so changes of a handler that raised are written.
  Activities close their session and clear nothing: after their commit the tenant
  stays on the connection;
* a commit with nothing changed commits the setting and gives the connection back
  like any other (`Commit`): the progress of seven of the eight stages, and a policy
  or a plan that is set to what it was, change no row. `commits` therefore records
  every commit, get_db's and the empty ones too, with the place it was made from;
* a statement that fails aborts the transaction (`StatementFails`); the reset
  fails with it and is swallowed, and the session is closed.

`get_current_user` reads the membership before it sets the tenant
(`Authenticate`, `Refuse`): the policy of `memberships` shows it under no tenant
or its own (`Visible`); `projects`, `audit_runs` and `evidence_items` have a
policy without the first clause (`StrictlyVisible`). A refresh that does not see
its session row is refused in the same way, but a logout is not: it commits and
answers that nothing was revoked (`RevokesNothing`), and its connection goes back
with the tenant it came with. Whether an `Anonymous` request that logs nothing is
a refresh or a logout is left open.

`set_current_org` swallows every exception. For an activity it is the first
statement, so what it swallows may be the timeout of the pool: the activity then
goes on without its tenant (`TenantNotSet`), and its next statement, the read of
its run, waits for a connection again. Under its own tenant, left there by
someone else, it finds the run and works on (`FindRun`); under none or another's
the strict policy hides it (`MissRun`): `_update_run_progress` and
`mark_audit_failed` return, `persist_results_activity` raises, and the insert of
the report's rows, which is not preceded by a read of the run, fails the policy.
None of these commits. A user's request calls it on the connection that it holds.

After its commit a handler returns, or reads its row again (`Refresh`), and
returns. `PermissionDenied` is the 403 of `require_permission`. That every handler
that calls it does so before it changes anything is read off the handlers and is
its guard, not a result; whom it denies is left open. Handlers are told apart
by what matters here: whether they log (`Logged`), only read, raise after they
changed objects, commit with changes or without, refresh. A handler that changes
without logging commits `{"change"}`, one that logs what it has set to the value
it had commits `{"log"}`. The mock login, which sets the tenant before it reads
anything, is left out, and so is a reset that finds no connection (the session
ends all the same).

## 3. Runs

| Run | Instance | Shows |
|---|---|---|
| `shared_state` | log: 2 organisations (1 serial), 3 writers, 5 ids; limiter: 2 checks, limit 1, windows of 2 s; key: 2 signers, 3 keys | entries link backwards to committed entries of their organisation, forks are no wider than the open transactions, the serial organisation's log implements `HashChain`; a window admits the limit and refuses only beyond it; what is signed is signed with a key that was stored meanwhile, and no more keys are created than signers and failed calls explain |
| `auditlog_concurrent` | 1 organisation, 2 writers, 3 ids | **violation**: overlapping appends fork the chain |
| `run_faulty` | 2 controls, 2 attempts, 2 mark attempts, 1 rename; four orderly deployments (crashes, deletion) and three others (all faults, all but `lostack`, all but `timeout`) | what a terminal status implies for log, report, findings, tasks, waivers; what a closed workflow leaves behind is what it returned; an orderly run implements `RunLifecycle`; every step of a workflow brings it nearer to its end; every workflow closes; a run that meets no fault (none dies, nothing is deleted, lost or late) ends |
| `run_late` | temporal mode, 1 attempt, `timeout` only | **violation**: a late attempt leaves the terminal status |
| `accounts` | sessions: 2 users (1 serial), 2 requests, 3 sessions; provisioning: 2 organisations, 2 roles, 2 requests; admission: 2 roles; decisions: 2 approvals, 2 users, 2 requests | rotated sessions are revoked, rotations are bounded by open requests, serial users' sessions implement `SessionLine`; the log tells accounts and memberships, but for what is not logged or was overtaken; calls are admitted on facts that held since they began; a finding is accepted exactly when something accepted it, and an approval records its last decision |
| `sessions_race` | 1 user, 2 requests | **violation**: one token rotated twice |
| `mfa` | 2 roles | **violation**: a call whose token has the `mfa` claim is refused for want of it |
| `evidence` | 2 uploads of the run (1 infected), 2 exports, scanner on | orphaned objects stay; nothing infected is downloaded; packages account for their rows |
| `evidence_quarantine` | 2 uploads (1 of the run, infected), 1 export | **violation**: a quarantined upload leaves inside a package |
| `run_export` | temporal mode, 1 control, 2 attempts, 1 mark attempt, 1 rename; all faults, all but `lostack` | the package of a completed run is a snapshot: its report, report rows, findings and tasks are those of the moment it is committed |
| `tenant` | 2 organisations; a user of each, a refresh or logout and an activity; 2 connections, which are symmetric | nothing changed under another organisation's tenant; changes with their log entries, and none of the denied; who is refused and which tenants stay in the pool, and why; sessions implement `ConnectionPool` however they end |
| `tenant_commit` | 2 users of 2 organisations, 2 connections | **violation**: after its commit a request goes on without its tenant |

Why the bounds are enough. A fork of the log needs two writers that overlap; the
third one makes the bound on the width more than a pair, and five ids leave
room for entries before and after a fork and for ids lost to rollbacks. A
counter is wrong when a check comes late to it: two checks, one of which
straddles the end of its window, with a limit of one so that the second request
is already beyond it; three requests and three ticks let a window end, its
counter expire and a later one begin. Two signers miss the key together; the
third value is a late or a rotated one. One run
is enough for `AuditRun`, because runs share nothing but the audit log, which
has its own module. Two controls give mixed result vectors and a task list
shorter than the catalog; two attempts are enough for a retry and a late
attempt of each stage (the code's limit is three; the proofs hold for any).
One rename distinguishes two renderings. In `accounts`, the bound on rotations
counts rotations under way, so two requests and three sessions reach it; two
requests are what it takes for one to overtake the other, in provisioning and
in decisions, and two approvals for one to be rejected where the other accepts
the finding. Calls and organisations of `Admission` do not meet, so there is one.
In `evidence` the second export may pack the package of the first; two are the
least for that. `run_export` keeps what can tear a package: a second attempt, so
that objects are overwritten, a rename, so that the bytes differ, and an attempt
that outlives its activity. How tasks are linked across controls is checked in
`run_faulty`. In `tenant` two
connections are the least on which a queue has an order and one can be had with
another's tenant, and four sessions make them scarce, so that sessions wait and
time out. An anonymous request that logs, a SCIM call, is in no run: the theorems
of `TenantContextProofs` hold for any requests. The limits of the pool's overflow
need more than five connections and change nothing of this.

Deadlock is checked in every passing run but `evidence`: `AuditRun` may stop only
in `Quiescent`, when the workflow is closed and no attempt is left, and
`TenantContext` only in `AllDone`: no session waits for ever for the connection
of another, since a session holds one at most and none while it waits. In the
components of `shared_state` and `accounts` some request can always begin, end or
fail. In `EvidenceStore` a behaviour ends when each request has done what it can,
the project is gone and with it the rows there were to download.

Fairness is stated for `AuditRun` only. The request handler that committed a run
goes on to launch it or fails; the worker or the event loop keeps running
attempts (`StageStep`, `MarkStep`); the Temporal server keeps its timers
(`Timeout`). Nothing is assumed of users, crashes, renames or deletions. An
attempt may raise at any point, so the liveness properties hold only because
the retry policy bounds the attempts; for the failure activity, which the code
retries without limit until its timeout, `MaxMarkAttempts` stands for that
timeout.

## 4. What the violations say

* **Audit log forks.** The integration test counts chain breaks and expects
  none; with two overlapping transactions of one organisation there is one.
* **A terminal status is not final.** The run page, the runbook and the demo
  script stop polling at `completed` or `failed`; an attempt that outlives its
  activity may still set the run to `running` or `completed`.
* **A refresh token may be exchanged twice** when it is presented twice at the
  same time, because `revoked_at` is not checked again under the row lock.
* **The tenant does not survive the commit.** `tenancy.py` says that the setting
  is made to survive commit and refresh within a request. The commit gives the
  connection back, and with a second connection in the pool the refresh runs on
  that one: the row just written is not visible under its tenant, and the handler
  raises after the commit took effect.
* **Quarantined uploads leave inside packages.** The roadmap says that such
  evidence remains quarantined. The export selects the run's evidence whatever
  its scan status, and the package is a row of its own, inserted as `clean`.

* **The `mfa` claim is lost.** The runbook says that sensitive endpoints are open
  to tokens with `mfa=true`. `get_current_user` builds its context from the claims
  without that one, so where the policy or the flag asks for it every call is
  refused.

Noticed while modelling, without a run of their own:

* while a run is in progress its stage stays `queued` (the in-place change
  above), although the run page shows it;
* `docs/enterprise_roadmap.md:43` says that `/scim/v2/Groups` is updated with an audit
  trail; the handler (`enterprise.py` 431-449) adds no entry, which is why group
  patches are among the exceptions of `TrailTellsDirectory`;
* `docs/enterprise_roadmap.md:139` calls approvals and waivers audited; their
  handlers (`enterprise.py` 498-605) append nothing to the audit log;
* `docs/enterprise_roadmap.md:138` says that access rules over project tags and
  criticality deny sensitive actions; `permissions.py` 67-76 has such rules, but no
  endpoint passes it a project together with an action they deny. This is why
  `Admission` has no project.

## 5. Proofs

`AuditLogProofs` proves, for any organisations, writers and bound:

* `TypeCorrect`: `Spec => []TypeOK`
* `EntriesLinkBackwards`: `Spec => []LinkedBackwards`
* `SerialLogsAreChains`: `Spec => []SerialChainUnbroken` (no property of a run: the
  abstract chain that `shared_state` checks says the same and more)
* `ForksAreBounded`: `Spec => []ForkWidthBounded`
* `ImplementsChain`: `Spec => ChainSpec`

from `AuditLogAssumption` (`SerialOrg \subseteq Org`, `MaxId \in Nat`, finitely many
writers). None of
the properties is inductive alone. `IInv` adds that the ids in use do not exceed
the sequence (`IdsDrawn`), that the latest entry of a nonempty log exists
(`HasLatest`: the model's sets need not be finite, and the query's `CHOOSE` must
find something), that an append in progress carries the hash of a committed
entry older than its own id (`PendingLinked`), and that in a serial
organisation it is alone and carries the hash of the head (`SerialPending`).
`SerialPending` is what makes the commit extend the chain; `PendingLinked` is
what remains of it when appends overlap. The bound on forks needs one more
(`ForksShared`): the entries behind one `prev_hash` and the open appends that
carry it (`Behind`) are together no more than the writers, because while there is
no such entry only writers can carry it, and once there is one, no further
query finds that predecessor. The refinement maps the head to what
the next query would find and the links to the committed rows; every step but a
commit in a serial organisation is a stutter.

`AuditRunProofs` proves, for any catalog of distinct controls, retry limit,
bounds and sets of faults (`AuditRunAssumption`):

* `TypeCorrect`, `CompletedRunsHaveReports`, `FindingsAreTheResults`,
  `EndRecordsAgree`, `ReportRowsHashObjects` and
  `ClosedWorkflowsRecordTheirOutcome`: each is `Spec => []P` of an invariant `P`
  that `run_faulty` checks;
* `WaiversOutliveTheRun`: `Spec => WaiversSurvive`;
* `EveryStepWindsDown`: `Spec => WorkflowWindsDown`, and
  `RunsTakeBoundedlyManySteps`, the bound it starts from;
* `ImplementsLifecycle`: `Spec => LifecycleSpec`. The refinement maps to the status
  column of a deployment that is `Orderly`, that is, meets neither `lostack` nor
  `timeout`, and to a run that never begins otherwise: `run_late` shows one that
  leaves its terminal status.

The inductive invariant `IInv` is the conjunction of the invariants among them
(all but `OutcomesRecorded`, with `TerminalRecordsAgree` in two parts,
`TerminalLogged` and `EndsInOrder`), of `WaiversHaveFindings` (a waiver names an
accepted finding) and of

* where an attempt may be: `WorkPlaced` and `MarkPlaced` tie the attempt that is
  running to the stage the workflow waits for, unless it outlived it;
  `AttemptCounted` bounds the attempts; `Unstarted` and `BeforePersist` say what
  cannot be there yet. Without them a commit could come from any stage;
* what an attempt relies on between its steps: `ObjectsWritten` (the objects it
  has put are what it hashes) and `ReportCarried` (once the report stage has
  returned, nobody puts objects any more, and the rows the workflow carries
  match them). `CompletedRunHasReport` is not inductive without the second: the
  commit of the results does not look at the report again;
* what depends on the faults: without `lostack`, results and report rows are
  written once (`EvidenceWhenOrderly`, `FindingsWhenOrderly`) and no attempt
  reads the terminal status it is about to write (`SeenWithoutLostAck`);
  without `timeout`, the status an attempt has read is still the row's
  (`SeenWithoutTimeout`); with neither, the status tells how far the workflow is
  (`StatusFollowsWorkflow`), which is what the refinement needs.
  `EndsInOrder` rests on one of the first two, whichever holds.

`OutcomesRecorded` needs one more fact, which is inductive beside `IInv`
(`SeenPersisted`): when the attempt that the workflow waits for to persist the
results has read `completed`, which an earlier attempt wrote in a commit that was
reported as failed, the row says so still, or is gone. The attempt then leaves the
status out of its update, and the status is right all the same.

`WorkflowWindsDown` is the safety half of termination: `StepsLeft` is a natural
number that every step of the run lowers and no user raises. It counts the
steps of the attempts in progress (`WorkLeft`, `MarkLeft`), four steps for each
attempt the workflow still has (`AttemptsLeft`: those of this stage and
`MaxAttempts` of each later one), and three for each attempt to mark the run
failed. The proof (`RankInv`, one lemma per kind of step) shows that an attempt
that raises costs the workflow as much as the next attempt gets. With
`RunsTakeBoundedlyManySteps` a run takes at most
`4 * MaxAttempts * Len(Stage) + 3 * MaxMarkAttempts + 4` steps, whatever is
retried, lost or timed out; that it takes them, `WorkflowCloses`, is what fairness
adds.

`RunExportProofs` proves, under the same assumptions, `ExportTypeCorrect`,
`PackagesHaveReports` and `PackedBytesAreHashed`, each `ExportSpec => []P` of an
invariant of `run_export`; `CommittedPackagesAreSnapshots`,
`ExportSpec => PackagesAreSnapshots`; and `PackagesAreWhole`: unless a commit was
in doubt, the package of a completed run keeps one whole set of its results, also
when the run is gone. The export writes nothing the
run reads, so `IInv` of `AuditRunProofs` holds beside it. `ExportInv` adds what
the export may rely on from a query on: a run that was read as completed is
`Settled`, past all that writes objects, report rows or results, and stays so;
hence what was read of it is still so, or the project is gone and the commit of
the package fails (`ReportSeen`, `ResultsSeen`). Without commits in doubt nothing
persists twice (`PersistedOnce`), and report rows exist only when their objects
are final (`RowsWhenOrderly`), whatever the status was. For the snapshot
`SelectionHolds` says that, as long as the run is there, the report and the report
rows an export has read of a completed run are those of the database: a repeated
commit of the results writes the same report again.

`SharedStateProofs` proves, for any number of checks and any times with `Expiry
>= Window + MaxDelay`, `LimiterTypeCorrect`, `LimitsHold` (`LimiterSpec =>
[]WindowsHoldTheLimit`) and `BurstsAreBounded`, and for any number of signers
`SignerTypeCorrect`, `BundlesSigned` and `KeysCreated`. `LimiterInv` says that
no time to live ends before the last check of the window has come (`Timely`), so
that the counter is the number of requests of its window, and that requests
admitted and checks that may still be are together within the limit
(`TicketsLeft`). Windows are fixed, so a client may be admitted twice the limit
around a change of window; `BurstsAreBounded` says that this is the worst: the
windows in which requests came are a window apart (`WindowsApart`), so that no
three of them meet one span of that length (`TwoWindowsMeet`). `SignerInv`
follows a key from the store to the bundle (`KeysHeld`), knows that a value is
new when it is generated (`KeysKnown`), and counts, once there is a key, those
that may still replace it (`KeysLeft`).

`AccountsProofs` proves, for any roles, users, organisations and requests,
`CallsJustified`, `AcceptancesCaused`, `DecisionsStand` and `TrailTells`, the
invariants that `accounts` checks of `Admission`, `FindingDecisions` and
`Directory`, and `UndisturbedCallsAreExact`: a call during which no commit
changed what speaks for it is answered as one look at all the rows would answer
it. `AdmissionInv` says that what holds now is among what was seen since the
call began, and that a call past a check has seen its fact. `DecisionInv` and
`DirectoryInv` say the same of different rows: what a request has read is still
so, unless it is marked as overtaken or its rows as gone; so a column that its
flush leaves out has the value it assigned. An accepted finding is not opened
again until the results are persisted anew, which deletes what accepted it, so a
stale read of it does no harm.

`AuthSessionsProofs` proves, for any users, number of requests and bound:

* `TypeCorrect`, `RotatedSessionsAreRevoked`, `RotationsAreBounded`,
  `SerialLinesHaveOneSession`: `Spec => []P` of the type invariant, of two
  invariants that `accounts` checks, and of one that `LinesSpec` implies;
* `ImplementsLines`: `Spec => LinesSpec`.

The assumptions are `SerialUser \subseteq User` and that finitely many requests
are open. `IInv` adds that ids are given once and in order (`IdsGiven`), that a
line belongs to one user and starts at its first id (`LinesOwned`), that a
request's token is that of a row of its user (`TokensKnown`), that the bound on
rotations holds of every session, revoked or not (`RotationsOfAll`: as stated
for revoked ones it is not inductive, since the commit of a rotation is what
revokes), and that the request of a serial user is alone and, if it refreshes,
rotates a session that is still live (`SerialAlone`). A commit moves one
rotation of its session from those under way to those made, and a new rotation
can only begin while the session is live, when none was made: that is the whole
argument for the bound. In the refinement a committed login, refresh or logout
of a serial user is the step of that name of `SessionLine` (a logout of a
session that is already revoked is a stutter), and every other step is a
stutter.

`EvidenceStoreProofs` proves, for any uploads, exports and scanner
(`EvidenceStoreAssumption`), `TypeCorrect`, `OrphansNeverLeave`,
`InfectedUploadsAreNotSent` and `PackagesAreComplete`, the invariants of
`evidence`. What is sent or packed was wanted or selected earlier, when its row
was committed, and `CommittedFlow` carries that along; since what is committed
stays so and holds what it held (`CommittedStays`), `OrphansStay` follows.
`ScansKept` says that a scanned upload carries the scanner's answer to its end,
and `PackagesHoldItems` is `PackagesAccountForRows` from the put of the archive
on.

`TenantContextProofs` proves, for any pool, organisations and requests
(`TenantContextAssumption`), `TypeCorrect`, `WritesStayInTenant`,
`LoggedWithChanges`, `RefusalsNeedOthers` and `TenantsLeft`, the invariants of
`tenant`. `IInv` adds that a handler holds a connection under its own tenant or
none (`HandlersOwn`); that a connection on which no session has set a tenant
since it was taken has the one a rollback goes back to (`SettingKept`); that
such a tenant was left by a commit of a handler or an activity of that
organisation (`KeptBy`, `LeftBy`), which makes both a refusal and a tenant in the
pool traceable to that commit, whether it changed anything or not; and what a
session may have changed at which place, and how it has ended (`WorkPlaced`,
`UnloggedRaised`, `DeniedPlaced`, `CommittedPlaced`, `DeniedChangeNothing`).
`KeptBy` is inductive because a rollback restores `kept`, the reset commits the
empty tenant, and a logout or another anonymous request commits the tenant its
connection came with, which `SettingKept` says is `kept`: only the commit of a
handler behind `get_current_user` or of an activity can introduce a tenant, and
`commits` has it. The
steps fall into four lemmas, for steps of a session on the connection it has
(`LocalSteps`), `Checkouts`, `SettingsOfTenant` and the ends of transactions
(`Endings`). `ImplementsPool` proves `Spec => PoolSpec`. The refinement maps the
unopened connections and the queue to the free ones, and the sessions that are
done to the closed ones. A checkout is a `Take`, which takes the queue's head
out of it (`HeadLeaves`: `TypeOK` says that it is there once); a commit, a reset
and a close are a `Give` (`ReleasesGive`); a timeout of the pool that ends a
session is a `Leave`; all else, a swallowed timeout included, is a stutter. That a session which is done holds
nothing is part of `SettingKept`.

All these theorems state the safety part; the proofs use no fairness.

Only model-checked: the liveness properties `WorkflowCloses` and `RunEnds`, which
are outside the proof system's reach, as is the absence of deadlock. The
components that `shared_state` and `accounts` put side by side are proved one by
one, which is the same: they share no variable.

## 6. Not modelled

* Cryptography: signatures and their verification, the timestamp token, the
  encryption of secrets, the decoding of tokens. What a caller gets is modelled
  as accepted, refused or failed.
* Rendering, YAML catalogs, configuration, feature flags, telemetry, seeds, the
  frontend, the endpoint agent and the deployment: no state the properties need.
  What the frontend relies on as a polling client is `TerminalIsFinal`.
* Rules and risk score: a pure function of one vector of results. `AuditRun` lets
  `EvaluateControls` return any vector, which covers every rule.
* Pricing and outbound integrations: upserts and reads of single rows, and calls
  to external services, that no other component depends on.
* Comments, which are inserted and never read by another operation; lists; the
  single-row handlers of projects, integrations and organisations beyond what
  `TenantContext` has of every handler.
* Secrets other than the signing key: each is read or written by one call.
  `EnvSecretStore` also looks into the process environment, which does not change.
* Rules over project tags, and `require_roles`, which looks at claims only.

Limits of what is claimed. Counts are per window of the clock: a client may have
twice the limit within 60 seconds that straddle two windows, which the
fixed windows allow. The limiter's bound holds for checks that come to Redis at
most one second late. A request of SCIM, of a decision or of a call is modelled
against others of its component and the changes named above, not against all
handlers at once; the audit log is composed with none of them, since its entries
are appended in the caller's transaction and no handler reads them to decide.
