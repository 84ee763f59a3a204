----------------------------- MODULE Directory -----------------------------
(***************************************************************************)
(* SCIM provisioning: the account of a user, which all organisations share,*)
(* and the user's membership in each organisation.  Users do not influence *)
(* each other, so one is modelled.                                         *)
(*                                                                         *)
(* A request reads the account and the membership in two queries, assigns  *)
(* to the objects it got, and commits.  The session flushes at the commit  *)
(* (autoflush is off; only a new account is flushed before), and it writes *)
(* a column only when the value assigned is not the one that was read.     *)
(* Creations and patches add an audit log entry to the transaction; a      *)
(* patch of a group adds none, and neither does a patch that raises at an  *)
(* unknown group, whose earlier assignments get_db commits all the same.   *)
(***************************************************************************)
EXTENDS Naturals, FiniteSets

CONSTANTS
    Tenant,     \* organisations
    Role,       \* values of RoleEnum
    Scim        \* SCIM requests that may be open at the same time

VARIABLES
    account,    \* the user's row: "none", "active" or "inactive"
    member,     \* per organisation: the role of the membership, or NoRole
    scim,       \* per request: what it read, and what it assigned
    told,       \* what the audit log's entries say of the account and the memberships (auxiliary)
    untold      \* what they may be wrong about (auxiliary)

rows          == <<account, member>>
directoryVars == <<rows, scim, told, untold>>

NoRole  == "no role"
Account == {"none", "active", "inactive"}
Same    == "same"

\* The columns: is_active of the account, and role of each membership.
Column == {"account"} \cup Tenant

ASSUME DirectoryAssumption == NoRole \notin Role /\ Same \notin Role /\ "account" \notin Tenant

Closed == [pc |-> "closed"]

(***************************************************************************)
(* An open request: what its queries found, and whether another request    *)
(* committed since it began (auxiliary).  What its payload assigns is      *)
(* chosen where it is written.                                             *)
(***************************************************************************)
OpenScim ==
    [pc : {"account", "inserted", "ready"}, op : {"create", "patch", "group"}, org : Tenant,
     readAccount : Account, readRole : Role \cup {NoRole}, disturbed : BOOLEAN]

DirectoryTypeOK ==
    /\ account \in Account
    /\ member \in [Tenant -> Role \cup {NoRole}]
    /\ scim \in [Scim -> {Closed} \cup OpenScim]
    /\ told \in [account : Account, member : [Tenant -> Role \cup {NoRole}]]
    /\ untold \subseteq Column

DirectoryInit ==
    /\ account = "none"
    /\ member = [o \in Tenant |-> NoRole]
    /\ scim = [r \in Scim |-> Closed]
    /\ told = [account |-> account, member |-> member]
    /\ untold = {}

-----------------------------------------------------------------------------
(* Reading                                                                 *)

ScimOpens(r, pc, op, o, readAccount, readRole) ==
    /\ scim[r] = Closed
    /\ scim' = [scim EXCEPT ![r] =
           [pc |-> pc, op |-> op, org |-> o,
            readAccount |-> readAccount, readRole |-> readRole, disturbed |-> FALSE]]
    /\ UNCHANGED <<rows, told, untold>>

ScimMoves(r, pc, readRole) ==
    /\ scim' = [scim EXCEPT ![r] =
           [pc |-> pc, op |-> scim[r].op, org |-> scim[r].org,
            readAccount |-> scim[r].readAccount, readRole |-> readRole,
            disturbed |-> scim[r].disturbed]]
    /\ UNCHANGED <<rows, told, untold>>

\* The creation looks the account up by email.
BeginCreate(r, o) == ScimOpens(r, "account", "create", o, account, NoRole)

\* The patch gets the account by id; 404 when there is none.
BeginPatch(r, o) == account # "none" /\ ScimOpens(r, "account", "patch", o, account, NoRole)

\* The patch of a group reads the memberships only, and passes over a user without one.
BeginGroup(r, o) == member[o] # NoRole /\ ScimOpens(r, "ready", "group", o, "none", member[o])

Inserts(r) ==
    scim[r].pc \in {"inserted", "ready"} /\ scim[r].op = "create" /\ scim[r].readAccount = "none"

\* The flush of a new account: it waits for another one of the same email to end.
InsertAccount(r) ==
    /\ scim[r].pc = "account" /\ scim[r].op = "create" /\ scim[r].readAccount = "none"
    /\ ~ \E s \in Scim : Inserts(s)
    /\ account = "none"
    /\ ScimMoves(r, "inserted", NoRole)

\* The membership of the organisation; a patch without one is a 404, see ScimRaises.
ReadMembership(r) ==
    /\ \/ scim[r].pc = "inserted"
       \/ scim[r].pc = "account" /\ (scim[r].op = "create" => scim[r].readAccount # "none")
    /\ member[scim[r].org] = NoRole => scim[r].op = "create"
    /\ ScimMoves(r, "ready", member[scim[r].org])

-----------------------------------------------------------------------------
(* Writing                                                                 *)

\* A column after the flush: written if what was assigned is not what was read.
Flushed(now, read, assigned) == IF assigned = Same \/ assigned = read THEN now ELSE assigned

\* The membership a creation did not find must not have come up since (uq_membership_org_user).
Unique(r) == scim[r].readRole = NoRole => member[scim[r].org] = NoRole

\* Mutant of Writes: a creation leaves the account that it found as it is.
WritesWithoutUpdate(r, active, role) ==
    LET o == scim[r].org
    IN  /\ account' = IF scim[r].op = "create" /\ scim[r].readAccount # "none" THEN account
                      ELSE Flushed(account, scim[r].readAccount, active)
        /\ member' = [member EXCEPT ![o] = Flushed(@, scim[r].readRole, role)]

\* The flush of the commit: the account, and the membership of the organisation.
Writes(r, active, role) ==
    LET o == scim[r].org
    IN  /\ account' = Flushed(account, scim[r].readAccount, active)
        /\ member' = [member EXCEPT ![o] = Flushed(@, scim[r].readRole, role)]

\* The columns that a request assigns.
Assigned(r, active, role) ==
    {c \in {"account"} : active # Same} \cup {o \in {scim[r].org} : role # Same}

\* Closes r; the others that are open have been overtaken.
Closes(r) ==
    scim' = [s \in Scim |-> IF s = r \/ scim[s] = Closed THEN Closed
                            ELSE [pc |-> scim[s].pc, op |-> scim[s].op, org |-> scim[s].org,
                                  readAccount |-> scim[s].readAccount,
                                  readRole |-> scim[s].readRole, disturbed |-> TRUE]]

\* The audit log entry of r.
Tells(r, active, role) ==
    told' = [account |-> IF active = Same THEN told.account ELSE active,
             member  |-> IF role = Same THEN told.member
                         ELSE [told.member EXCEPT ![scim[r].org] = role]]

Active == {"active", "inactive"}

\* The payloads: a creation defaults to active and client_viewer; a group is about its role.
Payloads(op) ==
    CASE op = "create" -> Active \X Role
      [] op = "patch"  -> (Active \cup {Same}) \X (Role \cup {Same})
      [] op = "group"  -> {Same} \X Role

\* With its entry in the audit log: a creation, or a patch.
CommitLogged(r) ==
    /\ scim[r].pc = "ready" /\ scim[r].op \in {"create", "patch"}
    /\ Unique(r)
    /\ \E p \in Payloads(scim[r].op) :
           /\ Writes(r, p[1], p[2])
           /\ Tells(r, p[1], p[2])
           /\ untold' = IF scim[r].disturbed
                        THEN untold \cup Assigned(r, p[1], p[2])
                        ELSE untold \ Assigned(r, p[1], p[2])
    /\ Closes(r)

\* Without: a group, or a patch that came to an unknown group after these assignments.
CommitUnlogged(r) ==
    /\ scim[r].pc = "ready" /\ scim[r].op \in {"group", "patch"}
    /\ \E p \in Payloads(scim[r].op) :
           /\ Writes(r, p[1], p[2])
           /\ untold' = untold \cup Assigned(r, p[1], p[2])
    /\ Closes(r)
    /\ UNCHANGED told

\* A 404, a unique constraint, a lost connection: the transaction is rolled back.
ScimRaises(r) ==
    /\ scim[r] # Closed
    /\ scim' = [scim EXCEPT ![r] = Closed]
    /\ UNCHANGED <<rows, told, untold>>

ScimStep(r) ==
    \/ \E o \in Tenant : BeginCreate(r, o) \/ BeginPatch(r, o) \/ BeginGroup(r, o)
    \/ InsertAccount(r) \/ ReadMembership(r)
    \/ CommitLogged(r) \/ CommitUnlogged(r) \/ ScimRaises(r)

DirectoryNext == \E r \in Scim : ScimStep(r)

DirectorySpec == DirectoryInit /\ [][DirectoryNext]_directoryVars

-----------------------------------------------------------------------------
(***************************************************************************)
(* What the log says last of the account, and of a membership, is so: a    *)
(* creation or a patch that no other commit overtook sets the record       *)
(* straight, and it stays so until a write that is not logged, or one that *)
(* was overtaken and so may have been left out.                            *)
(***************************************************************************)
TrailTellsDirectory ==
    /\ "account" \notin untold => told.account = account
    /\ \A o \in Tenant \ untold : told.member[o] = member[o]
=============================================================================
