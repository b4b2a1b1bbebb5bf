--------------------------- MODULE Organizations ---------------------------
(***************************************************************************)
(* One organization, the accounts of its staff and their first login:      *)
(* organization.service.ts (platform administrators), office.service.ts    *)
(* (administrators of an office, staff requests) and auth.service.ts       *)
(* (createStaffAccount, the login of staff).  A transaction that reads a   *)
(* row without locking it and saves it later is two actions; everything    *)
(* else a transaction does is one.  A save writes the status the entity    *)
(* was read with.  That the office of a new account is active is checked   *)
(* as in OfficeHierarchy and not repeated here.                            *)
(***************************************************************************)
EXTENDS Naturals, FiniteSets

CONSTANTS
    Users,      \* ids for the accounts of staff
    Requests,   \* requests in flight
    MaxOps,     \* bound: how many requests are made in all
    Modes,      \* "alone", "overlap" and "crash", see CanBegin and Drop
    None

VARIABLES
    org,            \* organizations.status, "absent" if there is no row
    account,        \* user_accounts of the staff, None if absent
    invitation,     \* the latest organization_invitations row of a user
    devices,        \* users with an approved row in device_registrations
    sessions,       \* users who were issued a session token
    decided,        \* history: what was last decided on the organization
    standing,       \* history: what was last decided on an account
    pc, call, ops, mode

vars == <<org, account, invitation, devices, sessions, decided, standing,
          pc, call, ops, mode>>

rows == <<org, account, invitation, devices, sessions>>
history == <<decided, standing>>

OrgStatus == {"active", "suspended", "archived"}
Status == {"pending", "active", "suspended"}
Kinds == {"org_admin", "office_admin", "officer"}

Account == [kind : Kinds, status : Status, role : BOOLEAN]

\* what is assumed of the constants; a null is neither an id nor a row
Assumptions ==
    /\ None \notin Users \cup Account
    /\ MaxOps \in Nat
    /\ Modes \subseteq {"alone", "overlap", "crash"}

\* what a request holds: its user, the kind or status it writes
Call == [user : Users \cup {None}, kind : Kinds,
         status : Status \cup OrgStatus \cup {None}]

Labels == {"idle", "saveOrg", "transition", "insert", "saveAdmin", "create",
           "role", "invite", "approve", "saveLogin", "complete", "activate",
           "issue"}

----------------------------------------------------------------------------
(* Requests *)

Free == {u \in Users : account[u] = None}

\* The fault: the status of the tenant is not looked at on every request.
AdmittedByAccount(u) == u \in sessions /\ account[u].status = "active"

\* jwt.strategy.ts: the token is good, the account and its tenant are active
Admitted(u) ==
    /\ u \in sessions
    /\ account[u].status = "active"
    /\ org = "active"

\* requireOrgAdmin
OrgAdminActs ==
    \E u \in Users \ Free : account[u].kind = "org_admin" /\ Admitted(u)

\* requireOfficeAdmin
OfficeAdminActs ==
    \E u \in Users \ Free : account[u].kind = "office_admin" /\ Admitted(u)

Busy == {r \in Requests : pc[r] # "idle"}

\* Requests overlap in the mode "overlap" only.
CanBegin == ops < MaxOps /\ (mode # "overlap" => Busy = {})

Begin(r, label, u, k, s) ==
    /\ pc[r] = "idle"
    /\ CanBegin
    /\ pc' = [pc EXCEPT ![r] = label]
    /\ call' = [call EXCEPT ![r] = [user |-> u, kind |-> k, status |-> s]]
    /\ ops' = ops + 1
    /\ UNCHANGED <<rows, history, mode>>

Goto(r, label) ==
    /\ pc' = [pc EXCEPT ![r] = label]
    /\ UNCHANGED <<call, ops, mode>>

\* the answer, or an exception that rolls back
Answer(r) == Goto(r, "idle") /\ UNCHANGED <<rows, history>>

NewAccount(u, k, s, role) ==
    /\ account' = [account EXCEPT ![u] =
                      [kind |-> k, status |-> s, role |-> role]]
    /\ standing' = [standing EXCEPT ![u] = s]

----------------------------------------------------------------------------
(* The organization *)

\* One transaction makes the organization and its first administrator.  A
\* retry with the same creation_key finds the organization it made.
CreateOrganization(u) ==
    /\ org = "absent"
    /\ u \in Free
    /\ CanBegin
    /\ org' = "active"
    /\ decided' = "active"
    /\ NewAccount(u, "org_admin", "active", TRUE)
    /\ invitation' = [invitation EXCEPT ![u] = "pending"]
    /\ ops' = ops + 1
    /\ UNCHANGED <<devices, sessions, pc, call, mode>>

\* update: an organization that is not archived is renamed
BeginRename(r) ==
    /\ org \in {"active", "suspended"}
    /\ Begin(r, "saveOrg", None, "officer", org)

\* assertOrganizationTransition
Transition(current, next) ==
    \/ current = "active" /\ next \in {"suspended", "archived"}
    \/ current = "suspended" /\ next \in {"active", "archived"}

BeginTransition(r, next) ==
    /\ Transition(org, next)
    /\ Begin(r, "transition", None, "officer", next)

\* repo.save(organization) of a rename writes the status it read.
RenameOrganization(r) ==
    /\ pc[r] = "saveOrg"
    /\ org' = call[r].status
    /\ Goto(r, "idle")
    /\ UNCHANGED <<account, invitation, devices, sessions, history>>

TransitionOrganization(r) ==
    /\ pc[r] = "transition"
    /\ org' = call[r].status
    /\ decided' = call[r].status
    /\ Goto(r, "idle")
    /\ UNCHANGED <<account, invitation, devices, sessions, standing>>

----------------------------------------------------------------------------
(* Administrators of the organization *)

\* createAdmin: `Organization must be active to add an administrator'
BeginCreateAdmin(r, u) ==
    /\ org = "active"
    /\ u \in Free
    /\ Begin(r, "insert", u, "org_admin", "active")

\* provisionOrganizationAdmin
InsertAdmin(r) ==
    LET u == call[r].user IN
    /\ pc[r] = "insert"
    /\ IF u \in Free
       THEN /\ NewAccount(u, "org_admin", "active", TRUE)
            /\ invitation' = [invitation EXCEPT ![u] = "pending"]
            /\ Goto(r, "idle")
            /\ UNCHANGED <<org, devices, sessions, decided>>
       ELSE Answer(r)

\* requireOrganizationWritable, requireOrganizationAdmin
AdminWritable(u) ==
    /\ org \in {"active", "suspended"}
    /\ account[u] # None
    /\ account[u].kind = "org_admin"

\* updateAdmin, of the contact alone
BeginUpdateAdmin(r, u) ==
    /\ AdminWritable(u)
    /\ Begin(r, "saveAdmin", u, "officer", account[u].status)

\* suspendAdmin, and updateAdmin with a status: `is already'
BeginAdminStatus(r, u, next) ==
    /\ AdminWritable(u)
    /\ next # account[u].status
    /\ Begin(r, "saveAdmin", u, "org_admin", next)

\* The fault: an update of the contact also sets the account to active.
UpdatedStatus(c) == IF c.kind = "org_admin" THEN c.status ELSE "active"

\* The fault: a suspended account gets a status that no check knows.
DisabledStatus(c) == IF c.status = "suspended" THEN "disabled" ELSE c.status

\* transitionAdminStatus, or the status updateAdmin read
SavedStatus(c) == c.status

SaveAdmin(r) ==
    LET c == call[r] IN
    /\ pc[r] = "saveAdmin"
    /\ account' = [account EXCEPT ![c.user].status = SavedStatus(c)]
    /\ standing' = IF c.kind = "org_admin"
                   THEN [standing EXCEPT ![c.user] = c.status]
                   ELSE standing
    /\ Goto(r, "idle")
    /\ UNCHANGED <<org, invitation, devices, sessions, decided>>

----------------------------------------------------------------------------
(* Staff of an office *)

\* createOfficeAdmin: one transaction
CreateOfficeAdmin(u) ==
    /\ OrgAdminActs
    /\ u \in Free
    /\ CanBegin
    /\ NewAccount(u, "office_admin", "active", TRUE)
    /\ invitation' = [invitation EXCEPT ![u] = "pending"]
    /\ ops' = ops + 1
    /\ UNCHANGED <<org, devices, sessions, decided, pc, call, mode>>

\* requestStaffAccount: an evaluator or approver awaits approval
RequestStaffAccount(u) ==
    /\ OfficeAdminActs
    /\ u \in Free
    /\ CanBegin
    /\ NewAccount(u, "officer", "pending", TRUE)
    /\ ops' = ops + 1
    /\ UNCHANGED <<org, invitation, devices, sessions, decided, pc, call, mode>>

\* approveStaffRequest reads the account as pending
BeginApprove(r, u) ==
    /\ OrgAdminActs
    /\ account[u] # None
    /\ account[u].kind = "officer"
    /\ account[u].status = "pending"
    /\ Begin(r, "approve", u, "officer", "active")

\* organization_invitations_active_uidx admits one pending invitation.
ApproveStaff(r) ==
    LET u == call[r].user IN
    /\ pc[r] = "approve"
    /\ IF invitation[u] = "pending"
       THEN Answer(r)
       ELSE /\ account' = [account EXCEPT ![u].status = "active"]
            /\ standing' = [standing EXCEPT ![u] = "active"]
            /\ invitation' = [invitation EXCEPT ![u] = "pending"]
            /\ Goto(r, "idle")
            /\ UNCHANGED <<org, devices, sessions, decided>>

\* createStaffAccount: the account, its role and its invitation are saved
\* one after the other, in no transaction; officers are not invited.
BeginStaffAccount(r, u, k) ==
    /\ OrgAdminActs
    /\ u \in Free
    /\ Begin(r, "create", u, k, "active")

CreateAccount(r) ==
    LET u == call[r].user IN
    /\ pc[r] = "create"
    /\ IF u \in Free
       THEN /\ NewAccount(u, call[r].kind, "active", FALSE)
            /\ Goto(r, "role")
            /\ UNCHANGED <<org, invitation, devices, sessions, decided>>
       ELSE Answer(r)

AssignRole(r) ==
    /\ pc[r] = "role"
    /\ account' = [account EXCEPT ![call[r].user].role = TRUE]
    /\ Goto(r, IF call[r].kind = "office_admin" THEN "invite" ELSE "idle")
    /\ UNCHANGED <<org, invitation, devices, sessions, history>>

Invite(r) ==
    /\ pc[r] = "invite"
    /\ invitation' = [invitation EXCEPT ![call[r].user] = "pending"]
    /\ Goto(r, "idle")
    /\ UNCHANGED <<org, account, devices, sessions, history>>

----------------------------------------------------------------------------
(* The login of staff *)

\* ssoExchange of an account that has a role: without one the platform check
\* takes it for a beneficiary and refuses it on the web.
BeginLogin(r, u) ==
    /\ account[u] # None
    /\ account[u].role
    /\ Begin(r, "saveLogin", u, "officer", account[u].status)

\* users.save(user) writes the status that was read; assertActiveContext
SaveLogin(r) ==
    LET c == call[r] IN
    /\ pc[r] = "saveLogin"
    /\ account' = [account EXCEPT ![c.user].status = c.status]
    /\ Goto(r, IF c.status = "active" /\ org = "active"
               THEN "complete" ELSE "idle")
    /\ UNCHANGED <<org, invitation, devices, sessions, history>>

\* assertActiveContext of completeLogin and, again, of issueTokens
ActiveContext(u) == account[u].status = "active" /\ org = "active"

CompleteLogin(r) ==
    /\ pc[r] = "complete"
    /\ Goto(r, IF ActiveContext(call[r].user) THEN "activate" ELSE "idle")
    /\ UNCHANGED <<rows, history>>

\* The fault: an invitation is not asked for a device.
ActivatedAnyhow(u, fingerprint) == TRUE

\* activatePendingOrganizationInvitation: `Device registration is required
\* before the first administrator login'
Activated(u, fingerprint) == invitation[u] = "pending" => fingerprint

ActivateInvitation(r) ==
    LET u == call[r].user IN
    /\ pc[r] = "activate"
    /\ \E fingerprint \in BOOLEAN :
          IF Activated(u, fingerprint)
          THEN /\ devices' = IF invitation[u] = "pending" /\ fingerprint
                             THEN devices \cup {u} ELSE devices
               /\ invitation' = [invitation EXCEPT ![u] =
                     IF @ = "pending" THEN "accepted" ELSE @]
               /\ Goto(r, "issue")
               /\ UNCHANGED <<org, account, sessions, history>>
          ELSE Answer(r)

IssueTokens(r) ==
    LET u == call[r].user IN
    /\ pc[r] = "issue"
    /\ sessions' = IF ActiveContext(u) THEN sessions \cup {u} ELSE sessions
    /\ Goto(r, "idle")
    /\ UNCHANGED <<org, account, invitation, devices, history>>

----------------------------------------------------------------------------
\* A replica dies between two awaits, or a transaction fails.
Drop(r) ==
    /\ mode = "crash"
    /\ pc[r] # "idle"
    /\ Answer(r)

Init ==
    /\ org = "absent"
    /\ account = [u \in Users |-> None]
    /\ invitation = [u \in Users |-> "none"]
    /\ devices = {}
    /\ sessions = {}
    /\ decided = "absent"
    /\ standing = [u \in Users |-> None]
    /\ pc = [r \in Requests |-> "idle"]
    /\ call = [r \in Requests |->
                  [user |-> None, kind |-> "officer", status |-> None]]
    /\ ops = 0
    /\ mode \in Modes

Next ==
    \/ \E u \in Users : \/ CreateOrganization(u)
                        \/ CreateOfficeAdmin(u)
                        \/ RequestStaffAccount(u)
    \/ \E r \in Requests :
        \/ BeginRename(r)
        \/ \E next \in OrgStatus : BeginTransition(r, next)
        \/ \E u \in Users :
            \/ BeginCreateAdmin(r, u)
            \/ BeginUpdateAdmin(r, u)
            \/ \E next \in {"active", "suspended"} : BeginAdminStatus(r, u, next)
            \/ BeginApprove(r, u)
            \/ \E k \in {"office_admin", "officer"} : BeginStaffAccount(r, u, k)
            \/ BeginLogin(r, u)
        \/ RenameOrganization(r)
        \/ TransitionOrganization(r)
        \/ InsertAdmin(r)
        \/ SaveAdmin(r)
        \/ ApproveStaff(r)
        \/ CreateAccount(r)
        \/ AssignRole(r)
        \/ Invite(r)
        \/ SaveLogin(r)
        \/ CompleteLogin(r)
        \/ ActivateInvitation(r)
        \/ IssueTokens(r)
        \/ Drop(r)

Spec == Init /\ [][Next]_vars

----------------------------------------------------------------------------
(* Properties *)

\* The columns, the histories and the requests hold what they can.
TypeOK ==
    /\ org \in OrgStatus \cup {"absent"}
    /\ account \in [Users -> Account \cup {None}]
    /\ invitation \in [Users -> {"none", "pending", "accepted"}]
    /\ devices \subseteq Users
    /\ sessions \subseteq Users
    /\ decided \in OrgStatus \cup {"absent"}
    /\ standing \in [Users -> Status \cup {None}]
    /\ pc \in [Requests -> Labels]
    /\ call \in [Requests -> Call]
    /\ ops \in Nat
    /\ mode \in Modes

\* What was last decided on the organization and on each account stands, as
\* long as requests do not overlap, even if some die: neither an edit of the
\* name or the contact nor a login puts an earlier status back.
LastDecisionHolds ==
    mode # "overlap" =>
        /\ org = decided
        /\ \A u \in Users \ Free : account[u].status = standing[u]

\* "transition to terminal archived state"
ArchivedIsFinal == [][org = "archived" => org' = "archived"]_vars

\* Whoever got a session has no invitation left to accept, unless requests
\* overlap; and an administrator has registered a device, unless the request
\* that made his account died before it invited him.
DeviceBeforeSession ==
    \A u \in sessions :
        /\ mode # "overlap" => invitation[u] # "pending"
        /\ mode = "alone" /\ account[u].kind # "officer" => u \in devices

\* An account is made while its organization is active, unless requests
\* overlap: a suspension stops the provisioning of staff.
ProvisionedWhileActive ==
    [][\A u \in Users : mode # "overlap" /\ account[u] = None
                        /\ account'[u] # None => org' = "active"]_vars

=============================================================================
