---------------------------- MODULE AccessPolicy ----------------------------
(***************************************************************************)
(* The permission decision of rbac.policy.ts and rbac-access.service.ts:   *)
(* the table ROLE_GRANTS, decideRbac for one role and decideAnyRole for an *)
(* account with several.  A permission is a class of those the table       *)
(* treats alike; the classes keep apart what the cases' modules ask for.   *)
(***************************************************************************)
EXTENDS Naturals, FiniteSets

CONSTANTS
    Persons,    \* user ids, also of the officers of a task
    Tenants,    \* organization ids
    Branches,   \* office ids
    Nobody      \* a null id

\* what is assumed of the constants
PolicyAssumptions == Nobody \notin Persons \cup Tenants \cup Branches

VARIABLES
    roles,      \* the role assignments of the account that asks
    asked,      \* permission, account and resource asked about
    allowed     \* the answer

policyVars == <<roles, asked, allowed>>

Roles == {"PLATFORM_ADMIN", "ORG_ADMIN", "OFFICE_ADMIN", "EVALUATOR",
          "APPROVER", "BENEFICIARY"}

\* tenant: tenant.*, security_baseline.*, device.*, audit.*_platform, ...
\* office: office.*, account.approve_org_staff, rule_set.*, workflow.*, ...
\* program: program_template.publish_version; profile: profile_change.approve;
\* slot: disbursement_slot.manage; staff: office_staff.*, relationship.approve;
\* claim: disbursement.authorize; view: application.view_assigned;
\* evaluate: application.evaluate, .endorse, .flag; register: beneficiary.*;
\* approve, reject: application.approve, .reject;
\* own: every permission of BENEFICIARY and DEPENDENT
Permissions == {"tenant", "office", "program", "profile", "slot", "staff",
                "claim", "view", "evaluate", "register", "approve", "reject",
                "own"}

\* ROLE_GRANTS: the scope of a grant, "none" where there is no grant
Grant(role, p) ==
    CASE role = "PLATFORM_ADMIN" -> IF p = "tenant" THEN "platform" ELSE "none"
      [] role = "ORG_ADMIN" ->
            IF p \in {"office", "program", "profile", "slot", "view"}
            THEN "organization" ELSE "none"
      [] role = "OFFICE_ADMIN" ->
            IF p \in {"program", "staff", "profile", "slot", "claim", "view"}
            THEN "office" ELSE "none"
      [] role = "EVALUATOR" ->
            IF p = "register" THEN "office"
            ELSE IF p \in {"view", "evaluate", "reject"} THEN "assigned_task"
            ELSE "none"
      [] role = "APPROVER" ->
            IF p \in {"view", "approve", "reject", "claim"}
            THEN "assigned_task" ELSE "none"
      [] role = "BENEFICIARY" ->
            IF p = "own" THEN "own_account" ELSE "none"

\* PLATFORM_ADMIN_EXPLICIT_DENIES
PlatformDenied == {"register", "view", "evaluate", "approve", "reject",
                   "claim", "program", "office"}

Ask == [permission : Permissions, user : Persons,
        org : Tenants \cup {Nobody}, office : Branches \cup {Nobody},
        inOrg : Tenants \cup {Nobody}, inOffice : Branches \cup {Nobody},
        assigned : Persons \cup {Nobody}, evaluator : Persons \cup {Nobody},
        own : BOOLEAN]

\* The fault: the two are told apart by their role, for approvals alone.
SameRole(a) == a.permission = "approve" /\ a.evaluator = a.user

\* `Evaluator and approver must be different users'
SamePerson(a) == /\ a.permission \in {"approve", "reject"}
                 /\ a.evaluator = a.user

InOrg(a) == a.org # Nobody /\ a.org = a.inOrg

\* an omitted office is the office of the account
InOffice(a) ==
    /\ InOrg(a)
    /\ a.office # Nobody
    /\ a.inOffice \in {Nobody, a.office}

InScope(scope, a, role) ==
    CASE scope = "platform"      -> role = "PLATFORM_ADMIN"
      [] scope = "organization"  -> InOrg(a)
      [] scope = "office"        -> InOffice(a)
      [] scope = "assigned_task" -> InOffice(a) /\ a.assigned \in {Nobody, a.user}
      [] scope = "own_account"   -> a.own
      [] OTHER                   -> FALSE

DecideRbac(role, a) ==
    /\ ~(role = "PLATFORM_ADMIN" /\ a.permission \in PlatformDenied)
    /\ ~SamePerson(a)
    /\ InScope(Grant(role, a.permission), a, role)

\* any granted role may authorize the permission
DecideAnyRole(rs, a) == \E role \in rs : DecideRbac(role, a)

----------------------------------------------------------------------------
\* assertPermission loads the account and its role assignments once.
AssertPermission ==
    \E rs \in SUBSET Roles, a \in Ask :
        /\ Cardinality(rs) \in 1 .. 2
        /\ roles' = rs
        /\ asked' = a
        /\ allowed' = DecideAnyRole(rs, a)

PolicyInit ==
    /\ roles = {}
    /\ asked = Nobody
    /\ allowed = FALSE

PolicyNext == asked = Nobody /\ AssertPermission

PolicySpec == PolicyInit /\ [][PolicyNext]_policyVars

----------------------------------------------------------------------------
(* Properties *)

\* Whatever roles an account combines: who evaluated a case neither approves
\* nor rejects it; what is granted to staff is within their organization, and
\* on a task that is somebody else's nothing but what an administrator of the
\* office or of the organization may do as such.
DecisionSound ==
    allowed =>
        /\ asked.permission \in {"approve", "reject"} =>
               asked.evaluator # asked.user
        /\ asked.permission \notin {"tenant", "own"} => InOrg(asked)
        /\ asked.permission \in {"evaluate", "approve", "reject"} =>
               asked.assigned \in {Nobody, asked.user}

=============================================================================
