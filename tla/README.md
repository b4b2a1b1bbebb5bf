# EHELP platform: a formal model

EHELP is a NestJS Core API over one PostgreSQL database (`backend/`), a web
portal for staff, administrators and applicants (`web/`) and a mobile
application for beneficiaries (`mobile/`). The Core may run as several
replicas; nearly everything that two requests share is in the database. Most
handlers use no transaction: they read a row with one awaited call, decide, and
write with another. The screens of the web and of the mobile application are
built from several such requests and go on while others work on the same cases.
What makes the system hard to test is therefore the order in which the calls of
different requests reach the database, what is left when a request dies or its
answer is lost, and what a screen shows of a state that has moved on. That is
what these modules model.

Paths below are relative to `backend/src/` unless they say otherwise; `mobile/`
stands for `mobile/lib/`, `web/` for `web/client/src/`.

## 1. Inventory

| component | state it keeps | operations | what is hard |
|---|---|---|---|
| **Case workflow** `domain/domain.service.ts` | `applications`, `application_answers`, `workflow_tasks` | create, edit, submit, recommend, decline, decide | no transaction, stale entities saved whole, tasks taken twice, a crash between two saves |
| **Office lifecycle** `offices/office.service.ts` | `offices` (hierarchy, archival), audit log | create, move, archive, reactivate (resumes deferred tasks), administrators, staff requests | the forest is checked unlocked; reactivation inserts tasks inside its transaction while spawns run outside it |
| **Apply gate** `getProgramApplyGate` | none of its own | reads open cases and the last claim | checked before and apart from the insert it protects |
| **Disbursement booking** `domain/office-ops.service.ts` | `disbursement_slots`, `disbursement_bookings` | create, edit, cancel a slot; list, book, rebook | row locks, seat counters, two rebookings that cross, stale slot edits |
| **Claim validation** `domain/office-ops.service.ts`, `web/app/admin/disbursement-validate` | bookings, applications, `disbursement_claims`, `liveness_sessions`, the tab's `sessionStorage` | preview, face check, validate | three separate statements; the same QR twice; a page that leaves and comes back |
| **Period windows** `domain/period-windows.ts` | `disbursement_rules.period_windows` | normalize, four gates, summary | boundaries of days; windows that default to each other; two pages that save the whole set |
| **Profile changes** `domain/office-ops.service.ts` | `profile_change_requests`, `beneficiaries` | request, attach, decide, apply | logins and enrolment write the same row from stale entities |
| **Relationships** `domain/domain.service.ts` | `relationships` and their reviews | register, attach, decide | two-stage decision, a limit counted by a trigger |
| **Programs and workflow templates** `domain/domain.service.ts` | templates, versions, rules, forms, workflow definitions | create, update, publish a journey, apply a template, default engine | a dozen statements without a transaction against the submissions that use their result |
| **RBAC** `auth/rbac.policy.ts`, `auth/rbac-access.service.ts`, `rbac/rbac.service.ts`, `web/app/admin/rbac` | grant tables | decide, set a cell, apply the template | several roles in one account; grants replaced while they are read or edited |
| **Organizations** `organizations/organization.service.ts` | organizations, invitations, administrators, devices | create, rename, transition, provision, suspend, log in | a tenant suspended while an account is made; an edit that puts an earlier status back |
| **Authentication** `auth/auth.service.ts`, `mobile/features/auth` | `user_accounts`, `liveness_sessions`, tokens | SSO exchange, password login, face check, enrolment | answers of three parties in any order, retries, a killed application |
| **Complaints** `ereport/`, `mobile/.../report_issue_screen.dart`, `web/app/admin/appeals` | `ereport_cases`, two cached tokens | submit, list, refresh | the fallback when the service cannot be asked, lost answers, expiry |
| **Assistant** `egov-ai/`, `mobile/.../chat_assistant_screen.dart` | a cached token | ask | context read in several queries, expiry, the answers given without the service |
| **Applicant engine** `web/lib/workflow` | the whole state in a tab and in `localStorage` | apply, verify, review, disburse; build, copy, publish versions | pinned versions, two tabs over one storage |
| **Planning pages** `web/app/admin/disbursement-slots`, `programs`, `rbac` | copies of what was loaded | load, edit, save | reloads that meet edits, partial failure of a list of requests |
| **Console pages** `web/app/admin/organizations`, `organization-admins`, `offices` | filters, a page of rows; one organization or office with its forms and dialogs | search, filter, page; create, edit, transition, administrators, staff requests | answers that come out of order, several forms in flight, options that were loaded once |
| **Mobile application** `mobile/features/customer` | what each screen shows | the screens of a case | screens put together from several requests, late answers, lost answers |
| **Notifications and SMS** | messages, logged SMS | notify, list, read | a badge that counts what was read meanwhile |
| **Health** `health/` | none | probes | nothing that matters here |

How they interact: the case workflow asks RBAC before each write, reads the
office before it accepts or spawns work, uses the engine that the program's
configuration made, and is asked by booking and claim validation for the status
of a case. Claim validation moves an approved case to `claimed`. Office
reactivation writes the workflow's tasks. The SSO exchange, enrolment and the
office's profile decisions write one account row. Notifications are sent after
a decision is saved; the mobile application polls them.

What each should guarantee:

- *case workflow*: no approval without an evaluation, no money without an
  approval, two different people, a declined case stays declined, submitted
  answers stay as they are, every case gets to somebody who can act on it;
- *office lifecycle*: no new work for an archived office, deferred work resumes
  exactly once, the hierarchy stays a forest;
- *apply gate*: one open case per beneficiary and program, and a pause after a
  claim;
- *booking*: the seats counted are the seats taken, no seat on a cancelled slot,
  one booking per case, every request is answered;
- *claim validation*: one payout per case; a booking, a case, a record and a
  face check that agree; what the window shows is on record;
- *windows*: the four gates, the summary and the lists agree on every day;
- *profile, relationships, organizations*: a decision stands, whatever else is
  saved afterwards; an identity is on one account;
- *authentication*: no session without a face check that passed, and a check
  that passed can be used;
- *programs and engine*: what was saved is there, and a case that is submitted
  meets an engine that can decide it;
- *applicant engine*: what is approved went through all that its version asks;
- *complaints, assistant*: a number that was shown can be found; what is said
  was so; a token that is presented is accepted;
- *screens*: once nothing is in flight, they show what the server has.

## 2. The modules

| module | what it is |
|---|---|
| `CaseLifecycle` | abstract specification: the stages of a case and who may move it |
| `CaseWorkflow` | the handlers of the case workflow and the archival that touches its tasks, await by await; the refinement to `CaseLifecycle` |
| `SeatLedger` | abstract specification: which case has a seat on which slot, and which was paid |
| `DisbursementBooking` | slots, bookings and the validation of claims, statement by statement, with row locks; the refinement to `SeatLedger` |
| `OfficeHierarchy` | the forest of offices under transactions, row locks and a trigger |
| `Organizations` | an organization, its staff accounts, their invitations and first login |
| `AccessPolicy` | the permission decision for an account with any set of roles |
| `CitizenProfile` | everybody who writes the account row of a citizen |
| `FaceLiveness` | the face check between phone, backend and provider |
| `Dependents` | links between beneficiaries |
| `ProgramSetup` | the configuration of a program against the submissions that use it |
| `ApplicantPortal` | the web portal's workflow engine, its builder and its storage |
| `Assistant` | the assistant, its context and its token |
| `Complaints` | citizens' reports, the service outside, its tokens, the page of appeals |
| `ClaimDesk` | the cash windows: the page, its face check and its endpoints |
| `BeneficiaryApp` | the screens of the mobile application |
| `SlotPlanning` | the period windows, and the two pages that plan them |
| `OfficeGrants` | the grants of offices, the template, and the page they are edited on |
| `AdminLists` | the four lists of the console that are searched, filtered and paged |
| `OrganizationPage` | the page of one organization, and the form that creates one |
| `OfficePage` | the page of one office, and the form that creates one |
| `ConsoleBase` | what those four pages share: how patient their user is, and the null |
| `ConsolePages` | `OfficeGrants`, `AdminLists`, `OrganizationPage`, `OfficePage` side by side |
| `Accounts` | `Organizations`, `OfficeHierarchy`, `AccessPolicy`, `FaceLiveness`, `ConsolePages` side by side |
| `Services` | `Dependents`, `ProgramSetup`, `ApplicantPortal`, `Assistant`, `Complaints`, `ClaimDesk` side by side |
| `Clients` | `CitizenProfile`, `BeneficiaryApp`, `SlotPlanning` side by side |
| `MCCaseWorkflow`, `MCDisbursementBooking`, `MCAccounts`, `MCServices`, `MCClients` | the values TLC gives to the constants |
| `CaseWorkflowProofs`, `DisbursementProofs`, `FaceLivenessProofs` | theorems of `CaseWorkflow` and `CaseLifecycle`, of `DisbursementBooking`, of `FaceLiveness` |
| `ClientsProofs` | theorems of `CitizenProfile`, `BeneficiaryApp`, `SlotPlanning` and of `Clients` |
| `ConsoleProofs` | theorems of the four pages and of `ConsolePages` |
| `AccountsProofs` | theorems of `Organizations`, `OfficeHierarchy`, `AccessPolicy` and of `Accounts` |
| `ServicesProofs`, `FrontOfficeProofs` | theorems of `Dependents`, `ProgramSetup` and `ApplicantPortal`; of `Complaints`, `Assistant`, `ClaimDesk` and of `Services` |

`Accounts`, `Services` and `Clients` put components together that share no row both of two write.
A behaviour belongs to one of them, named by the variable `part`; the others
stand still. A product of them would show nothing more. `ConsolePages` does the
same for four pages that one user has open one at a time (`shownPage`).

`CaseWorkflow` and `DisbursementBooking` meet in one statement, the `UPDATE` of
`applications` in claim validation: it is the action `Claim` of the one and
`ClaimCase` of the other. Booking depends on the workflow by `status = 'approved'`
only, and an approved case leaves that status by this statement alone, so
neither module needs the other's state. Where a module says that a request is
one step, another takes the request apart: `ClaimDesk` and `BeneficiaryApp` see
bookings and claims whole, `DisbursementBooking` by statement; `SlotPlanning`
sees a save of a program whole, `ProgramSetup` by statement; `FaceLiveness`
sees the enrolment as one call, `CitizenProfile` by statement; `OrganizationPage`
and `OfficePage` see each request as one transaction and the read that follows
it, `Organizations` and `OfficeHierarchy` by statement.

Most modules have a variable `mode`, chosen by `Init` and never changed. In
`"alone"` (or `"reliable"`) requests come one by one and answers arrive; in
`"overlap"` requests interleave; in `"crash"` one may die between two awaits; in
`"lossy"` answers are lost. On the console pages a `"patient"` user waits for
each answer, a `"hasty"` one does not, answers are lost to a `"lossy"` one, and a
`"shared"` page is looked at while others change what it shows. A property says in which modes it holds. Where it
does not hold in all of them, section 5 says why.

### CaseWorkflow and the code

*Rows.* `status` and `answers` are the columns of `applications` and
`application_answers` that the control depends on. `tasks[a][s]` lists the
`workflow_tasks` of case `a` and step `s`; a task keeps its `decision`
(`"pending"` while it has none) and `born`, the number of archivals before its
`created_at`, which is all `task.createdAt > office.archivedAt` can tell.
`evaluator` is what `findPriorEvaluatorUserId` will answer, `cooling` the
claimed cases whose cooldown runs. `office` is the row other connections see;
`reopening` is the reactivation's open transaction.

*Requests.* `pc[r]` names the next awaited call of request `r`, and `call[r]` is
what it holds in memory: the entity's status, the task it took, the archival
date it read. An action per awaited call:

| endpoint | actions, in order |
|---|---|
| `POST /applications` | `BeginCreate` `InsertApplication` `WriteAnswers` and, if submitted, `SpawnCheckOffice` `SpawnExisting` `SpawnInsert` `FinalSave` |
| `PATCH /applications/:id` | `BeginUpdate` `WriteAnswers` `SaveApplication` |
| `POST .../submit` | `BeginSubmit` `CheckSubmittable` `SaveApplication` `SpawnCheckOffice` `SpawnExisting` `SpawnInsert` |
| `POST .../recommend` | `BeginRecommend` `TakeTask`/`RefuseReview` `SaveApplication` `SaveTask` `SpawnCheckOffice` `SpawnInsert` |
| `POST .../decline` | `BeginDecline` `TakeTask`/`RefuseReview` `SaveApplication` `SaveTask` |
| `POST .../decide` | `BeginDecide` `TakeTask`/`RefuseReview` `CheckSeparation` `SaveApplication` `SaveTask` |
| office | `ArchiveOffice`, `ReactivateOffice` then `CommitReactivation` or `RollBackReactivation` |

`repository.save(entity)` writes each column that differs from the row, so an
entity read earlier puts its old status back: `SaveApplication` writes
`call[r].entity` whatever the row holds. `Drop` ends a request between two
awaits (a crashed replica, a lost connection). `Claim` is the one `UPDATE` by
which claim validation touches the case.

*Left out.* Permission and period checks may refuse any request before its
first write and then nothing changes. The read of the office and of the apply
gate in `createApplication` are one step (`BeginCreate`), and all answers of a
form are written in one (`WriteAnswers`). The columns that carry notes, amounts
and dates are not modelled.

*A status in `PATCH`.* `updateApplication` stores any string a client sends as
`status`, to whoever may see the case (`domain/domain.service.ts:1144`); only the
column's `CHECK` bounds it, which is all `ClientStatusesAssumption` says. No
client in the repository sends one. `BeginUpdate` with a status records
`"patched"` in the case's history, and from then on the workflow has nothing to
say of that case: `DecidedByStaff` is false of it (section 5), the other properties are of the cases in `Unpatched`, next to any number of others, and
`CaseLifecycle` calls the step `SetAside`.

### DisbursementBooking and the code

*Rows.* `slots`, `bookings` (one per case, by `UNIQUE (application_id)`),
`cases` and `claims` are tables. A claim token is the number of times the case
was booked, since each booking draws a new one. `payouts` is history: how often
the office was answered that a claim was recorded now.

| endpoint | actions, in order |
|---|---|
| `POST /admin/disbursement-slots` | `CreateSlot` |
| `PATCH /admin/disbursement-slots/:id` | `BeginEdit` `WriteEdit` |
| `POST .../cancel` | `BeginCancel` `WriteCancel` |
| `POST /disbursement-bookings` | `BeginBook` `LockSlot` `FindBooking` then `InsertBooking`, or `LockBooking` `MoveBooking` |
| `POST /admin/disbursement-claims/validate` | `BeginValidate` then `AnswerClaimed`, or `ClaimBooking` `ClaimCase` `RecordClaim` |

*Locks.* `bookDisbursementSlot` is a READ COMMITTED transaction. Which rows it
has locked follows from where it is, so `HoldsSlot` and `HoldsBooking` are
operators over `pc` and not variables. It writes nothing before it has its last
lock, so all its writes and the commit are one step (`InsertBooking`,
`MoveBooking`), and a rollback is `Answer`. The statements outside transactions
(`WriteEdit`, `WriteCancel`, `ClaimBooking`) wait for these locks and hold none
afterwards. `SELECT ... FOR UPDATE OF b` has two steps because PostgreSQL finds
the rows in the statement's snapshot and evaluates the query again on a row that
changed before it got the lock: a booking that was claimed meanwhile is
returned as claimed, one that moved no longer joins the slot of the snapshot and
is not returned at all. In both cases the code falls through to its `INSERT`,
which `UNIQUE (application_id)` refuses.

`Blocking(r)` is the request whose lock `r` waits for. Two rebookings that cross
wait for each other; PostgreSQL aborts one of the cycle (`AbortDeadlocked`).

*Left out.* Dates, permissions and the liveness provider may refuse a request
before its first write. Each case belongs to another beneficiary, so the unique
index on slot and beneficiary never refuses. The branches for bookings that are
`cancelled`, `no_show` or `completed` are not modelled, because nothing in the
repository writes these values; nor is a case `disbursed`. `serializeSlot` reads
through a second connection of the pool; the pool is not modelled.

### OfficeHierarchy and the code

`parent` and `status` are the committed columns; a transaction's own writes
become visible at `Commit`. Each operation is `Begin...`, then `LockOffice`
(`FOR UPDATE`), `Check` (`validateParent` and `archiveForActor`'s counts, read
unlocked), `Write` (the statement and the trigger `enforce_office_hierarchy`,
which locks the new parent `FOR KEY SHARE` through the foreign key) and `Commit`.
`BreakDeadlock` is PostgreSQL's detector. `Descendants` is the least set closed
under children, as `WITH RECURSIVE` computes it.

### Organizations and the code

A transaction that reads a row without locking it and saves it later is two
actions (`BeginRename` and `RenameOrganization`, `BeginUpdateAdmin` and
`SaveAdmin`, `BeginLogin` and `SaveLogin`), and the save writes the status it
read. `CreateAccount`, `AssignRole`, `Invite` are the awaits of
`createStaffAccount`; `CompleteLogin`, `ActivateInvitation`, `IssueTokens` those
of the first login. The history variables `decided` and `standing` hold what was
last decided; no action reads them.

### AccessPolicy and the code

`Grant` is the table `ROLE_GRANTS` and `PlatformDenied` the explicit denials;
permissions that the table treats alike are one class. `DecideRbac` keeps the
order of `decideRbac` (deny, grant, separation, scope) and `DecideAnyRole` asks
it for each role of the account. One action asks one question of an arbitrary
account about an arbitrary resource, so TLC covers the table.

### CitizenProfile and the code

| endpoint | actions, in order |
|---|---|
| SSO exchange | `BeginExchange` `FindAccount` then `InsertAccount` `AssignRole` or `SaveProfile` `SaveUser`, `Issue` |
| password login | `BeginLogin` `FindAccount` then `InsertAccount` `AssignRole` or, if no password is set yet, `SaveUser`, `Issue` |
| first-time eVerify | `BeginEnrol` `QueryIdentity` `SaveProfile` `SaveUser` |
| profile change | `BeginFile` `AttachDocuments` |
| its decision | `BeginDecide` `ApplyChange` `WriteVerdict` |

`repository.save` writes the columns in which the entity differs from what the
ORM reads again, so `Saved` puts old values back. Uniqueness (`UniqidTaken`,
`EmailTaken`) is the database's.

### FaceLiveness and the code

The phone's screens are `phone`; its calls are in `call` until they are answered
and in `waiting` while the screen waits. The backend works on a call by
`CreateSession`, `Find`, `GetResult`, `SaveRow`, `Touch`, `RecordLogin`, `Query`;
the provider decides by `Result`. `Lose` loses an answer and `Kill` the
application. The web view's capture page is `Capture`, `Report` its message.

### Dependents and the code

Registration is `BeginRegister` `InsertLink` `InsertDocuments`; a decision is
`BeginDecide` `CheckProof` `UpdateLink` `CommitLink` `InsertReview`. The trigger
counts committed rows in `UpdateLink`, so two decisions may both be within the
limit before either commits. `Registrable` is `findOne`, which names no status
and no order: of the rows of the pair (`Alike`) it reads one, any of them.

### ProgramSetup and the code

| endpoint | actions, in order |
|---|---|
| create a program | `BeginCreate` `SaveTemplate` `SaveVersion` `WriteRules`, then the engine: copied (below) or by default |
| update it | `BeginUpdate` `SaveTemplate` `SaveVersion` `ReadRules` `WriteRules` |
| publish an applicant journey | `BeginSync` `ReadRules` `WriteRules` `FindForm` `InsertForm` `DeleteFields` `InsertField`... |
| apply a workflow template | `BeginApply` `FindEngine` `CountCases` `DeleteEngine` `CopyEngine` `CopyStep`... |
| submit a case | `BeginSubmit` `InsertCase` `ReadFields` `SaveAnswer` `EnsureEngine` `DefineEngine` `ReadTypes` `EnsureEvaluation` `EnsureApproval` `FindStep` `InsertTask` `SetStatus` |

A setting's value is the number of the request that wrote it, which tells every
lost update. The foreign keys that refuse a `DELETE` are `FieldsFreeOfAnswers`
and `StepsFreeOfTasks`.

### ApplicantPortal and the code

The reducer's state is one record, as in the code; `Run` applies an operation of
the store to a tab's copy and `Save` writes it to `localStorage`; `Hydrate` is
the only read of the storage. `Apply` takes the error path of every rule of
`engine.ts`. The array of steps is a set, ordered by `Before` as `stepsOf` sorts
it: by position, and in the order of creation where positions are equal, which they
are after a step was removed and another one added. Comments and the seed's
demonstration applications are left out.

### Assistant and the code

A question goes through `ReadPrograms`, `ReadCases`, `ReadBookings`, `ReadSlots`
(each may see another state), then `GetAccessToken`, `Present`-ing and the
fallback. `mockApplicationStatusAnswer` and its siblings answer by topic. What
happens to the citizen's cases meanwhile is `Apply`, `Decide`, `Book`, `Claim`,
each one step here.

### Complaints and the code

`TakeSubmit` `GetAccessToken` `KeepToken` `File` `Numbering` `DrawNumber`
`Insert` are `submitComplaint`; the appeals page asks with `Load` and, after the
one-time password, `Confirm`. When the service is not configured or cannot be asked the
number is drawn here (`DrawNumber`); it may repeat, and then the unique index
refuses the insert and the report fails. `Lose` loses the connection of a screen
whose request goes on.

### ClaimDesk and the code

A tab has the page's fields, the calls it waits for and the one slot of
`sessionStorage` in which a claim waits for the face check (`pending`). `Reload`
mounts the page anew with the storage; `Back` leaves the check without a token.
`Validate` is the part of the server that checks, `WriteClaim` the part that
writes.

### BeneficiaryApp and the code

Every screen is a record with the stage of its loading; a `Load...` action is
one answered request, and `Lose...` one that fails. `moved` is history: the
views that the server has left behind since they were asked for, so that a
property can demand that a screen shows the server's state when nothing moved.
`Journeys` bounds which screens a behaviour opens. `Outcome` is what
`createApplication` makes of a form: refused for a case or a cooldown
(`"failed"`), refused because the program is `shut` (`"closed"`), or done.
`shut` holds the programs outside of their application period or without an
office that takes new work. `TurnPeriod` changes it at any moment, and no screen
is made of it: the app shows the form all the same and gets the reason with the
refusal.

### SlotPlanning and the code

Half days are the instants (`Morning`, `Evening`): enough to tell before, on and
after each boundary. `Normalize` is `normalizePeriodWindows`, the gates and
`Summary` are written from their code, and the pages save what they have loaded.

### OfficeGrants and the code

`Save` sends one request per changed cell and waits for all (`SetGrant`,
`LoseGrant`); `ApplyTemplate` replaces the grants of offices in a transaction
each (`BeginReplace` `DeleteRows` `InsertRows` `MatrixCommit`). A reload has two
requests, `ReadGrants` and `ReadDefaults`; two reloads are answered in any order
in the mode `"overlap"`, and the page shows whichever ends last.

### AdminLists and the code

The four lists have one shape: filters, an effect that sets a timer when they
change (`due`) and sends a request when it ends (`ListLoad`), and a result that
whichever answer comes last replaces (`Receive`). What differs is written out:
the `WHERE` clauses (`OrganizationMatches`, `AdminMatches`, `OfficeMatches`,
`SectionMatches`), the options of the selectors, and which of the pages keeps its
buttons when a page of rows is empty (`Paged`). The server counts (`CountRows`)
and reads (`ReadRows`) in two statements; a page of rows is the set of those that
have so many newer ones that match (`Newer`, `PageOf`), which is what ordering,
`LIMIT` and `OFFSET` come to. A text one searches for is abstracted
to whether it finds a row.

### OrganizationPage and the code

`OrgServe` is the transaction of a request, `OrgReadDetail` the `detail` it ends with:
several `SELECT`s of rows that one reads together, which is why a property says
nothing of a page whose read overlapped a change. `OrgAnswer` is `setOrganization`
with the closing of the form that sent the request; `mounted` says whether that
form is still there. A form is disabled by its own `busy` only (`OrgPageBusy`,
`EditorBusy`, `FormBusy`), so a hasty user has several requests in flight. `nr`
(the read a page shows) and `doubt` (something happened since) are history.

### OfficePage and the code

The page loads the office, then the offices it may be moved under (`options`),
and is shown when both are there or have failed. `FormParent` is what a `<select>`
does with a value it has no option for. The form and the dialogs are modal, but
Escape closes them with a request in flight. Archival and reactivation go to the
endpoint of the level that the page has loaded (`OfLevel`). The server's part is
`BureauAccepts` and `Written`, of `offices/office.service.ts`.

*Definitions named after a fault* (`GateOpenWhileCooling`, `SaveTaskUnassigned`,
...) are variants of a definition with a plausible bug. No specification uses
them: each shows that a property notices the bug when the variant is put in the
definition's place.

## 3. The runs

All runs set `CHECK_DEADLOCK FALSE`: the system may stop, because an archived
office with no case in it, a cash window whose bookings are all claimed, or a
screen nobody touches leaves nothing to do, and because the bounds end every
behaviour.

| run | instance | checks |
|---|---|---|
| `cases_isolated` | 3 cases of 2 beneficiaries, 2 requests, 1 archival, one officer who is both Evaluator and Approver; no two requests on one beneficiary's cases; all endpoints but PATCH | `TypeOK` `NoStrandedCase` `DeclineIsTerminal` and the refinement `ImplementsLifecycle` |
| `cases_crash` | 1 case, 1 request at a time that may die anywhere, PATCHes that send one of 3 statuses, 2 payloads, 1 archival | `SeparationOfDuties` `LockedStaysAsIs` |
| `cases_concurrent` | 1 case, 2 overlapping requests with stale PATCHes, with and without the status approved, the office archived and reactivated (or the reactivation rolled back) at any moment | `EndorsedBeforeDecided` `PaidOnlyIfApproved` |
| `cases_live` | 2 cases of one beneficiary, 1 request at a time to all endpoints, PATCHes that send one of 2 statuses, fairness | `OneAidAtATime` `EveryCaseDecided` |
| `bookings_overlap` | 2 slots of 1 or 2 seats, 2 cases, 2 overlapping requests to all endpoints, crashes | `TypeOK` `SeatsCount` `ClaimedIsFinal` and the refinement `ImplementsLedger` |
| `bookings_isolated` | 2 slots, 3 cases, 2 requests that never work on one slot or one case at once, crashes | `SlotStatusTrue` `PaidAsRecorded` `CancelledIsFinal` |
| `bookings_live` | 2 slots of 2 seats, 2 cases, 2 overlapping requests, fairness | `EverythingCompletes` |
| `accounts` | the parts of `MCAccounts` | `AllTypesOK` `HierarchySound` `LastDecisionHolds` `DeviceBeforeSession` `ProvisionedWhileActive` `DecisionSound` `FaceCheckSound` `PagesShowServer` `ApplyIsWhole` |
| `services` | the parts of `MCServices` | `AllTypesOK` `LinksSound` `SettingsKept` `EngineServesCases` `PinnedVersionGoverns` `ToldWasTrue` `ReportsTrackable` `TokensAccepted` `DeskSound` |
| `clients` | the parts of `MCClients` | `AllTypesOK` `ProfileSound` `EnrolmentPermanent` `ShownIsTrue` |

`race_endorse` and `face_retry` show disagreements (section 5).

*Bounds of the cases.* Two requests are enough for every race found: each is between one
stale read and one write. `MaxTasks = 1` bounds the tasks a case has when a
request begins; requests and reactivations in flight add more, so doubled tasks
do occur. One archival and one reactivation suffice for each order of the two
transactions and a spawn. Two cases of one beneficiary let the gate matter and a
third of another lets requests run at the same time. PATCHes are in the
other three: they multiply what the first run would have to explore. Their effect
on `ImplementsLifecycle`, `NoStrandedCase` and `DeclineIsTerminal` is proved
(section 4) and not model-checked. Requests are
interchangeable and no property names one, so they are a symmetry set in the
runs without liveness.

*Bounds of the bookings.* A deadlock needs two cases that change two slots with
each other, and a free seat on each to begin with: two slots of two seats, two
requests and one rebooking per case (`MaxMoves`). A slot of one seat is closed
and opened by each booking and rebooking. The third case of `bookings_isolated`
lets a slot be full while another request works on the second one. In
`bookings_live` only bookings and validations are called: they are the requests
that wait for each other. Cases, slots and requests are interchangeable.

*Bounds of `accounts`.*

| part | instance | why it is enough |
|---|---|---|
| offices | 3 offices, 2 administrators, 4 requests | two moves under each other close a cycle of two; three rows let a transaction wait for one that waits for a third |
| tenancy | 2 accounts, 2 requests in flight, 7 requests in all | create, invite, log in, suspend, edit and reactivate within one behaviour |
| access | 2 people, 2 organizations, 1 office, every set of roles, every question | a question names at most an asker, an evaluator and an assignee, who are two people or one |
| face | 2 sessions, 2 captures, 2 calls in flight, loss and kill | an old and a new session, each with a capture that may come late |
| grants | 2 offices, 1 permission of 3 roles, 4 users of 3 kinds, at most 2 at once, 5 operations, 4 by two users of one kind | apply to the first office, then the second, while another edits |
| lists | pages of 1 row, at most 2 rows; a patient user 3 inputs on any list, a hasty one 1, the others 2, on two lists | a filter set on the second page, a page emptied meanwhile, a row between the count and the read |
| tenant | 2 administrators, 4 inputs, 3 where others act | two forms of the page in flight, and a third after the first is answered |
| office | 3 offices (2 of them local), 1 officer, 3 inputs, 2 where answers are lost or others act | a parent and a child of the office at once; open a form, send it, and one thing more |

*Bounds of `services`.*

| part | instance | why it is enough |
|---|---|---|
| links | 3 people, 3 links, limit 1, 4 requests | one link at the limit, one that would exceed it, one of the reversed pair |
| setup | 2 requests in flight, 4 in all (3 where they overlap), 2 cases, 1 field, 2 templates (2 steps, none) | one request configures while another submits; an engine is replaced with and without a case on it |
| portal | 1 tab, 3 users of one role each, 1 application, 2 versions, 1 edit, 2 results, 13 step ids | the seeded four steps, a copy for each version and one step more; a published version while an application is pinned to the first |
| assistant | 2 chats, 2 programs, tokens of 3 minutes, the first 3 minutes; `mock` 1 question and 4 events of the case, with a free seat in the second program, `live` 2 questions and 1, `strict` 1 and 1 | 4 events bring a case from none to claimed; two questions meet over one token |
| reports | 3 citizens (one without a number in the profile), 2 requests in flight, 2 local numbers, tokens of 3 minutes; 1 or 2 reports and 1 or 2 loads of the page, by mode | a drawn number repeats; a load meets a submission |
| desk | 2 windows, 2 bookings, 2 face checks, 6 to 8 operations by mode | a claim from scan to record takes 5, through the camera 6 |

*Bounds of `clients`.*

| part | instance | why it is enough |
|---|---|---|
| profile | 2 citizens, one a fixture of the mock SSO, 2 accounts, 1 change; 4 requests about the first, 1 about the second, and once the second is used at most 3 about the first | the second citizen takes an account, which is all he does to the first |
| app | 2 programs, 1 slot, 2 cases, 1 to 5 taps on each of six journeys | each pair of screens that one opens from the other; the second case is the newer one that a list must prefer or pass over |
| plan | 2 slots, 2 pages, 5 days, the first 2 as today, windows from nothing, half-open and closed spans; 3 operations, 4 in `overlap`, where applications have no window at first | the lead time of 2 days lies inside the calendar; a page loads, changes and saves while the other did |

The last three runs have no temporal properties with fairness: each answer may
also never come, and the properties say what holds of what is settled.

*Fairness* (`bookings_live`). Strong fairness of `Continue(r)`: a request that is
not blocked runs on, and PostgreSQL grants a row lock to its waiters in the end
although others take it in between. Weak fairness of `AbortDeadlocked(r)`: the
server looks for deadlocks after `deadlock_timeout`. Nothing forces a request to
arrive or a claim to begin.

*Fairness* (`cases_live`). Weak fairness of `Continue(r)`: a request the server
accepted runs on, as an async function whose awaits are answered does. Strong
fairness of a review by some Evaluator and of a decision by each Approver: other
requests on the case may repeatedly be in the way, and that people get to the
cases in their queue is an assumption about the office. That *each* Approver
does is needed because one of them may have endorsed the case and is refused.

*What the less obvious properties say.* `HierarchySound`: no two offices are each
other's parent, in any interleaving, and without overlap there is no cycle at
all. `LastDecisionHolds`: neither an edit of a name nor a login puts an earlier
status back. `ProfileSound`: an identity is on one account, the one its login
tokens name, and what the office approved is neither wiped by a login nor
recorded without being applied. `FaceCheckSound`: what onboarding enrols with is
what the backend will find, and nobody is past the login without a face somebody
saw. `EngineServesCases`: a submitted case has a task on
an engine that can approve it, whatever template was copied or request died.
`PinnedVersionGoverns`: an application is where its pinned version says, and one
that is approved passed every check and every review on the answers that stand.
`ToldWasTrue`: each sentence of an answer was so at some moment between question
and answer. `ReportsTrackable`: the shown number is the citizen's own and in the
table, and where no call fails every report saved is on the list. `DeskSound`: what a window shows is on record, is released once, and the
face check is the claimant's. `LinksSound`: a pair has a second open link of one kind only where one of the kind was
rejected, the limit holds and a review says what became of its link, where requests do
not overlap; and a decided link has its documents in any case. `ShownIsTrue` has a half
for each of two clients: a screen of the mobile application that has loaded shows what
the server has unless the server moved since, of the form that no case and no cooldown
stands against it, so that what is sent from it can be refused only because the program
is shut; and, on the planning pages, while a program may be applied for its
cases may be reviewed, the summary told to the assistant agrees with the gates, and a
slot is listed if and only if it can be booked. `PagesShowServer`: on each page of the
console, when nothing is in flight, the newest read was answered last and nobody else
has moved on, the page shows what the server has, and what the page of an organization
or an office offers is what the server accepts. `torn` (a row changed between the count
and the read) and `doubt` (something was lost, or others acted) are what it excludes; what
then happens is in section 5. `ApplyIsWhole`: an office's grants go to the template in one
step or not at all.

## 4. What is proved

`CaseWorkflowProofs` proves for every value of the constants that satisfies the
three assumptions of `CaseWorkflow` (so any number of cases, people, requests,
archivals and reactivations, overlapping and dying):

- `TypeCorrect`: `Spec => []TypeOK`;
- `EndorsedBeforeDecidedHolds`: `Spec => []EndorsedBeforeDecided`;
- `PaidOnlyIfApprovedHolds`: `Spec => []PaidOnlyIfApproved`.

Clients may send any status to any case. The second and the third, like the
theorems below but `LockedStaysAsIsHolds`, are about the cases no client sent
one to.

Their argument is one inductive invariant, `Inv == TypeInv /\ Provenance`.

- `TypeOK` is not inductive because the next status of a row comes from a
  request's memory. `Shape(r)` adds what the program counter says of that
  memory: which endpoint may be at which await, and which status it carries.
- `EndorsedBeforeDecided` is not inductive because `recommend` and `decide` do
  not look at the case's status. What makes it true is that every place a later
  status can come from already knows of the endorsement. `RowKnown(a)` says it
  of the row, of the approval tasks and of the tasks an uncommitted reactivation
  holds; `CallKnown(r)` of the request: a stale `PATCH` that will write
  `"approved"` back read it from a row that was forwarded; a `decide` that took
  an approval task has a case that was forwarded; and so on. The only write that
  needs no knowledge is the one that forwards.

The proof has a lemma per kind of step (a request in flight, one that begins,
one that is dropped, the others), with a case per action, once for the types and
once for the provenance. History (`trail`) only grows, which is why whoever does
not move keeps what it knows (`OthersKnow`).

The same module proves what the handlers keep without a transaction as long
as nobody interleaves with them, again for any number of cases, people and
requests. Requests on cases of different beneficiaries do overlap. Each theorem
names the conditions it needs:

| theorem | conditions | property |
|---|---|---|
| `LockedStaysAsIsHolds` | `~SameOwner` | `Spec => LockedStaysAsIs` |
| `SeparationOfDutiesHolds` | `~SameOwner`, `MaxReopenings = 0` | `Spec => []SeparationOfDuties` |
| `OneAidAtATimeHolds` | `Serial`: those, and `~Crashes` | `Spec => []OneAidAtATime` |
| `NoStrandedCaseHolds` | `Serial` | `Spec => []NoStrandedCase` |
| `DeclineIsTerminalHolds` | `Serial` | `Spec => DeclineIsTerminal` |
| `LifecycleImplemented` | `Serial` | `Spec => ImplementsLifecycle` |
| `FourEyesHold` | `Serial` | `Spec => []Lifecycle!FourEyes` |

`~SameOwner` says that no two requests work on one beneficiary's cases at once;
section 5 has the counterexample of each property without it. No reactivation:
it may create the task a spawn in flight creates too, and the second task is
open to another Evaluator. No crash: a recommendation that dies before `spawnApprovalTask` strands
its case, and a decline that dies before its task is saved leaves a task by which
the case can be recommended later. `SeparationOfDuties` survives crashes.

Three invariants carry these theorems, each with the types and shapes above. `LockInv`: a request is alone with its case (`Isolated`),
so the office and the draft it read are what is there (`OfficeAsRead`,
`DraftAsRead`). `SeparationInv`: a case has at most one evaluation task, an
approval task only once that one is decided, and whoever is about to save a decision
is not the Evaluator on record (`RowSeparate`, `CallSeparate`). `SerialInv` has
two forms of a case: nobody works on it, and tasks, evaluator and history
follow from its status (`AtRest`); or one request does, and how far it came tells
which of them are still behind (`Midway`). From it the refinement goes by
action: the write that moves the status is a step of `CaseLifecycle`, every
other step a stutter.

`FourEyesHold` is about what the workflow is for: an approved or paid case has an
endorser and a decider who are two people, unless a client set it aside with a status. It is shown of the abstract
`CaseLifecycle` (`TwoPeople`), where it takes four lines, and the refinement
carries it to the handlers.

`DisbursementProofs` proves, for any finite number of cases and any number
of slots, requests, capacities and rebookings, with or without overlap and
crashes:

- `TypeCorrect`: `Spec => []TypeOK`;
- `SeatsCountHolds`: `Spec => []SeatsCount`;
- `ClaimedIsFinalHolds`: `Spec => ClaimedIsFinal`;
- `LedgerImplemented`: `Spec => ImplementsLedger`.

The inductive invariant is
`Inv == TypeOK /\ Requested /\ Exclusive /\ Rows /\ SeatsCount`. `SeatsCount`
alone is not inductive: that a slot has a free seat, or that a booking is still
where it was found, was decided several statements before it is used.
`Requested` says of each request what its label says of its memory (`Memory`)
and what its locks still guarantee (`Held`: a free seat while it holds the slot,
an unclaimed booking on the slot it will free while it holds the booking).
`Held` is preserved because two transactions never hold one row (`Exclusive`)
and because the statements outside transactions wait for the locks; this is the
part of the proof in which the code's `FOR UPDATE` clauses are used, and where
it breaks without one. `Rows` says that a booking has a slot and that a slot
that does not exist has no seats. Counting is one lemma, `SeatsMove`: one seat
that moves changes two counts by one.

The other two theorems rest on the lemma `Effects`: each step either gives a seat
to a case that is not claimed, or claims a booking, or changes a capacity to one
that holds the slot's bookings, or touches none of these. The first three are
`Sit`, `Pay` and `Resize` of `SeatLedger`, the last a stutter.

Where no two requests work on one slot or case at once (`~Overlap`), crashes
included, three more hold:

- `SlotStatusTrueHolds`: `Spec => []SlotStatusTrue`;
- `PaidAsRecordedHolds`: `Spec => []PaidAsRecorded`;
- `CancelledIsFinalHolds`: `Spec => CancelledIsFinal`.

Their invariant is `Inv /\ Alone`. `Alone` adds what no row lock guarantees but an
absent neighbour does: requests have no slot and no case in common (`Separate`),
an edit, a cancellation and a validation still find the rows they read
(`Sound`), and a claim is either not made, or recorded as the booking was, or
cut off by a crash in between with nobody paid twice (`SoundClaim`).

`AccountsProofs` proves of `OfficeHierarchy`, for any number of offices,
administrators and requests, from `NoneIsNoOffice`, `MaxChangesAssumption` and
`OfficeModesAssumption`:

- `OfficesTyped`: `OfficesSpec => []OfficesTypeOK`;
- `NoMutualParentsHolds`: `OfficesSpec => []NoMutualParents`, the part of
  `HierarchySound` that holds although transactions overlap;
- `HierarchySoundHolds`: `OfficesSpec => []HierarchySound`.

The trigger looks at the hierarchy when the row is written, others see the row
after the commit, so `NoMutualParents` alone is not inductive. `Seen(a)` says
that the trigger's verdict still holds when `a` commits: the foreign key's share
of the new parent keeps every other move of that parent waiting. It is preserved
because of `Locked` (a locked office is shared by its locker only), `Request`
(what a request under way knows, and that it holds its office's lock), `Fresh`
(two creations never have one id) and `OfficeRows` (an office that does not exist
has no parent). Longer cycles are not excluded by these locks: `NoCycle` is false.

Without overlap there are none (`Undisturbed`). `Acyclic` says it of sets, that
none has all its parents in itself, and `Descendants` is the least closed set;
so no induction along the tree is needed: of a cycle that a new parent would
close, the offices neither moved nor below the moved one would be a cycle that
was there before (`NewParentKeepsForest`).

Of `Organizations` it proves, for any users, requests and bounds that satisfy
`Assumptions`, all three modes in one theorem each: `OrganizationsTyped`,
`DecisionsStand` (`LastDecisionHolds`), `DeviceBeforeSessionHolds` and
`ProvisionedWhileActiveHolds`. `TenancyInv` has two layers, as the code has two
kinds of knowledge. `Held(r)` is true in every interleaving, because an account
is never deleted. `HeldAlone(r)` is what a request that runs alone read and may
still rely on, and `Reached(u)` says why an administrator with a session has
a device: his account is invited, or has accepted, or its creation is not yet done.
That last part fails when a request may die, and `DeviceBeforeSession` claims it
of the mode `"alone"` only.

Of `AccessPolicy` it proves `DecisionSoundHolds`, `PolicySpec => []DecisionSound`,
for any people, organizations and offices: the lemmas say what the grant table
gives for each class of permissions (`GrantedInOffice`, `GrantedInOrg`) and what
therefore follows from an answer, whatever roles an account combines
(`AnswerSound`).

`ClientsProofs` proves of `CitizenProfile`, for any number of citizens, accounts, changes
and requests that satisfy `Assumptions`, `ProfilesTyped`, `ProfileSoundHolds`
(`ProfileSound`) and `EnrolmentIsPermanent` (`EnrolmentPermanent`). The layers are
the same: `Held`, `OneAccount` (the unique index) and `Recorded` hold in every
interleaving; `Apart`, `Sound`, `Concluded` and `HeldAlone` while requests about
one citizen do not overlap, those about others may. `Extends` is the heart of it: the
entity a request will save takes back nothing that the row has, which is
what `save` of a stale entity breaks.

Of `SlotPlanning` it proves `GatesAgreeHolds`, for any slots, pages, windows and calendar
that satisfy `Plan!Assumptions`. Two gates, the assistant's summary and two lists of
slots read the same six instants in different ways. They agree because reviews start
with the applications, and `Paired` says so of every copy there is: the row,
the page's form, a save or a load under way. It is true of them all because the server's
`Normalize` and the page's form both establish it, and an answer that comes late
carries what one of them made.

Of `BeneficiaryApp` it proves `ScreensTrueHolds` (`App!Spec => []App!ScreensTrue`) and
`AppTypeCorrect`, for any number of cases, programs and slots, any journeys and any
number of taps, losses included. A screen is put together from several answers, and
`AppInv` says of each of them, from the moment it arrives, that it is what the server
would answer still, unless the server has moved since the view was asked for
(`Tracks(view)`): the gate and the case that a program's screen goes by
(`ProgOK`) and how what was sent from it ended (`PostOK`), the approved cases of a QR under way (`QrOK`), the bookings and the
open slots (`SchedOK`), the cards (`HomeOK`), and the polls that are not yet answered
(`DetailOK`). `LeftAlone(view)` is what a step owes the screens it does not touch; a `TurnPeriod`
owes them everything, because none is made of `shut` (`ShutKept`).
That the two answers of a program's screen then add up to the server's decision is
`ViewTrue`: the foremost case of those that go on is pending if any of them is, and
there is one exactly if the gate says so. It rests on `FirstCase`, that the order of
`listMyApplications` has a first element in every set of cases, proved without
induction from the least rank and the greatest id in it.

`ClientsTyped` (`AllTypesOK`) and `ShownIsTrueHolds` (`ShownIsTrue`) follow for
`ClientsSpec`, the specification that the run `clients` checks.

`ServicesProofs` proves of `Dependents`, for any number of people, kinds, requests and any
finite set of link ids, from `LinksAssumption`, `BoundsAssumption`,
`ModesAssumption` and `NoneIsNoLink`:

- `TypeCorrect`: `Spec => []TypeOK`;
- `LinksSoundHolds`: `Spec => []LinksSound`.

`Documented` (a decided link has its documents) holds in every interleaving,
because the documents that `CheckProof` saw are never taken away: `Request(r)`.
The rest holds while requests do not overlap, dying or not: `Sequential` says
what a request that runs alone knows (`AloneKnows`: the row to insert is still `Registrable`, the
link still awaits its decision, the principal is below the limit), and one more
approved link adds at most one to a principal's count (`FS_AddElement`).

Of `ProgramSetup` it proves, for any number of cases, fields, templates and
requests that satisfy `Setup!Assumptions`:

- `SetupTypeCorrect`: `Setup!Spec => []Setup!TypeOK`;
- `SettingsKeptHolds`: `Setup!Spec => []SettingsKept`;
- `EngineServesCasesHolds`: `Setup!Spec => []EngineServesCases`.

`SetupInv` has the two layers again. `Referenced` (no task on a step that is gone,
no answer to a field that is gone) holds in every interleaving, by the foreign
keys. Where requests do not overlap, `SettingsRead(r)` says that what a request
will save was read from what is there, and `EngineKnown(r)` that the engine it
completes is the version's, which steps it has found or inserted, and that no
case is on an engine that is about to be deleted: `CountCases` saw none and
nobody has submitted since.

Of `ApplicantPortal` it proves `PortalHolds` (`Portal!Spec => []PortalInv`) and
`PortalTypeCorrect`, for any number of tabs, users, applications, versions and
steps. The tabs do not agree with each other or with the storage, and a stale one
may be saved over a newer one. So the invariant says nothing that relates two of
them: each of the states held is `Sound` by itself, and every action takes a sound
state to a sound one. `Sound` has a part about the builder, `Numbered` (ids
are drawn in order), and `AppSound` about each application:
at which kind of step it is, that the steps before it are passed (`Placed`,
`Past`), that every check was passed once (`PassedOnce`) or approved there
(`ApprovedAt`), and that the checks of a round were given on the answers that still
stand (`CheckedAsAnswered`). Its steps cannot change under it, because its version
was published (`Frozen`, `Kept`), and only drafts and templates are edited; a copy of
them takes ids that nobody has (`CopiedSound`).

`FrontOfficeProofs` is about what citizens meet with, for any number of citizens,
requests, chats, windows and bookings.

- *Reports* (`ReportTypeCorrect`, `ReportsTrackableHolds`). `Justified` says where
  the number of a report under way comes from: the service has it for that
  citizen, or it was drawn because the service is not to be asked or could not
  be. That number reaches the row, the answer and the screen unchanged.
- *Tokens* (`TokensAcceptedHolds`, of both services and of `ServicesSpec`). A
  cached token is trusted up to a minute before its end, and a message takes a
  minute at most, so from `Fresh` to `Present` a token has to outlive the message
  that carries it: `AskFits` and `TokenFits` say so from the moment it was read,
  or issued, on. The margin is where the proof breaks with `FreshToTheEnd`.
- *Answers* (`AiTypeCorrect`, `ToldWasTrueHolds`). `Knows` says of each thing a
  question has read that it was so in one of the states `seen` since the question
  was asked, and the answer is put together from these. That the first case of a
  list exists rests on the least element of a set of positions (`Least`, from the
  well-foundedness of the naturals).
- *Cash windows* (`DeskTypeCorrect`, `DeskSoundHolds`). `DeskInv` has one layer for
  every mode, `RecordInv` (claims have a passed check, a check is held by one
  place, unused ones are pending), one where nobody leaves a check backwards
  (`TokenOfPending`: the token on a page is of the claim pending in its tab), and
  one where requests do not overlap (`Unreleased`: a booking that a request found
  booked still is).

`ServicesSound` puts them together, `ServicesSpec => [](LinksSound /\ ...)`; with
`PinnedVersionHolds` (`PinnedVersionGoverns`) and `ServicesTyped` (`AllTypesOK`) every
invariant of the run `services` is a theorem of `ServicesSpec`.

`FaceLivenessProofs` proves `TypeCorrect` and `FaceCheckSoundHolds`, for any
number of sessions, calls and captures. `PresenceBeforeSession` needs little
more than that what a session has become is never taken back (`Grow`).
`OutcomeUsable` needs that the phone's outcome and the backend's row agree while
up to three parties answer each other late: `OneHolder` says that one call at
a time makes, binds or verifies a session while it is on the screen, and `Settled`
that a row which passed with a capture stays so; the calls that come later
(`UsedAlone`) use the row and do not change it.

`ConsoleProofs` is about the four pages of the console, for any number of rows,
offices, permissions, people and requests and any size of a page.

- `WholeApply` (`MatrixSpec => ApplyIsWhole`), for any number of users who save
  and apply at once. The invariant `PagesOK` says of a transaction that replaces
  grants what it has locked, deleted and copied so far, so that its commit writes
  the template's rows less those another apply deletes.
- `MatrixShowsServer`: with one page open, what it shows follows the server
  (`Follows`): a reload under way holds what the server has (`Fresh`), a save has
  set every cell but those it still has to (`SetSoFar`), and a page at rest shows
  all of it.
- `ListShowsServer`. `Told` says that what a request was told is true as long as no
  row changed, `LatestAsks` that the latest request asks for what the filters
  are, `LatestShown` that its answer is what is shown. The rest is arithmetic over
  sets: a page within the total is not empty, because ranks below a cardinality
  are all taken. That is proved without induction, from the least element of the
  ranks nobody has, and the pigeonhole principle.
- `OrgShowsServer`, `BureauShowsServer`. Reads are numbered (`nr`), and the newest
  one shows the server unless something has happened since (`OrgLatest`). An office
  page needs more, because its form offers parents: `BureauForest` (no office is
  below itself, preserved as in `OfficeHierarchy`) and `CalmInv` (what is under way
  in each state of the page, and that the options are those the server accepts).

`PagesTyped` and `PagesShow` (`ConsoleSpec => []PagesShowServer`) follow for the
composition. `AccountsProofs` does the same one level up: `AccountsTyped`,
`FaceCheckSoundHolds` and `PagesSound` are theorems of `AccountsSpec`, the
specification that the run `accounts` checks. A step of a composition is a step of one part and a stutter
of the others, so each behaviour of the whole is one of every part
(`PartsBehave`), and a theorem of a part holds of the whole.

*What the attempts at proofs corrected.* Three definitions were wrong beyond the
bounds of the runs, and the model was changed. In `ClaimDesk` a window could be
reloaded, or left backwards, while another one's request was under way although
requests were not to overlap, and a longer behaviour than the run's then released
a claim twice. `ApplyIsWhole` took grants for missing that a second apply
had deleted since the first one copied them, which takes three users to see. And
on the page of an office the loss of the request for the parents
(`BureauLose`) forgot that an earlier answer was lost. In `BeneficiaryApp` the
assumptions left open whether the null is one of the records it stands beside; now they
do not.

*Only model-checked*, and why. Liveness (`EveryCaseDecided`, `EverythingCompletes`)
and anything with fairness is beyond the prover, and the two runs of section 5 end in a
counterexample. Every invariant and every action property of the passing runs is
a theorem. The properties that need requests not to overlap are proved under that
condition, which the theorems state; without it they are false, and section 5 says
how.

## 5. Where the code and what is said about it differ

Two runs each end in a counterexample:

| run | promise | what happens |
|---|---|---|
| `race_endorse` | the Approver "cannot be the same person who endorsed" (`README.md:101`) | two Evaluators recommend one task, only the last is remembered, the first approves |
| `face_retry` | "stays on the verify step; applicant retries" (`web/lib/workflow/engine.ts:446`) | `verifyResultFor` takes the first result of a step (`engine.ts:86`) and `verify` appends, so a check that is passed after a failed one is never looked at |

The others are seen when the named property is put into a cfg of a passing run
or a constant of it is changed:

| property | change | what happens |
|---|---|---|
| `DecidedByStaff` | added to `cases_live` | a `PATCH` of a draft carries the status approved; `updateApplication` stores it (`domain/domain.service.ts:1145`) and nobody decided ("Every application moves through a **configurable workflow** — evaluate → endorse → approve → disburse", `README.md:84`) |
| `OneAidAtATime` | `cases_live`, two `Requests`, `SameOwner = TRUE` | two creations pass the gate before either inserts ("Blocks while another case is in progress", `domain/domain.service.ts:2454`) |
| `DeclineIsTerminal` | `cases_isolated`, `SameOwner = TRUE` | a recommendation in flight revives the case ("terminal decline — no Approver step", `domain/domain.controller.ts:184`) |
| `NoStrandedCase` | `cases_isolated`, `MaxReopenings = 1` | a submission saved during the reactivation gets a task from neither ("idempotently creates the missing task", office specification, line 100) |
| `LockedStaysAsIs` | `cases_crash`, two `Requests`, `SameOwner = TRUE` | an edit that read the draft writes after the submission ("Submitted applications are locked", `domain/domain.service.ts:1132`) |
| `SeparationOfDuties` | `cases_crash`, `MaxReopenings = 1` | a spawn in flight and the reactivation both create the task; one Evaluator endorses the one and another declines the other, so the first may approve |
| `SlotStatusTrue` | `bookings_isolated`, `Overlap = TRUE` | a booking commits between the cancellation's read and its write ("Cannot cancel a slot that already has bookings", `domain/office-ops.service.ts:1268`) |
| `CancelledIsFinal` | `bookings_isolated`, `Overlap = TRUE` | an edit that read the slot before it was cancelled opens it again ("Cancelled slots cannot be edited", `domain/office-ops.service.ts:1139`) |
| `PaidAsRecorded` | `bookings_isolated`, `Overlap = TRUE` | two validations of one QR are both told to pay ("Claim tokens are single-use", `README.md:219`); or the record is written from a booking that was moved since it was read |
| `AnsweredMeansRecorded` | added to `bookings_overlap` | "already claimed and recorded as completed" (`domain/office-ops.service.ts:1832`) is answered from the booking when no record exists, and after a crash none ever will |
| `NoCycle` | added to `accounts`, `Offices = {x1, x2, x3, x4}`, `OfficeModes = {"overlap"}` | two moves of offices under each other's descendants lock different rows, and both commit ("Office hierarchy cycle is not allowed", `offices/office.service.ts:1131`) |
| `ArchivedIsFinal` | added to `accounts` | a rename that read the organization puts it back to active after its archival ("transition to terminal archived state", `openspec/changes/platform-admin-organization-management/specs/platform-admin-organization-management/spec.md:174`) |
| `MaxActivePerBeneficiary` | added to `services` | two decisions are counted by the trigger before either commits ("max 3 active per beneficiary", `backend/db/migrations/003_relationships.sql:2`) |
| `FreshCapturePerQuery` | added to `accounts` | onboarding asks again with the capture that eVerify turned down ("do not reuse a session after a failed /api/query", `auth/auth.service.ts:714`) |
| `FormFollowsJourney` | added to `services` | publishing a journey fails at the form once a case has answers, after the rules were written ("Persist the Workflow Builder applicant journey", `domain/domain.service.ts:879`) |
| `Portal!EventsAppendOnly` | in `Services`, added to `services` with `Tabs <- {t1, t2}` | a second tab saves the state it loaded over the first's ("Append-only", `web/lib/workflow/engine.ts:712`) |
| `Ai!SlotsUnderTheirName` | in `Services`, added to `services` | the free slots of the approved case are listed under the program that was asked for |
| `EveryReportListed` | added to `services` | with a view token the page lists what the service has, and never a report saved only here ("Beneficiary submissions appear here (local ledger)", `web/app/admin/appeals/page.tsx`) |
| `Desk!FaceOfClaimant` | in `Services`, added to `services` | a tab that left a face check with the back button brings its token to a newer pending claim |
| `CalendarStays` | added to `clients` as a `PROPERTY` | each reload moves the calendar to the window's first day, not only a change of the program ("Jump calendar into the program disbursement window when program changes", `web/app/admin/disbursement-slots/page.tsx:225`), and an edit saved then moves the slot |
| `SelectedOfficeShown` | added to `accounts`, `GrantModes` of `ConsolePages` with `"picks"` and 6 operations | an office picked on the template tab is not loaded ("they can view permissions", regional RBAC specification, lines 10-12) |

The office specification is
`openspec/changes/organization-admin-office-management/specs/organization-admin-office-management/spec.md`,
the regional one `openspec/changes/wire-regional-rbac-admin/specs/regional-rbac-admin/spec.md`.

More that the model shows and no document forbids:

- a decline that dies before its task is saved leaves a rejected case with a
  pending task; a recommendation that dies before `spawnApprovalTask` leaves a
  case nobody can decide until its office is archived and reactivated;
- a task is created for an office archived between the spawn's check and its
  insert;
- an edit that overlaps a booking can leave a full slot open or one with free
  seats closed (bookings check the count as well, so none is lost); queue
  numbers repeat after somebody rebooked away; a rebooking of a claimed booking
  is refused by the unique index and not by the check meant for it, which still
  tests for `completed`;
- two windows may both be told "claimed now"; after a lost answer the retry of a
  claim says that it was claimed before; `startFaceLiveness` uses the text field
  and not the claim that was previewed;
- a lost answer lets a citizen file a report twice; a token that the service
  revokes early stays cached until it expires;
- a pair whose link was rejected and registered again may register once more:
  `findOne` may read the rejected row, no `UNIQUE` forbids the insert, and two
  links are open (`domain/domain.service.ts:1755`);
- the form of a program is shown outside of its application period, and when its
  office takes no new work, and what is filled in is refused
  (`domain/domain.service.ts:1066`);
- the list of home is not refreshed after a submission, the badge is not counted
  again when messages are left by the schedule button, and the schedule shows an
  error when it is loaded again after the claim;
- `applyOne` and `applyAll` have no `finally`: a reload that fails leaves the
  permission page busy;
- the edit form of an office falls back to "No parent office" when the request
  for the other offices failed, or when the parent became active after they were
  loaded, and whatever is saved then detaches the office
  (`web/app/admin/offices/[officeId]/page.tsx:311`);
- an office whose children are all archived cannot be archived from its page,
  because `direct_child_count` counts archived children, though the server would
  accept it; reactivation is offered, and refused, while the parent is archived;
- a list shows the answer that comes last, whichever request it is for; the lists of
  organizations and of offices have no Previous button on a page that others
  have emptied;
- the editors of administrators stay open to an organization that was archived,
  and what they send is refused.

## 6. What is not modelled, and what is left to do

*Not modelled.* The connection pool, of which `bookDisbursementSlot` takes a
second connection inside its transaction (`domain/office-ops.service.ts:1607`):
as many bookings at once as the pool has connections wait for each other, and a
model of it would need the pool's size and its timeout, which are configuration.
The wording of answers and messages, the text of a search, the appearance of
screens. The health probes and the SMS log, which nothing reads. The portal
engine's comments and demonstration data. The wallet screen. The pages of
templates, the dashboards and the queue, which show a list or send one request:
what they send is modelled at the Core. The appeals page sends a
request per keystroke of its search, whose answers may arrive out of order.

*Bounds of faithfulness.* `BeneficiaryApp`: a citizen does not change the case
while a booking is on its way, and polls overlap only when answers may be lost.
`ClaimDesk`: a booking moves only while no request about it is under way, since
`DisbursementBooking` has that overlap. `ProgramSetup`: offices stay active and
nobody resubmits. `OfficeGrants`: the endpoint that writes is modelled with the
page's own check of who may edit, which the server repeats in
`requireOfficeAccess`. `AdminLists`: invitations that were revoked, which a third
option of one filter finds, are left out. `OrganizationPage`: whether the editor of
an administrator is unfolded is left out. `OfficeGrants`: properties compare the
grants that the page has loaded, not the drafts it renders from them in an effect
(`web/app/admin/rbac/page.tsx:128`), so an empty matrix for one rendering is not
seen. `ClaimDesk`: the page is busy until its last call ended; the page's one `busy`
flag is cleared by whichever call ends first (`validate-client.tsx:134` and `:175`),
so there a button may come back earlier. `ApplicantPortal`: `ReviewItems` offers every item of a review, also the
labels that `engine.ts:138` hides. `CitizenProfile`: a citizen has one e-mail address,
which is his identity, so a login under another address (`auth/auth.service.ts:341`)
is outside. `BeneficiaryApp`: the rules of eligibility, by which the server hides a program
(`domain/domain.service.ts:164` and `:806`) and which `createApplication` does
not ask again, are left out.

*Left to do.*

1. `ConnectionPool`: the deadlock on the second connection, and whether its
   timeout resolves it.
