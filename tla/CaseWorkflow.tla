---------------------------- MODULE CaseWorkflow ----------------------------
(***************************************************************************)
(* The life of an assistance application (a "case") in the Core API:       *)
(* backend/src/domain/domain.service.ts, with the office lifecycle of      *)
(* backend/src/offices/office.service.ts that creates and defers its       *)
(* workflow tasks.                                                         *)
(*                                                                         *)
(* The handlers of domain.service.ts use no database transaction: each is  *)
(* a sequence of awaited reads and writes over two tables, applications    *)
(* and workflow_tasks.  A request is therefore a process with a program    *)
(* counter (pc) and the entity it holds in memory (call); every await that *)
(* reads mutable state or writes is a step, and the steps of two requests  *)
(* interleave, whichever API replica serves them.                          *)
(*                                                                         *)
(* Abstractions.  One organization, one office, one program: the case's    *)
(* organization and office never change, and the apply gate compares cases *)
(* of one program.  A row keeps the columns the control depends on: the    *)
(* status and the answers.  repository.save(entity) writes every column    *)
(* of the entity that differs from the row, so a stale entity overwrites   *)
(* the status with the one it read.  Permissions and period windows may    *)
(* refuse any request before its first write: such a request changes       *)
(* nothing and is no step.  The checks of POST /applications are one step, *)
(* and so is the edit of all answers of a form.                            *)
(***************************************************************************)
EXTENDS Naturals, Sequences, FiniteSets

CONSTANTS
  Applications,   \* ids the applications table may hold
  Owner,          \* the beneficiary each of those ids belongs to
  Evaluators,     \* accounts with the EVALUATOR role
  Approvers,      \* accounts with the APPROVER role; may overlap the former
  Requests,       \* requests in flight at once, over all replicas
  Endpoints,      \* the endpoints clients call in this instance
  SameOwner,      \* may two requests work on one beneficiary's cases at once?
  ClientStatuses, \* statuses a client sends in PATCH /applications/:id, as
                  \* FROM_CLIENT_STATUS translates them
  Payloads,       \* contents of form_data
  MaxTasks,       \* bound: tasks of one case and step when a request begins
  MaxArchives,    \* bound: archivals of the office
  MaxReopenings,  \* bound: reactivations of the office
  Crashes,        \* may a request die between two steps?
  None

Users == Evaluators \union Approvers

Statuses == {"draft", "submitted", "in_evaluation", "in_approval", "approved",
             "rejected", "disbursed", "claimed", "cancelled"}

\* A case that an evaluator has moved on, or a later stage of it.
BeyondEvaluation == {"in_approval", "approved", "disbursed", "claimed"}

AllEndpoints == {"create", "submit", "update", "recommend", "decline", "decide"}

Steps == {"evaluation", "approval"}

\* PATCH stores whatever status it is sent; the CHECK of migration 026 lets no
\* other value into the column.
ASSUME ClientStatusesAssumption == ClientStatuses \subseteq Statuses

ASSUME NoneIsNoValue ==
  /\ None \notin Applications \union Users \union Payloads
  /\ None \notin Statuses \union AllEndpoints

ASSUME ConfigurationTypes ==
  /\ Endpoints \subseteq AllEndpoints
  /\ MaxTasks \in Nat /\ MaxArchives \in Nat /\ MaxReopenings \in Nat
  /\ SameOwner \in BOOLEAN /\ Crashes \in BOOLEAN

VARIABLES
  status,    \* applications.status, or "none" before the row exists
  answers,   \* application_answers of the case
  tasks,     \* workflow_tasks, by case and step, in order of creation
  evaluator, \* assignee of the evaluation task completed last, per case
  cooling,   \* claimed cases whose program cooldown still runs
  office,    \* the offices row
  reopening, \* the open reactivation transaction: rows inserted, uncommitted
  pc,        \* next await of each request
  call,      \* what the request holds in memory
  trail      \* history: who did what to each case

rows   == <<status, answers, tasks, evaluator, cooling>>
tenant == <<office, reopening>>
memory == <<pc, call>>
vars   == <<rows, tenant, memory, trail>>

(***************************************************************************)
(* Rows                                                                    *)
(***************************************************************************)

\* A task keeps its decision ("pending" until completed) and, for its
\* created_at, the number of archivals of the office that came before it.
TaskRow == [outcome : {"pending", "endorse", "approve", "reject"}, born : Nat]

NewTask == [outcome |-> "pending", born |-> office.archivals]

\* archived_at, counted in archivals; 0 for an office that is not archived.
ArchivedAt == IF office.status = "archived" THEN office.archivals ELSE 0

\* created_at > archived_at
Deferred(task, since) == since # 0 /\ task.born >= since

PendingTasks(a, s) == {n \in DOMAIN tasks[a][s] : tasks[a][s][n].outcome = "pending"}

(***************************************************************************)
(* Requests in memory                                                      *)
(***************************************************************************)

Call == [ep    : AllEndpoints \union {None},
         app   : Applications \union {None},
         actor : Users \union {None},
         entity : Statuses \union {None},  \* status of the entity in memory
         since : Nat,                      \* archived_at of the office it read
         task  : Nat,                      \* the task the actor completes
         form  : Payloads \union {None}]

NoCall == [ep |-> None, app |-> None, actor |-> None, entity |-> None,
           since |-> 0, task |-> 0, form |-> None]

Labels == {"idle", "insert", "answers", "officeCheck", "takeTask", "sodCheck",
           "save", "saveTask", "spawn", "existing", "insertTask", "finalSave"}

\* A request on case a may begin: its slot is free and, in an instance without
\* overlapping requests, nobody works on the same beneficiary's cases.
Quiet(b) == \A q \in Requests : pc[q] # "idle" => Owner[call[q].app] # b

MayBegin(r, ep, a) ==
  /\ pc[r] = "idle"
  /\ ep \in Endpoints
  /\ SameOwner \/ Quiet(Owner[a])

Begin(r, label, c) ==
  /\ pc' = [pc EXCEPT ![r] = label]
  /\ call' = [call EXCEPT ![r] = c]

Goto(r, label) ==
  /\ pc' = [pc EXCEPT ![r] = label]
  /\ call' = [call EXCEPT ![r] = IF label = "idle" THEN NoCall ELSE @]

Record(a, who, act) ==
  trail' = [trail EXCEPT ![a] = @ \union {[by |-> who, act |-> act]}]

Did(a, act) == \E e \in trail[a] : e.act = act

\* A client sent the case a status: from then on no handler answers for it.
Patched(a) == Did(a, "patched")

(***************************************************************************)
(* POST /applications                                                      *)
(***************************************************************************)

InProgress == {"draft", "submitted", "in_evaluation", "in_approval", "approved"}

\* Fault: the gate forgets that an approved case is still in progress.
GateOpenWhenApproved(b) ==
  \A a \in Applications : Owner[a] = b =>
    /\ status[a] \notin InProgress \ {"approved"}
    /\ status[a] \in {"claimed", "disbursed"} => a \notin cooling

\* getProgramApplyGate: no open case of the beneficiary, and no cooldown left.
GateOpen(b) ==
  \A a \in Applications : Owner[a] = b =>
    /\ status[a] \notin InProgress
    /\ status[a] \in {"claimed", "disbursed"} => a \notin cooling

\* The checks end with the gate's read; the insert is a later await.  The id is
\* the database's choice: one no row has and no other request is about to use.
BeginCreate(r, a, form, first) ==
  /\ MayBegin(r, "create", a)
  /\ status[a] = "none" /\ \A q \in Requests : call[q].app # a
  /\ first \in {"draft", "submitted"}
  /\ office.status = "active"
  /\ GateOpen(Owner[a])
  /\ Begin(r, "insert", [NoCall EXCEPT !.ep = "create", !.app = a,
                                       !.entity = first, !.form = form])
  /\ UNCHANGED <<rows, tenant, trail>>

InsertApplication(r) ==
  /\ pc[r] = "insert"
  /\ status' = [status EXCEPT ![call[r].app] = call[r].entity]
  /\ Goto(r, "answers")
  /\ UNCHANGED <<answers, tasks, evaluator, cooling, tenant, trail>>

AfterAnswers(c) ==
  IF c.ep = "update" THEN "save"
  ELSE IF c.entity = "submitted" THEN "spawn" ELSE "idle"

\* upsertAnswers, for a new case and for an edited draft.
WriteAnswers(r) ==
  /\ pc[r] = "answers"
  /\ answers' = [answers EXCEPT ![call[r].app] = call[r].form]
  /\ Goto(r, AfterAnswers(call[r]))
  /\ UNCHANGED <<status, tasks, evaluator, cooling, tenant, trail>>

\* The status a submitted case gets after its first task was spawned.
FinalSave(r) ==
  /\ pc[r] = "finalSave"
  /\ status' = [status EXCEPT ![call[r].app] = "in_evaluation"]
  /\ Goto(r, "idle")
  /\ UNCHANGED <<answers, tasks, evaluator, cooling, tenant, trail>>

(***************************************************************************)
(* PATCH /applications/:id                                                 *)
(***************************************************************************)

\* Fault: without a status in the request the column's default is written.
BeginUpdateFromDraft(r, a, form, sent) ==
  /\ MayBegin(r, "update", a)
  /\ status[a] # "none"
  /\ form # None => status[a] = "draft"
  /\ Begin(r, IF form # None THEN "answers" ELSE "save",
           [NoCall EXCEPT !.ep = "update", !.app = a, !.form = form,
                          !.entity = IF sent = None THEN "draft" ELSE sent])
  /\ IF sent = None THEN UNCHANGED trail ELSE Record(a, None, "patched")
  /\ UNCHANGED <<rows, tenant>>

\* The read of the row decides whether the answers may be edited; the entity
\* keeps the status read, or takes the one the client sent, whatever the case's
\* status and whoever has access to it.
BeginUpdate(r, a, form, sent) ==
  /\ MayBegin(r, "update", a)
  /\ status[a] # "none"
  /\ form # None => status[a] = "draft"
  /\ Begin(r, IF form # None THEN "answers" ELSE "save",
           [NoCall EXCEPT !.ep = "update", !.app = a, !.form = form,
                          !.entity = IF sent = None THEN status[a] ELSE sent])
  /\ IF sent = None THEN UNCHANGED trail ELSE Record(a, None, "patched")
  /\ UNCHANGED <<rows, tenant>>

(***************************************************************************)
(* POST /applications/:id/submit                                           *)
(***************************************************************************)

BeginSubmit(r, a) ==
  /\ MayBegin(r, "submit", a)
  /\ status[a] # "none"
  /\ Len(tasks[a]["evaluation"]) < MaxTasks
  /\ Begin(r, "officeCheck", [NoCall EXCEPT !.ep = "submit", !.app = a,
                                            !.entity = status[a]])
  /\ UNCHANGED <<rows, tenant, trail>>

\* The office is read now; the status checked is the one read before.
CheckSubmittable(r) ==
  /\ pc[r] = "officeCheck"
  /\ IF office.status = "active" /\ call[r].entity \in {"draft", "submitted"}
     THEN Begin(r, "save", [call[r] EXCEPT !.entity = "in_evaluation"])
     ELSE Goto(r, "idle")
  /\ UNCHANGED <<rows, tenant, trail>>

(***************************************************************************)
(* POST /applications/:id/recommend, /decline and /decide                  *)
(***************************************************************************)

\* The endpoints begin by reading the office; the case's status they do not ask.
Review(ep, a, u, next) ==
  [NoCall EXCEPT !.ep = ep, !.app = a, !.actor = u, !.since = ArchivedAt, !.entity = next]

BeginRecommend(r, a, u) ==
  /\ MayBegin(r, "recommend", a)
  /\ status[a] # "none"
  /\ u \in Evaluators
  /\ Len(tasks[a]["approval"]) < MaxTasks
  /\ Begin(r, "takeTask", Review("recommend", a, u, "in_approval"))
  /\ UNCHANGED <<rows, tenant, trail>>

BeginDecline(r, a, u) ==
  /\ MayBegin(r, "decline", a)
  /\ status[a] # "none"
  /\ u \in Evaluators
  /\ Begin(r, "takeTask", Review("decline", a, u, "rejected"))
  /\ UNCHANGED <<rows, tenant, trail>>

BeginDecide(r, a, u, verdict) ==
  /\ MayBegin(r, "decide", a)
  /\ status[a] # "none"
  /\ u \in Approvers
  /\ verdict \in {"approved", "rejected"}
  /\ Begin(r, "takeTask", Review("decide", a, u, verdict))
  /\ UNCHANGED <<rows, tenant, trail>>

StepOf(ep) == IF ep = "decide" THEN "approval" ELSE "evaluation"

\* Fault: tasks that were completed are served again.
ServedAgain(c) == DOMAIN tasks[c.app][StepOf(c.ep)]

Served(c) == PendingTasks(c.app, StepOf(c.ep))

\* Fault: the archived office is not compared with the task.
ActionableDeferred(c, n) == n \in Served(c)

\* requireActionableTask serves any pending task of the step, unless it came
\* after the archival of the office as the request read it.
Actionable(c, n) ==
  n \in Served(c) /\ ~ Deferred(tasks[c.app][StepOf(c.ep)][n], c.since)

TakeTask(r) ==
  LET c == call[r] IN
  /\ pc[r] = "takeTask"
  /\ \E n \in DOMAIN tasks[c.app][StepOf(c.ep)] :
       /\ Actionable(c, n)
       /\ Begin(r, IF c.ep = "decide" THEN "sodCheck" ELSE "save",
                [c EXCEPT !.task = n, !.since = 0])
  /\ UNCHANGED <<rows, tenant, trail>>

\* The query orders nothing: the first task it returns may be a deferred one.
RefuseReview(r) ==
  LET c == call[r] IN
  /\ pc[r] = "takeTask"
  /\ Served(c) # {} => \E n \in Served(c) : ~ Actionable(c, n)
  /\ Goto(r, "idle")
  /\ UNCHANGED <<rows, tenant, trail>>

\* Fault: the permission check is not told who evaluated.
CheckSeparationBlind(r) ==
  /\ pc[r] = "sodCheck"
  /\ Goto(r, "save")
  /\ UNCHANGED <<rows, tenant, trail>>

\* findPriorEvaluatorUserId and the separation-of-duties clause of decideRbac.
CheckSeparation(r) ==
  /\ pc[r] = "sodCheck"
  /\ Goto(r, IF evaluator[call[r].app] = call[r].actor THEN "idle" ELSE "save")
  /\ UNCHANGED <<rows, tenant, trail>>

\* Fault: a submission ends with its save and spawns no task.
AfterSaveWithoutSpawn(ep) ==
  IF ep \in {"submit", "update"} THEN "idle" ELSE "saveTask"

AfterSave(ep) ==
  CASE ep = "submit" -> "spawn"
    [] ep = "update" -> "idle"
    [] OTHER         -> "saveTask"

\* What the history keeps of an officer's write.
ActOf(c) ==
  CASE c.ep = "recommend" -> "forwarded"
    [] c.ep = "decline"   -> "declined"
    [] OTHER              -> c.entity

\* repository.save(app): the status column takes the value held in memory.
SaveApplication(r) ==
  LET c == call[r] IN
  /\ pc[r] = "save"
  /\ status' = [status EXCEPT ![c.app] = c.entity]
  /\ IF c.ep \in {"recommend", "decline", "decide"}
     THEN Record(c.app, c.actor, ActOf(c))
     ELSE UNCHANGED trail
  /\ Goto(r, AfterSave(c.ep))
  /\ UNCHANGED <<answers, tasks, evaluator, cooling, tenant>>

\* Fault: the decision column gets the endpoint's word.
TaskOutcomeOfClient(c) == IF c.ep = "recommend" THEN "recommend" ELSE "reject"

TaskOutcome(c) ==
  IF c.ep = "recommend" THEN "endorse"
  ELSE IF c.entity = "approved" THEN "approve" ELSE "reject"

\* Fault: the task keeps the assignee it was created with, nobody.
SaveTaskUnassigned(r) ==
  LET c == call[r] IN
  /\ pc[r] = "saveTask"
  /\ tasks' = [tasks EXCEPT ![c.app][StepOf(c.ep)][c.task].outcome = TaskOutcome(c)]
  /\ IF c.ep = "recommend"
     THEN Record(c.app, c.actor, "endorsed") /\ Goto(r, "spawn")
     ELSE UNCHANGED trail /\ Goto(r, "idle")
  /\ UNCHANGED <<status, answers, evaluator, cooling, tenant>>

\* tasks.save(task): the row is overwritten even if it was completed meanwhile.
SaveTask(r) ==
  LET c == call[r] IN
  /\ pc[r] = "saveTask"
  /\ tasks' = [tasks EXCEPT ![c.app][StepOf(c.ep)][c.task].outcome = TaskOutcome(c)]
  /\ evaluator' = IF c.ep = "decide" THEN evaluator
                  ELSE [evaluator EXCEPT ![c.app] = c.actor]
  /\ IF c.ep = "recommend"
     THEN Record(c.app, c.actor, "endorsed") /\ Goto(r, "spawn")
     ELSE UNCHANGED trail /\ Goto(r, "idle")
  /\ UNCHANGED <<status, answers, cooling, tenant>>

(***************************************************************************)
(* spawnEvaluationTask (create, submit) and spawnApprovalTask (recommend)  *)
(***************************************************************************)

AfterSpawn(r) == IF call[r].ep = "create" THEN "finalSave" ELSE "idle"

AfterSpawnCheck(r) ==
  IF office.status # "active" THEN AfterSpawn(r)
  ELSE IF call[r].ep = "recommend" THEN "insertTask" ELSE "existing"

SpawnCheckOffice(r) ==
  /\ pc[r] = "spawn"
  /\ Goto(r, AfterSpawnCheck(r))
  /\ UNCHANGED <<rows, tenant, trail>>

\* Only the evaluation spawn looks for a pending task first.
SpawnExisting(r) ==
  /\ pc[r] = "existing"
  /\ Goto(r, IF PendingTasks(call[r].app, "evaluation") # {} THEN AfterSpawn(r)
             ELSE "insertTask")
  /\ UNCHANGED <<rows, tenant, trail>>

SpawnedStep(ep) == IF ep = "recommend" THEN "approval" ELSE "evaluation"

SpawnInsert(r) ==
  /\ pc[r] = "insertTask"
  /\ tasks' = [tasks EXCEPT ![call[r].app][SpawnedStep(call[r].ep)] =
                 Append(@, NewTask)]
  /\ Goto(r, AfterSpawn(r))
  /\ UNCHANGED <<status, answers, evaluator, cooling, tenant, trail>>

(***************************************************************************)
(* Disbursement, as far as it touches the case                             *)
(***************************************************************************)

\* Fault: a case that waits for its approval can be paid.
PayableEarly == {"in_approval", "approved", "disbursed"}

Payable == {"approved", "disbursed"}

\* The UPDATE of validateDisbursementClaim, one atomic statement.
Claim(a) ==
  /\ status[a] \in Payable
  /\ SameOwner \/ Quiet(Owner[a])
  /\ status' = [status EXCEPT ![a] = "claimed"]
  /\ cooling' = cooling \union {a}
  /\ Record(a, None, "claimed")
  /\ UNCHANGED <<answers, tasks, evaluator, tenant, memory>>

\* Time: the program's cooldown since the claim is over.
CooldownElapses(a) ==
  /\ a \in cooling
  /\ cooling' = cooling \ {a}
  /\ UNCHANGED <<status, answers, tasks, evaluator, tenant, memory, trail>>

(***************************************************************************)
(* The office: archival, and the reactivation that resumes deferred tasks  *)
(***************************************************************************)

\* One transaction that holds the office row; its readers do not lock.
ArchiveOffice ==
  /\ office.status = "active"
  /\ office.archivals < MaxArchives
  /\ office' = [office EXCEPT !.status = "archived", !.archivals = @ + 1]
  /\ UNCHANGED <<rows, reopening, memory, trail>>

\* Fault: the two steps of the CASE expression are exchanged.
ResumedSwapped ==
  {e \in Applications \X Steps :
     /\ status[e[1]] = IF e[2] = "approval" THEN "in_evaluation" ELSE "in_approval"
     /\ PendingTasks(e[1], e[2]) = {}}

Resumed ==
  {e \in Applications \X Steps :
     /\ status[e[1]] = IF e[2] = "evaluation" THEN "in_evaluation" ELSE "in_approval"
     /\ PendingTasks(e[1], e[2]) = {}}

\* resumeDeferredWorkflowTasks: INSERT ... SELECT reads the rows committed when
\* it starts.  Until the transaction commits nobody else sees the new tasks,
\* and the office is still archived for everybody.
ReactivateOffice ==
  /\ office.status = "archived" /\ ~ reopening.open
  /\ office.reopenings < MaxReopenings
  /\ \A e \in Resumed : Len(tasks[e[1]][e[2]]) < MaxTasks
  /\ reopening' = [open |-> TRUE, inserted |-> Resumed]
  /\ UNCHANGED <<rows, office, memory, trail>>

Closed == [open |-> FALSE, inserted |-> {}]

CommitReactivation ==
  /\ reopening.open
  /\ office' = [office EXCEPT !.status = "active", !.reopenings = @ + 1]
  /\ tasks' = [a \in Applications |-> [s \in Steps |->
                 IF <<a, s>> \in reopening.inserted
                 THEN Append(tasks[a][s], NewTask) ELSE tasks[a][s]]]
  /\ reopening' = Closed
  /\ UNCHANGED <<status, answers, evaluator, cooling, memory, trail>>

\* The reactivation fails after its INSERT: the office stays archived.
RollBackReactivation ==
  /\ reopening.open
  /\ reopening' = Closed
  /\ UNCHANGED <<rows, office, memory, trail>>

\* A request dies between two awaits: a crash, a lost connection, a timeout of
\* the database.  What it wrote before stays.
Drop(r) ==
  /\ Crashes /\ pc[r] # "idle"
  /\ Goto(r, "idle")
  /\ UNCHANGED <<rows, tenant, trail>>

(***************************************************************************)
(* Specification                                                           *)
(***************************************************************************)

Init ==
  /\ status = [a \in Applications |-> "none"]
  /\ answers = [a \in Applications |-> None]
  /\ tasks = [a \in Applications |-> [s \in Steps |-> <<>>]]
  /\ evaluator = [a \in Applications |-> None]
  /\ cooling = {}
  /\ office = [status |-> "active", archivals |-> 0, reopenings |-> 0]
  /\ reopening = Closed
  /\ pc = [r \in Requests |-> "idle"]
  /\ call = [r \in Requests |-> NoCall]
  /\ trail = [a \in Applications |-> {}]

\* A beneficiary's, or an officer's, new request on case a.
Beneficiary(r, a) ==
  \/ \E form \in Payloads, first \in {"draft", "submitted"} :
        BeginCreate(r, a, form, first)
  \/ \E form \in Payloads \union {None}, sent \in ClientStatuses \union {None} :
        BeginUpdate(r, a, form, sent)
  \/ BeginSubmit(r, a)

Evaluate(r, a, u) == BeginRecommend(r, a, u) \/ BeginDecline(r, a, u)

Approve(r, a, u) ==
  \E verdict \in {"approved", "rejected"} : BeginDecide(r, a, u, verdict)

\* The next await of a request in flight.
Continue(r) ==
  \/ InsertApplication(r) \/ WriteAnswers(r) \/ FinalSave(r)
  \/ CheckSubmittable(r) \/ TakeTask(r) \/ RefuseReview(r) \/ CheckSeparation(r)
  \/ SaveApplication(r) \/ SaveTask(r)
  \/ SpawnCheckOffice(r) \/ SpawnExisting(r) \/ SpawnInsert(r)

Office == ArchiveOffice \/ ReactivateOffice \/ CommitReactivation
            \/ RollBackReactivation

Next ==
  \/ \E r \in Requests : Continue(r) \/ Drop(r)
  \/ \E r \in Requests, a \in Applications : Beneficiary(r, a)
  \/ \E r \in Requests, a \in Applications, u \in Users :
        Evaluate(r, a, u) \/ Approve(r, a, u)
  \/ \E a \in Applications : Claim(a) \/ CooldownElapses(a)
  \/ Office

Spec == Init /\ [][Next]_vars

\* Every request the server accepted runs on.  That the staff get to each case
\* in their queue, whatever else they do in between, is an assumption about
\* people and not about the code.
Fairness ==
  /\ \A r \in Requests : WF_vars(Continue(r))
  /\ \A a \in Applications :
       /\ SF_vars(\E r \in Requests, u \in Evaluators : Evaluate(r, a, u))
       /\ \A u \in Approvers : SF_vars(\E r \in Requests : Approve(r, a, u))

FairSpec == Spec /\ Fairness

(***************************************************************************)
(* Properties                                                              *)
(***************************************************************************)

Acts == {"forwarded", "declined", "endorsed", "approved", "rejected", "claimed",
         "patched"}

\* Every variable has its type; in particular no write leaves a status in the
\* column that the CHECK constraint of migration 026 would refuse.
TypeOK ==
  /\ status \in [Applications -> Statuses \union {"none"}]
  /\ answers \in [Applications -> Payloads \union {None}]
  /\ tasks \in [Applications -> [Steps -> Seq(TaskRow)]]
  /\ evaluator \in [Applications -> Users \union {None}]
  /\ cooling \subseteq Applications
  /\ office \in [status : {"active", "archived"}, archivals : Nat, reopenings : Nat]
  /\ reopening \in [open : BOOLEAN, inserted : SUBSET (Applications \X Steps)]
  /\ pc \in [Requests -> Labels]
  /\ call \in [Requests -> Call]
  /\ trail \in [Applications -> SUBSET [by : Users \union {None}, act : Acts]]

\* A PATCH that carries a status puts a case into any stage, with nobody's act
\* behind it: DecidedByStaff, which is what README.md:84 and :101 promise of
\* every case, is violated by it.  The other properties are of the cases whose
\* status no client ever sent, next to any number of cases that were patched.
Unpatched == {a \in Applications : ~ Patched(a)}

\* An application is approved, or paid, by an Approver's decision (README.md:101).
DecidedByStaff ==
  \A a \in Applications :
    status[a] \in {"approved", "disbursed", "claimed"} => Did(a, "approved")

\* No case reaches the Approver, or money, without an Evaluator having forwarded
\* it: whatever overlaps, dies or is resumed, although recommend and decide
\* look at tasks only and never at the case's status, and although a PATCH
\* without a status writes back the one it read.
EndorsedBeforeDecided ==
  \A a \in Unpatched : status[a] \in BeyondEvaluation => Did(a, "forwarded")

\* A claim is completed only for a case some Approver approved.
PaidOnlyIfApproved ==
  \A a \in Unpatched : Did(a, "claimed") => Did(a, "approved")

\* Nobody both endorses and approves one case (rbac.policy.ts, README.md:101).
SeparationOfDuties ==
  \A a \in Unpatched :
    ~ \E e, d \in trail[a] : e.act = "endorsed" /\ d.act = "approved" /\ e.by = d.by

\* A beneficiary has at most one case in progress in a program, and no second
\* claim is paid while the cooldown of one runs.
OneAidAtATime ==
  /\ \A a, b \in Unpatched :
       Owner[a] = Owner[b] /\ {status[a], status[b]} \subseteq InProgress => a = b
  /\ \A a, b \in cooling \intersect Unpatched : Owner[a] = Owner[b] => a = b

\* A case that waits for the staff has a task they can act on, once no request
\* works on it; if its office is archived, the task may come with reactivation.
NoStrandedCase ==
  office.status = "active" =>
    \A a \in Unpatched, s \in Steps :
      (/\ \A q \in Requests : call[q].app # a
       /\ status[a] = IF s = "evaluation" THEN "in_evaluation" ELSE "in_approval")
      => PendingTasks(a, s) # {}

\* The answers of a case change only while it is a draft; and a task that came
\* after its office was archived stays undecided while it is, if the requests
\* on its case came one by one.
LockedStaysAsIs ==
  [][\A a \in Applications :
       /\ answers[a] # None /\ answers'[a] # answers[a] => status[a] = "draft"
       /\ \A s \in Steps : \A n \in DOMAIN tasks[a][s] :
            Deferred(tasks[a][s][n], ArchivedAt) =>
              tasks'[a][s][n].outcome = tasks[a][s][n].outcome]_vars

\* An Evaluator's decline ends the case: no Approver gets it afterwards.
DeclineIsTerminal ==
  [][\A a \in Unpatched :
       Did(a, "declined") => status'[a] \notin BeyondEvaluation \/ status'[a] = status[a]]_vars

\* Whatever reaches the Evaluators is decided in the end, or a client sends it a
\* status; what clients do to other cases does not keep it waiting.
EveryCaseDecided ==
  \A a \in Applications :
    status[a] = "in_evaluation" ~> status[a] \in {"approved", "rejected"} \/ Patched(a)

(***************************************************************************)
(* The promise this module implements.  A case filed with its creation is  *)
(* "submitted" until its first task exists, then "in_evaluation"; both are *)
(* one stage.  Who endorsed and decided is read off the history.  A case   *)
(* whose status a client sent is set aside: nothing more is said of it.    *)
(***************************************************************************)
StageOf(s) ==
  CASE s \in {"submitted", "in_evaluation"} -> "filed"
    [] s = "in_approval"                    -> "endorsed"
    [] s = "rejected"                       -> "refused"
    [] s \in {"claimed", "disbursed"}       -> "paid"
    [] OTHER                                -> s

WhoDid(a, acts) ==
  LET events == {e \in trail[a] : e.act \in acts}
  IN  IF Patched(a) \/ events = {} THEN None ELSE (CHOOSE e \in events : TRUE).by

Lifecycle == INSTANCE CaseLifecycle WITH
  Cases    <- Applications,
  stage    <- [a \in Applications |-> IF Patched(a) THEN "aside" ELSE StageOf(status[a])],
  endorser <- [a \in Applications |-> WhoDid(a, {"forwarded"})],
  decider  <- [a \in Applications |-> WhoDid(a, {"declined", "approved", "rejected"})]

\* Every step of the requests is a step of the promised life of a case, or none:
\* the stages in order, and nobody deciding what they endorsed.
ImplementsLifecycle == Lifecycle!Spec
=============================================================================
