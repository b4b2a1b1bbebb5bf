---------------------------- MODULE ProgramSetup ----------------------------
(***************************************************************************)
(* The configuration of one program and the submissions that rely on it    *)
(* (domain.service.ts): its template and version rows, the rules column,   *)
(* the applicant's form, and the workflow engine copied from a workflow    *)
(* template or made by default.  None of these handlers opens a            *)
(* transaction: one action per awaited statement, with the unique and      *)
(* foreign keys of 004_programs_rules_workflow.sql and 005_applications.   *)
(* A setting's value is the number of the request that wrote it; a request *)
(* makes at most one engine and one set of form fields, which carry its    *)
(* number.  Offices stay active here and nobody resubmits a case.          *)
(***************************************************************************)
EXTENDS Naturals, FiniteSets

CONSTANTS
    Requests,   \* requests in flight
    Cases,      \* applications
    Keys,       \* the keys of the fields the builder sends
    Templates,  \* published workflow_templates
    TemplateSteps,    \* workflow_template_steps of each: sets of [key, type]
    MaxOps,     \* bound: how many requests are made in all
    Modes,      \* "alone", "overlap" and "crash", see Begin and Drop
    None

Types == {"evaluation", "approval", "disbursement"}

VARIABLES
    program,    \* which rows exist: "none", "template" or "version" as well
    config,     \* the value of each setting
    saved,      \* history: the value last saved for each setting
    engine,     \* the workflow_definitions row of the version, 0 if absent
    steps,      \* workflow_steps
    form,       \* whether form_definitions has a row for the version
    fields,     \* form_fields
    answered,   \* the fields application_answers refer to
    case,       \* applications.status, "none" if absent
    task,       \* the step of a case's workflow_tasks row, or None
    pc, call, ops, mode

vars == <<program, config, saved, engine, steps, form, fields, answered,
          case, task, pc, call, ops, mode>>

rows == <<program, engine, steps, form, fields, answered, case, task>>
settings == <<config, saved>>

\* program_templates.status, and two members of disbursement_rules
Parts == {"status", "windows", "workflow"}

\* the step_key values the steps can have
StepKeys == {"evaluation", "approval"}
            \cup UNION {{s.key : s \in TemplateSteps[t]} : t \in Templates}

Step == [engine : 1 .. MaxOps, key : StepKeys, type : Types]
Field == [sync : 1 .. MaxOps, key : Keys]
Config == [Parts -> 0 .. MaxOps]

\* what is assumed of the constants
Assumptions ==
    /\ None \notin Templates \cup Keys \cup Step
    /\ MaxOps \in Nat
    /\ Modes \subseteq {"alone", "overlap", "crash"}
    /\ \A t \in Templates : \A s \in TemplateSteps[t] : s.type \in Types

Ops == {"create", "update", "sync", "apply", "submit"}

\* its number, the part it sets, what it read, and what it has yet to insert
Call == [op : Ops, n : 1 .. MaxOps, part : Parts, read : Config,
         template : Templates \cup {None}, engine : 0 .. MaxOps,
         types : SUBSET Types, step : Step \cup {None},
         toInsert : SUBSET (Step \cup Field), case : Cases \cup {None}]

Labels == {"idle", "template", "version", "readRules", "writeRules", "form",
           "insertForm", "deleteFields", "insertFields", "findEngine",
           "count", "deleteEngine", "copy", "copySteps", "case", "readFields",
           "answer", "engine", "define", "types", "evaluation", "approval",
           "findStep", "task", "status"}

Busy == {r \in Requests : pc[r] # "idle"}

----------------------------------------------------------------------------
(* Requests *)

\* Requests overlap in the mode "overlap" only.
Begin(r, op, label, part, t, a) ==
    /\ pc[r] = "idle"
    /\ ops < MaxOps
    /\ mode # "overlap" => Busy = {}
    /\ pc' = [pc EXCEPT ![r] = label]
    /\ call' = [call EXCEPT ![r] =
          [op |-> op, n |-> ops + 1, part |-> part, read |-> config,
           template |-> t, engine |-> 0, types |-> {}, step |-> None,
           toInsert |-> {}, case |-> a]]
    /\ ops' = ops + 1
    /\ UNCHANGED <<rows, settings, mode>>

Goto(r, label) ==
    /\ pc' = [pc EXCEPT ![r] = label]
    /\ call' = IF label = "idle" THEN [call EXCEPT ![r] = None] ELSE call
    /\ UNCHANGED <<ops, mode>>

Read(r, label, c) ==
    /\ pc' = [pc EXCEPT ![r] = label]
    /\ call' = [call EXCEPT ![r] = c]
    /\ UNCHANGED <<rows, settings, ops, mode>>

\* the answer, or an exception: what was written before stays
Fail(r) == Goto(r, "idle") /\ UNCHANGED <<rows, settings>>

\* createAdminProgramTemplate
BeginCreate(r) ==
    /\ program = "none"
    /\ \A q \in Busy : call[q].op # "create"
    /\ \E t \in Templates \cup {None} :
          Begin(r, "create", "template", "windows", t, None)

\* updateAdminProgramTemplate, of the status or of the windows
BeginUpdate(r) ==
    /\ program # "none"
    /\ \E part \in {"status", "windows"} :
          Begin(r, "update", "template", part, None, None)

\* syncApplicantWorkflow
BeginSync(r) ==
    program = "version" /\ Begin(r, "sync", "readRules", "workflow", None, None)

\* applyWorkflowTemplate
BeginApply(r) ==
    /\ program = "version"
    /\ \E t \in Templates : Begin(r, "apply", "findEngine", "windows", t, None)

\* createApplication with submit
BeginSubmit(r) ==
    /\ program = "version"
    /\ \E a \in Cases :
          /\ case[a] = "none"
          /\ \A q \in Busy : call[q].case # a
          /\ Begin(r, "submit", "case", "windows", None, a)

----------------------------------------------------------------------------
(* The template, its version and its rules *)

\* templates.save writes the status the entity has.
SaveTemplate(r) ==
    LET c == call[r]
        decides == c.op = "create" \/ c.part = "status" IN
    /\ pc[r] = "template"
    /\ program' = IF c.op = "create" THEN "template" ELSE program
    /\ config' = [config EXCEPT !["status"] =
                     IF decides THEN c.n ELSE c.read["status"]]
    /\ saved' = IF decides THEN [saved EXCEPT !["status"] = c.n] ELSE saved
    /\ Goto(r, "version")
    /\ UNCHANGED <<engine, steps, form, fields, answered, case, task>>

\* A version that is missing is made up for by an update.
SaveVersion(r) ==
    /\ pc[r] = "version"
    /\ program' = "version"
    /\ Goto(r, IF call[r].op = "create" THEN "writeRules" ELSE "readRules")
    /\ UNCHANGED <<settings, engine, steps, form, fields, answered, case, task>>

ReadRules(r) ==
    /\ pc[r] = "readRules"
    /\ Read(r, "writeRules", [call[r] EXCEPT !.read = config])

\* The fault: the column is written without what it held before.
RulesAnew(c) ==
    [part \in {"windows", "workflow"} |-> IF part = c.part THEN c.n ELSE 0]

\* { ...prev, the part this request sets }
NextRules(c) ==
    [part \in {"windows", "workflow"} |->
        IF part = c.part THEN c.n
        ELSE IF c.op = "create" THEN 0 ELSE c.read[part]]

WriteRules(r) ==
    LET c == call[r] IN
    /\ pc[r] = "writeRules"
    /\ config' = [part \in Parts |->
          IF part = "status" THEN config[part] ELSE NextRules(c)[part]]
    /\ saved' = IF c.part = "status" THEN saved
                ELSE [saved EXCEPT ![c.part] = c.n]
    /\ Goto(r, CASE c.op = "update" -> "idle"
                 [] c.op = "sync" -> "form"
                 [] c.template # None -> "findEngine"
                 [] OTHER -> "engine")
    /\ UNCHANGED rows

----------------------------------------------------------------------------
(* The form *)

FindForm(r) ==
    /\ pc[r] = "form"
    /\ Goto(r, IF form THEN "deleteFields" ELSE "insertForm")
    /\ UNCHANGED <<rows, settings>>

\* UNIQUE (program_template_version_id)
InsertForm(r) ==
    /\ pc[r] = "insertForm"
    /\ IF form
       THEN Fail(r)
       ELSE /\ form' = TRUE
            /\ Goto(r, "deleteFields")
            /\ UNCHANGED <<settings, program, engine, steps, fields, answered,
                           case, task>>

\* application_answers.form_field_id REFERENCES form_fields
FieldsFreeOfAnswers == fields \cap answered = {}

DeleteFields(r) ==
    /\ pc[r] = "deleteFields"
    /\ IF FieldsFreeOfAnswers
       THEN /\ fields' = {}
            /\ pc' = [pc EXCEPT ![r] = "insertFields"]
            /\ call' = [call EXCEPT ![r].toInsert =
                           {[sync |-> call[r].n, key |-> k] : k \in Keys}]
            /\ UNCHANGED <<settings, program, engine, steps, form, answered,
                           case, task, ops, mode>>
       ELSE Fail(r)

\* UNIQUE (form_definition_id, field_key)
InsertField(r) ==
    /\ pc[r] = "insertFields"
    /\ IF call[r].toInsert = {}
       THEN Fail(r)
       ELSE \E f \in call[r].toInsert :
              IF \E g \in fields : g.key = f.key
              THEN Fail(r)
              ELSE /\ fields' = fields \cup {f}
                   /\ call' = [call EXCEPT ![r].toInsert = @ \ {f}]
                   /\ UNCHANGED <<settings, program, engine, steps, form,
                                  answered, case, task, pc, ops, mode>>

----------------------------------------------------------------------------
(* The engine *)

StepsOn(e) == {s \in steps : s.engine = e}

\* UNIQUE (workflow_definition_id, step_key) and its foreign key
CanInsert(s) == s.engine = engine /\ \A q \in StepsOn(engine) : q.key # s.key

FindEngine(r) ==
    /\ pc[r] = "findEngine"
    /\ Read(r, IF engine = 0 THEN "copy" ELSE "count",
            [call[r] EXCEPT !.engine = engine])

\* `Cannot replace workflow - applications already use this program version'
CountCases(r) ==
    /\ pc[r] = "count"
    /\ IF \E a \in Cases : case[a] # "none"
       THEN Fail(r)
       ELSE Goto(r, "deleteEngine") /\ UNCHANGED <<rows, settings>>

\* workflow_tasks.workflow_step_id REFERENCES workflow_steps
StepsFreeOfTasks(e) == \A a \in Cases : task[a] \notin StepsOn(e)

\* deletes the steps as well
DeleteEngine(r) ==
    LET e == call[r].engine IN
    /\ pc[r] = "deleteEngine"
    /\ IF StepsFreeOfTasks(e)
       THEN /\ engine' = IF engine = e THEN 0 ELSE engine
            /\ steps' = steps \ StepsOn(e)
            /\ Goto(r, "copy")
            /\ UNCHANGED <<settings, program, form, fields, answered, case, task>>
       ELSE Fail(r)

\* `Workflow template has no steps to copy', or the version has an engine
CopyEngine(r) ==
    LET c == call[r] IN
    /\ pc[r] = "copy"
    /\ IF TemplateSteps[c.template] = {} \/ engine # 0
       THEN Fail(r)
       ELSE /\ engine' = c.n
            /\ pc' = [pc EXCEPT ![r] = "copySteps"]
            /\ call' = [call EXCEPT ![r].toInsert =
                  {[engine |-> c.n, key |-> s.key, type |-> s.type] :
                      s \in TemplateSteps[c.template]}]
            /\ UNCHANGED <<settings, program, steps, form, fields, answered,
                           case, task, ops, mode>>

CopyStep(r) ==
    /\ pc[r] = "copySteps"
    /\ IF call[r].toInsert = {}
       THEN Fail(r)
       ELSE \E s \in call[r].toInsert :
              IF CanInsert(s)
              THEN /\ steps' = steps \cup {s}
                   /\ call' = [call EXCEPT ![r].toInsert = @ \ {s}]
                   /\ UNCHANGED <<settings, program, engine, form, fields,
                                  answered, case, task, pc, ops, mode>>
              ELSE Fail(r)

\* ensureDefaultWorkflow
EnsureEngine(r) ==
    /\ pc[r] = "engine"
    /\ Read(r, IF engine = 0 THEN "define" ELSE "types",
            [call[r] EXCEPT !.engine = engine])

DefineEngine(r) ==
    LET c == call[r] IN
    /\ pc[r] = "define"
    /\ IF engine # 0
       THEN Fail(r)
       ELSE /\ engine' = c.n
            /\ pc' = [pc EXCEPT ![r] = "types"]
            /\ call' = [call EXCEPT ![r].engine = c.n]
            /\ UNCHANGED <<settings, program, steps, form, fields, answered,
                           case, task, ops, mode>>

ReadTypes(r) ==
    /\ pc[r] = "types"
    /\ Read(r, "evaluation", [call[r] EXCEPT !.types =
                  {s.type : s \in StepsOn(call[r].engine)}])

Lacks(c, type) == type \notin c.types

InsertDefault(r, type, next) ==
    LET s == [engine |-> call[r].engine, key |-> type, type |-> type] IN
    /\ pc[r] = type
    /\ CASE ~Lacks(call[r], type) ->
              Goto(r, next) /\ UNCHANGED <<rows, settings>>
         [] Lacks(call[r], type) /\ CanInsert(s) ->
              /\ steps' = steps \cup {s}
              /\ Goto(r, next)
              /\ UNCHANGED <<settings, program, engine, form, fields, answered,
                             case, task>>
         [] OTHER -> Fail(r)

EnsureEvaluation(r) == InsertDefault(r, "evaluation", "approval")

EnsureApproval(r) ==
    InsertDefault(r, "approval",
                  IF call[r].op = "submit" THEN "findStep" ELSE "idle")

----------------------------------------------------------------------------
(* A submission *)

\* The fault: the case is in evaluation from the start.
InsertCaseEarly(r) ==
    /\ pc[r] = "case"
    /\ case' = [case EXCEPT ![call[r].case] = "in_evaluation"]
    /\ Goto(r, "readFields")
    /\ UNCHANGED <<settings, program, engine, steps, form, fields, answered, task>>

InsertCase(r) ==
    /\ pc[r] = "case"
    /\ case' = [case EXCEPT ![call[r].case] = "submitted"]
    /\ Goto(r, "readFields")
    /\ UNCHANGED <<settings, program, engine, steps, form, fields, answered, task>>

\* upsertAnswers: the fields of the form, of which some are filled in
ReadFields(r) ==
    /\ pc[r] = "readFields"
    /\ \E filled \in SUBSET fields :
          Read(r, "answer", [call[r] EXCEPT !.toInsert = filled])

SaveAnswer(r) ==
    /\ pc[r] = "answer"
    /\ IF call[r].toInsert = {}
       THEN Goto(r, "engine") /\ UNCHANGED <<rows, settings>>
       ELSE \E f \in call[r].toInsert :
              IF f \in fields
              THEN /\ answered' = answered \cup {f}
                   /\ call' = [call EXCEPT ![r].toInsert = @ \ {f}]
                   /\ UNCHANGED <<settings, program, engine, steps, form,
                                  fields, case, task, pc, ops, mode>>
              ELSE Fail(r)

\* spawnEvaluationTask; without an evaluation step there is no task
FindStep(r) ==
    LET found == {s \in StepsOn(engine) : s.type = "evaluation"} IN
    /\ pc[r] = "findStep"
    /\ IF found = {}
       THEN Goto(r, "status") /\ UNCHANGED <<rows, settings>>
       ELSE \E s \in found : Read(r, "task", [call[r] EXCEPT !.step = s])

InsertTask(r) ==
    LET c == call[r] IN
    /\ pc[r] = "task"
    /\ IF c.step \in steps
       THEN /\ task' = [task EXCEPT ![c.case] = c.step]
            /\ Goto(r, "status")
            /\ UNCHANGED <<settings, program, engine, steps, form, fields,
                           answered, case>>
       ELSE Fail(r)

SetStatus(r) ==
    /\ pc[r] = "status"
    /\ case' = [case EXCEPT ![call[r].case] = "in_evaluation"]
    /\ Goto(r, "idle")
    /\ UNCHANGED <<settings, program, engine, steps, form, fields, answered, task>>

\* A replica dies between two awaits.
Drop(r) == mode = "crash" /\ pc[r] # "idle" /\ Fail(r)

----------------------------------------------------------------------------
Init ==
    /\ program = "none"
    /\ config = [part \in Parts |-> 0]
    /\ saved = [part \in Parts |-> 0]
    /\ engine = 0
    /\ steps = {}
    /\ form = FALSE
    /\ fields = {}
    /\ answered = {}
    /\ case = [a \in Cases |-> "none"]
    /\ task = [a \in Cases |-> None]
    /\ pc = [r \in Requests |-> "idle"]
    /\ call = [r \in Requests |-> None]
    /\ ops = 0
    /\ mode \in Modes

Next ==
    \E r \in Requests :
        \/ BeginCreate(r) \/ BeginUpdate(r) \/ BeginSync(r)
        \/ BeginApply(r) \/ BeginSubmit(r)
        \/ SaveTemplate(r) \/ SaveVersion(r) \/ ReadRules(r) \/ WriteRules(r)
        \/ FindForm(r) \/ InsertForm(r) \/ DeleteFields(r) \/ InsertField(r)
        \/ FindEngine(r) \/ CountCases(r) \/ DeleteEngine(r)
        \/ CopyEngine(r) \/ CopyStep(r)
        \/ EnsureEngine(r) \/ DefineEngine(r) \/ ReadTypes(r)
        \/ EnsureEvaluation(r) \/ EnsureApproval(r)
        \/ InsertCase(r) \/ ReadFields(r) \/ SaveAnswer(r)
        \/ FindStep(r) \/ InsertTask(r) \/ SetStatus(r)
        \/ Drop(r)

Spec == Init /\ [][Next]_vars

----------------------------------------------------------------------------
(* Properties *)

\* The tables and the requests hold what they can.
TypeOK ==
    /\ program \in {"none", "template", "version"}
    /\ config \in Config
    /\ saved \in Config
    /\ engine \in 0 .. MaxOps
    /\ steps \subseteq Step
    /\ form \in BOOLEAN
    /\ fields \subseteq Field
    /\ answered \subseteq Field
    /\ case \in [Cases -> {"none", "submitted", "in_evaluation"}]
    /\ task \in [Cases -> Step \cup {None}]
    /\ pc \in [Requests -> Labels]
    /\ call \in [Requests -> Call \cup {None}]
    /\ ops \in 0 .. MaxOps
    /\ mode \in Modes

\* What was last saved for a setting is what the program has, as long as
\* requests do not overlap: publishing the applicant's journey does not lose
\* the windows, nor an edit of the program the journey or its status.
SettingsKept == mode # "overlap" => config = saved

\* A case that waits for its evaluation has a task, on an evaluation step of
\* the program's engine, and the engine can approve it, whatever the template
\* it was copied from and whatever died before, as long as requests do not
\* overlap.  And even then no task or answer refers to a step or a field that
\* is gone.
EngineServesCases ==
    /\ \A a \in Cases :
          /\ task[a] # None => task[a] \in steps
          /\ mode # "overlap" /\ case[a] = "in_evaluation" =>
                /\ task[a] # None
                /\ task[a].type = "evaluation"
                /\ task[a].engine = engine
                /\ \E s \in StepsOn(engine) : s.type = "approval"
    /\ answered \subseteq fields

\* `Persist the Workflow Builder applicant journey (... + form fields)'
FormFollowsJourney ==
    mode = "alone" /\ Busy = {} =>
        \A f \in fields : f.sync = config["workflow"]

=============================================================================
