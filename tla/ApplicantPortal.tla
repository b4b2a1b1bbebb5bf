--------------------------- MODULE ApplicantPortal ---------------------------
(***************************************************************************)
(* The applicant workflow engine of the web portal: the pure rules of      *)
(* lib/workflow/engine.ts and the store of lib/workflow/store.tsx, which   *)
(* keeps the whole state of the engine in a tab of the browser and writes  *)
(* it to localStorage after every change.  A tab reads localStorage when   *)
(* it loads and never again.  Names, labels, reason codes and amounts are  *)
(* left out: a call is made with those its action requires.  Comments are  *)
(* left out too: they add to the event log and change nothing else.  Who   *)
(* acts is whom the user menu was last set to, so an input of a call.      *)
(***************************************************************************)
EXTENDS Naturals, Sequences, FiniteSets

CONSTANTS
    Tabs,         \* tabs that have the portal open
    Users,        \* seeded users
    Roles,        \* keys of roles
    RolesOf,      \* the roles of a user, a function from Users
    Templates,    \* names of workflow templates
    Applications, \* names of applications
    Keys,         \* fields a form may demand
    Values,       \* what a field may be answered with
    SeedTypes,    \* the step types of the seeded workflow
    MaxEdits,     \* bound: changes of step sets
    MaxVersions,  \* bound: program versions
    MaxSteps,     \* bound: step ids, the seeded and the copied included
    MaxResults,   \* bound: results of face checks
    None

VARIABLES
    tab,        \* the WorkflowState each tab holds
    storage,    \* the one in localStorage
    edits       \* the changes of step sets so far

vars == <<tab, storage, edits>>

StepTypes == {"form", "verify", "review", "disbursement"}
DecisionActions == {"approve", "return", "reject"}
Statuses == {"draft", "published", "archived"}

Versions == 1 .. MaxVersions
Steps == 1 .. MaxSteps

\* the owner of a step set, the enabled actions of a review step and the
\* fields a form step demands
Step == [owner : Templates \cup Versions, position : Steps, type : StepTypes,
         role : Roles \cup {None}, enabled : SUBSET DecisionActions,
         fields : SUBSET Keys]

\* A program is known by its first version.
Version == [program : Versions, status : Statuses]

Application ==
    [version : Versions, applicant : Users, step : Steps \cup {None},
     status : {"draft", "verifying", "submitted", "returned", "approved",
               "disbursed", "rejected"}]

\* an item of the checklist of a review step, and the answer it was given on
Check == [app : Applications, step : Steps, item : Steps \X Keys,
          verdict : {"approved", "rejected"}, seen : Values]

Result == [app : Applications, step : Steps, passed : BOOLEAN]

\* The log is kept as the set of its entries.
Event == [app : Applications,
          action : {"submit", "resubmit", "verify", "disburse"}
                   \cup DecisionActions,
          from : Steps \cup {None}, to : Steps \cup {None}]

WorkflowState ==
    [templates : [Templates -> Statuses \cup {None}],
     versions : [Versions -> Version \cup {None}],
     steps : [Steps -> Step \cup {None}],
     lastId : 0 .. MaxSteps,
     applications : [Applications -> Application \cup {None}],
     answers : [Applications -> [Steps \X Keys -> Values \cup {None}]],
     verifyResults : Seq(Result),
     checks : SUBSET Check,
     paid : [Applications -> 0 .. 2],
     events : SUBSET Event]

\* what is assumed of the constants
Assumptions ==
    /\ None \notin Users \cup Applications \cup Values \cup Steps
    /\ None \notin Step \cup Version \cup Application
    /\ Templates # {} /\ Templates \cap Versions = {}
    /\ MaxVersions \in Nat \ {0}
    /\ {MaxSteps, MaxEdits, MaxResults} \subseteq Nat
    /\ {"reviewer", "approver"} \subseteq Roles
    /\ RolesOf \in [Users -> SUBSET Roles]
    /\ SeedTypes \in Seq(StepTypes)
    /\ 2 * Len(SeedTypes) <= MaxSteps

----------------------------------------------------------------------------
(* Selectors *)

\* the steps of a step set
StepsOf(s, owner) == {i \in Steps : s.steps[i] # None /\ s.steps[i].owner = owner}

OfType(s, owner, type) == {i \in StepsOf(s, owner) : s.steps[i].type = type}

\* They are sorted by position; steps of one position stay in the order of
\* creation.
Before(s, i, j) ==
    \/ s.steps[i].position < s.steps[j].position
    \/ s.steps[i].position = s.steps[j].position /\ i < j

FirstOf(s, ids) ==
    IF ids = {} THEN None
    ELSE CHOOSE i \in ids : \A j \in ids \ {i} : Before(s, i, j)

\* the answered items of an application, those its reviewers check
ReviewItems(s, a) ==
    {x \in StepsOf(s, s.applications[a].version) \X Keys : s.answers[a][x] # None}

ReviewComplete(s, a, step) ==
    \A x \in ReviewItems(s, a) :
        \E c \in s.checks : /\ c.app = a /\ c.step = step /\ c.item = x
                            /\ c.verdict = "approved"

\* validateAnswers
Valid(s, a) ==
    \A i \in StepsOf(s, s.applications[a].version) :
        \A k \in s.steps[i].fields : s.answers[a][<<i, k>>] # None

\* verifyResultFor finds the earliest result of the step.
Passed(results, a, i) ==
    \E n \in 1 .. Len(results) :
        /\ results[n] = [app |-> a, step |-> i, passed |-> TRUE]
        /\ \A m \in 1 .. n - 1 : results[m].app = a => results[m].step # i

\* pendingVerifyStep: the first one not passed, in order
PendingVerifyStep(s, a, results) ==
    FirstOf(s, {i \in OfType(s, s.applications[a].version, "verify") :
                   ~Passed(results, a, i)})

----------------------------------------------------------------------------
(* The store: a call computes the next state of its tab, which is saved. *)

Save(t, s) ==
    /\ tab' = [tab EXCEPT ![t] = s]
    /\ storage' = s

Apply(t, s) == Save(t, s) /\ UNCHANGED edits

\* editStepSetOf
Edit(t, s) ==
    /\ s # tab[t]
    /\ edits' = edits + 1
    /\ Save(t, s)

\* a tab loads, or is reloaded
Hydrate(t) ==
    /\ tab' = [tab EXCEPT ![t] = storage]
    /\ UNCHANGED <<storage, edits>>

\* The fault: published versions may be edited, as templates may.
EditableTemplateRule(s, owner) ==
    IF owner \in Templates
    THEN s.templates[owner] \in {"draft", "published"}
    ELSE s.versions[owner].status \in {"draft", "published"}

\* editableError: `Published versions are frozen'
Editable(s, owner) ==
    IF owner \in Templates
    THEN s.templates[owner] \in {"draft", "published"}
    ELSE s.versions[owner].status = "draft"

CreateTemplate(t) ==
    \E n \in Templates :
        /\ tab[t].templates[n] = None
        /\ Apply(t, [tab[t] EXCEPT !.templates[n] = "draft"])

PublishTemplate(t) ==
    \E n \in Templates :
        /\ tab[t].templates[n] \in {"draft", "published"}
        /\ OfType(tab[t], n, "review") # {}
        /\ Apply(t, [tab[t] EXCEPT !.templates[n] = "published"])

ArchiveTemplate(t) ==
    \E n \in Templates :
        /\ tab[t].templates[n] # None
        /\ Apply(t, [tab[t] EXCEPT !.templates[n] = "archived"])

NewStep(owner, position, type) ==
    [owner |-> owner, position |-> position, type |-> type,
     role |-> CASE type = "review" -> "reviewer"
                [] type = "disbursement" -> "approver"
                [] OTHER -> None,
     enabled |-> IF type = "review" THEN DecisionActions ELSE {},
     fields |-> {}]

Owners(s) == {n \in Templates : s.templates[n] # None}
             \cup {v \in Versions : s.versions[v] # None}

\* The position is the number of steps plus one, also after a removal.
AddStep(t) ==
    LET s == tab[t] IN
    \E owner \in Owners(s), type \in StepTypes :
        /\ Editable(s, owner)
        /\ s.lastId < MaxSteps
        /\ Edit(t, [s EXCEPT
              !.lastId = @ + 1,
              !.steps[s.lastId + 1] =
                 NewStep(owner, Cardinality(StepsOf(s, owner)) + 1, type)])

\* a step of a step set that may be edited
EditableSteps(s) ==
    {i \in Steps : s.steps[i] # None /\ Editable(s, s.steps[i].owner)}

UpdateStep(t) ==
    \E i \in EditableSteps(tab[t]), role \in Roles :
        Edit(t, [tab[t] EXCEPT !.steps[i].role = role])

\* A step and the one after it swap their positions.
MoveStep(t) ==
    LET s == tab[t] IN
    \E owner \in Owners(s) :
        \E j, k \in StepsOf(s, owner) :
            /\ Before(s, j, k)
            /\ ~\E i \in StepsOf(s, owner) : Before(s, j, i) /\ Before(s, i, k)
            /\ Editable(s, owner)
            /\ Edit(t, [s EXCEPT !.steps[j].position = s.steps[k].position,
                                 !.steps[k].position = s.steps[j].position])

RemoveStep(t) ==
    \E i \in EditableSteps(tab[t]) :
        Edit(t, [tab[t] EXCEPT !.steps[i] = None])

\* the editors of fields, of options and of file rules
EditFields(t) ==
    \E i \in EditableSteps(tab[t]), demanded \in SUBSET Keys :
        /\ tab[t].steps[i].type = "form"
        /\ Edit(t, [tab[t] EXCEPT !.steps[i].fields = demanded])

SetActionEnabled(t) ==
    \E i \in EditableSteps(tab[t]), action \in DecisionActions :
        /\ tab[t].steps[i].type = "review"
        /\ \/ Edit(t, [tab[t] EXCEPT !.steps[i].enabled = @ \cup {action}])
           \/ Edit(t, [tab[t] EXCEPT !.steps[i].enabled = @ \ {action}])

\* copyStepSet: the copies get ids of their own, in the order of the steps
Copied(s, source, owner) ==
    LET ids == StepsOf(s, source)
        copy == [i \in ids |->
                    s.lastId + 1 + Cardinality({j \in ids : Before(s, j, i)})] IN
    [s EXCEPT !.lastId = @ + Cardinality(ids),
              !.steps = [n \in Steps |->
                  IF \E i \in ids : copy[i] = n
                  THEN [s.steps[CHOOSE i \in ids : copy[i] = n] EXCEPT !.owner = owner]
                  ELSE s.steps[n]]]

\* v is the next version that can be created.
NextVersion(s, v) ==
    s.versions[v] = None /\ \A w \in 1 .. v - 1 : s.versions[w] # None

Draft(program) == [program |-> program, status |-> "draft"]

\* createProgram: from a published template, or blank
CreateProgram(t) ==
    LET s == tab[t] IN
    \E v \in Versions :
        LET blank == [s EXCEPT !.versions[v] = Draft(v)] IN
        /\ NextVersion(s, v)
        /\ \/ Apply(t, blank)
           \/ \E n \in Templates :
                 /\ s.templates[n] = "published"
                 /\ s.lastId + Cardinality(StepsOf(s, n)) <= MaxSteps
                 /\ Apply(t, Copied(blank, n, v))

CreateDraftFromPublished(t) ==
    LET s == tab[t] IN
    \E v, w \in Versions :
        /\ NextVersion(s, v)
        /\ s.versions[w] # None
        /\ s.versions[w].status = "published"
        /\ Draft(s.versions[w].program) \notin {s.versions[x] : x \in Versions}
        /\ s.lastId + Cardinality(StepsOf(s, w)) <= MaxSteps
        /\ Apply(t, Copied([s EXCEPT !.versions[v] = Draft(s.versions[w].program)],
                           w, v))

\* The version of the program published before is archived.
PublishVersion(t) ==
    LET s == tab[t] IN
    \E v \in Versions :
        /\ s.versions[v] # None
        /\ s.versions[v].status = "draft"
        /\ OfType(s, v, "review") # {}
        /\ OfType(s, v, "form") # {}
        /\ Apply(t, [s EXCEPT !.versions = [w \in Versions |->
              IF w = v THEN [@[w] EXCEPT !.status = "published"]
              ELSE IF @[w] = [program |-> s.versions[v].program,
                              status |-> "published"]
              THEN [@[w] EXCEPT !.status = "archived"]
              ELSE @[w]]])

----------------------------------------------------------------------------
(* Applications *)

NewEvent(a, action, from, to) ==
    [app |-> a, action |-> action, from |-> from, to |-> to]

\* withEvent, after the application moved to a step and a status; the log
\* says neither where a resubmission comes from nor where a rejection leads.
Moved(s, a, action, status, to) ==
    [s EXCEPT !.applications[a].status = status,
              !.applications[a].step = to,
              !.events = @ \cup
                 {NewEvent(a, action,
                           IF action = "resubmit" THEN None
                           ELSE s.applications[a].step,
                           IF action = "reject" THEN None ELSE to)}]

Filed(s) == {a \in Applications : s.applications[a] # None}

StartApplication(t) ==
    \E a \in Applications \ Filed(tab[t]), v \in Versions, u \in Users :
        /\ tab[t].versions[v] # None
        /\ tab[t].versions[v].status = "published"
        /\ Apply(t, [tab[t] EXCEPT !.applications[a] =
              [version |-> v, applicant |-> u, step |-> None, status |-> "draft"]])

\* an answer may be emptied again
SetAnswer(t) ==
    LET s == tab[t] IN
    \E a \in Filed(s), i \in Steps, k \in Keys, v \in Values \cup {None} :
        /\ s.applications[a].status \in {"draft", "returned"}
        /\ i \in StepsOf(s, s.applications[a].version)
        /\ s.steps[i].type = "form"
        /\ Apply(t, [s EXCEPT !.answers[a][<<i, k>>] = v])

\* The fault: a resubmission keeps the verdicts of the round before.
ChecksKept(s, a) == s.checks

\* `all item verdicts reset to pending'
ChecksReset(s, a) == {c \in s.checks : c.app # a}

\* submit of a draft
Submit(t) ==
    LET s == tab[t] IN
    \E a \in Filed(s) :
        LET p == s.applications[a]
            verify == PendingVerifyStep(s, a, s.verifyResults)
            review == FirstOf(s, OfType(s, p.version, "review")) IN
        /\ p.status = "draft"
        /\ Valid(s, a)
        /\ verify # None \/ review # None
        /\ Apply(t, IF verify # None
                    THEN Moved(s, a, "submit", "verifying", verify)
                    ELSE Moved(s, a, "submit", "submitted", review))

\* submit of a returned application
Resubmit(t) ==
    LET s == tab[t] IN
    \E a \in Filed(s) :
        LET p == s.applications[a] IN
        /\ p.status = "returned"
        /\ Valid(s, a)
        /\ s.steps[p.step] # None
        /\ Apply(t, [Moved(s, a, "resubmit", "submitted", p.step)
                        EXCEPT !.checks = ChecksReset(s, a)])

\* verify: a failed check leaves the application at the step
Verify(t) ==
    LET s == tab[t] IN
    \E a \in Filed(s), passed \in BOOLEAN :
        LET p == s.applications[a]
            results == Append(s.verifyResults,
                              [app |-> a, step |-> p.step, passed |-> passed])
            verify == PendingVerifyStep(s, a, results)
            review == FirstOf(s, OfType(s, p.version, "review"))
            after == [s EXCEPT !.verifyResults = results] IN
        /\ Len(s.verifyResults) < MaxResults
        /\ p.status = "verifying"
        /\ ~passed \/ verify # None \/ review # None
        /\ Apply(t,
              IF ~passed THEN after
              ELSE IF verify # None
              THEN Moved(after, a, "verify", "verifying", verify)
              ELSE Moved(after, a, "verify", "submitted", review))

Holds(s, u, step) == s.steps[step].role # None /\ s.steps[step].role \in RolesOf[u]

\* The same verdict again clears it.
SetReviewVerdict(t) ==
    LET s == tab[t] IN
    \E a \in Filed(s), u \in Users, verdict \in {"approved", "rejected"} :
        LET p == s.applications[a] IN
        /\ p.status = "submitted"
        /\ Holds(s, u, p.step)
        /\ \E x \in ReviewItems(s, a) :
              LET here == {c \in s.checks :
                              c.app = a /\ c.step = p.step /\ c.item = x}
                  new == [app |-> a, step |-> p.step, item |-> x,
                          verdict |-> verdict, seen |-> s.answers[a][x]] IN
              Apply(t, [s EXCEPT !.checks =
                 IF \E c \in here : c.verdict = verdict
                 THEN @ \ here ELSE (@ \ here) \cup {new}])

Allowed(s, a, u, action) ==
    LET p == s.applications[a] IN
    /\ p.status = "submitted"
    /\ Holds(s, u, p.step)
    /\ action \in s.steps[p.step].enabled
    /\ action = "approve" => ReviewComplete(s, a, p.step)

\* the review step after this one, or else the disbursement
Approved(s, a) ==
    LET p == s.applications[a]
        later == {i \in OfType(s, p.version, "review") : Before(s, p.step, i)} IN
    IF later # {}
    THEN Moved(s, a, "approve", "submitted", FirstOf(s, later))
    ELSE Moved(s, a, "approve", "approved",
               FirstOf(s, OfType(s, p.version, "disbursement")))

\* A returned and a rejected application keep their step.
Decide(t) ==
    LET s == tab[t] IN
    \E a \in Filed(s), u \in Users, action \in DecisionActions :
        /\ Allowed(s, a, u, action)
        /\ Apply(t, CASE action = "approve" -> Approved(s, a)
                      [] action = "return" ->
                            Moved(s, a, "return", "returned", s.applications[a].step)
                      [] action = "reject" ->
                            Moved(s, a, "reject", "rejected", s.applications[a].step))

Disburse(t) ==
    LET s == tab[t] IN
    \E a \in Filed(s), u \in Users :
        /\ s.applications[a].status = "approved"
        /\ s.applications[a].step # None
        /\ Holds(s, u, s.applications[a].step)
        /\ Apply(t, [Moved(s, a, "disburse", "disbursed", None)
                        EXCEPT !.paid[a] = @ + 1])

----------------------------------------------------------------------------
\* the fixtures: a published template, and the version copied from it
Seeded(owner, first) ==
    [i \in Steps |->
        IF i \in first .. first + Len(SeedTypes) - 1
        THEN [NewStep(owner, i - first + 1, SeedTypes[i - first + 1])
                 EXCEPT !.fields = IF SeedTypes[i - first + 1] = "form"
                                   THEN Keys ELSE {}]
        ELSE None]

Seed ==
    LET n == Len(SeedTypes)
        template == CHOOSE x \in Templates : TRUE
        source == Seeded(template, 1)
        copy == Seeded(1, n + 1) IN
    [templates |-> [x \in Templates |-> IF x = template THEN "published" ELSE None],
     versions |-> [v \in Versions |->
        IF v = 1 THEN [program |-> 1, status |-> "published"] ELSE None],
     steps |-> [i \in Steps |-> IF i <= n THEN source[i] ELSE copy[i]],
     lastId |-> 2 * n,
     applications |-> [a \in Applications |-> None],
     answers |-> [a \in Applications |-> [x \in Steps \X Keys |-> None]],
     verifyResults |-> <<>>, checks |-> {},
     paid |-> [a \in Applications |-> 0],
     events |-> {}]

\* resetAll
ResetAll(t) == Apply(t, Seed)

Init ==
    /\ tab = [t \in Tabs |-> Seed]
    /\ storage = Seed
    /\ edits = 0

Build(t) ==
    \/ CreateTemplate(t) \/ PublishTemplate(t) \/ ArchiveTemplate(t)
    \/ /\ edits < MaxEdits
       /\ \/ AddStep(t) \/ UpdateStep(t) \/ MoveStep(t) \/ RemoveStep(t)
          \/ EditFields(t) \/ SetActionEnabled(t)
    \/ CreateProgram(t) \/ CreateDraftFromPublished(t) \/ PublishVersion(t)

Run(t) ==
    \/ StartApplication(t) \/ SetAnswer(t) \/ Submit(t) \/ Resubmit(t)
    \/ Verify(t) \/ SetReviewVerdict(t) \/ Decide(t) \/ Disburse(t)

Next == \E t \in Tabs : Hydrate(t) \/ ResetAll(t) \/ Build(t) \/ Run(t)

Spec == Init /\ [][Next]_vars

----------------------------------------------------------------------------
(* Properties *)

Held == {storage} \cup {tab[t] : t \in Tabs}

\* Every tab and localStorage hold a well-formed state of the engine.
TypeOK ==
    /\ Held \subseteq WorkflowState
    /\ edits \in 0 .. MaxEdits

\* Whatever the builder does meanwhile, an application is at a step its pinned
\* version has, of the kind its status says, and what the form of the version
\* demands it has answered ("in-flight applications pin this").
AtAStepOfItsVersion ==
    \A s \in Held :
        \A a \in Filed(s) :
            LET p == s.applications[a]
                at == {type \in StepTypes :
                          \E i \in StepsOf(s, p.version) :
                              i = p.step /\ s.steps[i].type = type} IN
            CASE p.status = "draft" -> p.step = None
              [] p.status = "verifying" -> at = {"verify"} /\ Valid(s, a)
              [] p.status \in {"submitted", "rejected"} ->
                    at = {"review"} /\ Valid(s, a)
              [] p.status = "returned" -> at = {"review"}
              [] p.status = "approved" ->
                    at = {"disbursement"} \/ p.step = None
              [] p.status = "disbursed" -> p.step = None

\* An application that was approved passed every face check of its version and
\* was approved at every review step; at the last one every item was checked
\* off on the answer that stands.  It is paid at most once.
ApprovedAsVerified ==
    \A s \in Held :
        \A a \in Filed(s) :
            LET p == s.applications[a]
                reviews == OfType(s, p.version, "review") IN
            /\ s.paid[a] = IF p.status = "disbursed" THEN 1 ELSE 0
            /\ p.status \in {"approved", "disbursed"} =>
                  /\ \A i \in StepsOf(s, p.version) :
                        /\ s.steps[i].type = "verify" =>
                              \E n \in 1 .. Len(s.verifyResults) :
                                  s.verifyResults[n] =
                                      [app |-> a, step |-> i, passed |-> TRUE]
                        /\ s.steps[i].type = "review" =>
                              \E e \in s.events :
                                  e.app = a /\ e.action = "approve" /\ e.from = i
                  /\ \A x \in ReviewItems(s, a) :
                        \E c \in s.checks :
                            /\ c.app = a /\ c.item = x
                            /\ c.step \in reviews
                            /\ ~\E i \in reviews : Before(s, c.step, i)
                            /\ c.verdict = "approved"
                            /\ c.seen = s.answers[a][x]

\* "stays on the verify step; applicant retries": a check that was passed is
\* not asked for again.
RetryCounts ==
    \A s \in Held :
        \A a \in Filed(s), n \in 1 .. Len(s.verifyResults) :
            LET r == s.verifyResults[n] p == s.applications[a] IN
            r.app = a /\ r.passed =>
                ~(p.status = "verifying" /\ p.step = r.step)

\* "Append-only: events are only ever added, never mutated or removed", but
\* for the reset of the demo data.
EventsAppendOnly ==
    [][storage' # storage /\ storage'.events # {} =>
         storage.events \subseteq storage'.events]_vars

=============================================================================
