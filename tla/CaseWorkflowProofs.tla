------------------------- MODULE CaseWorkflowProofs -------------------------
(***************************************************************************)
(* Theorems of CaseWorkflow, for any number of cases, people and requests: *)
(* first those for any overlap and any crash, then those for requests on   *)
(* one beneficiary's cases that do not overlap.                            *)
(***************************************************************************)
EXTENDS CaseWorkflow, TLAPS

(***************************************************************************)
(* The inductive invariant.  TypeOK is not inductive: what a request will  *)
(* write is in its memory, so the memory must be well formed (Wellformed). *)
(* A status reaches the row from memory too, and a task decides who may    *)
(* act next, so "was forwarded" has to be known of every place a later     *)
(* stage can come from (Provenance): the row, the entity a stale PATCH     *)
(* will write back, the approval tasks, those an open reactivation holds,  *)
(* and the requests that are past the write that forwards.                 *)
(***************************************************************************)
Shape(r) ==
  /\ pc[r] # "idle" =>
       /\ call[r].app \in Applications
       /\ call[r].entity \in Statuses
       /\ call[r].ep \in AllEndpoints
  /\ pc[r] = "insert" => call[r].ep = "create" /\ call[r].entity \in {"draft", "submitted"}
  /\ pc[r] = "answers" => call[r].ep \in {"create", "update"}
  /\ pc[r] = "officeCheck" => call[r].ep = "submit"
  /\ pc[r] = "takeTask" => call[r].ep \in {"recommend", "decline", "decide"}
  /\ pc[r] = "sodCheck" => call[r].ep = "decide"
  /\ pc[r] = "save" => call[r].ep # "create"
  /\ pc[r] = "saveTask" => call[r].ep \in {"recommend", "decline", "decide"}
  /\ pc[r] \in {"spawn", "insertTask"} => call[r].ep \in {"create", "submit", "recommend"}
  /\ pc[r] = "existing" => call[r].ep \in {"create", "submit"}
  /\ call[r].ep = "recommend" => call[r].entity = "in_approval"
  /\ call[r].ep = "decline" => call[r].entity = "rejected"
  /\ call[r].ep = "decide" => call[r].entity \in {"approved", "rejected"}

Wellformed == \A r \in Requests : Shape(r)

\* Statuses that follow an Approver's consent.
Granted == {"approved", "disbursed", "claimed"}

\* The request may still write a status of S, or act for a case of S.
Carries(r, S) ==
  /\ pc[r] \in {"insert", "answers", "save"}
  /\ call[r].entity \in S

\* The write that makes the fact true, and not one that relies on it.
Forwards(r) == call[r].ep = "recommend" /\ pc[r] = "save"
Grants(r)   == call[r].ep = "decide"

\* It was done, or a client sent the case a status and nothing is said of it.
Known(a, act) == Did(a, act) \/ Patched(a)

\* What the rows say about case a was really done.
RowKnown(a) ==
  /\ status[a] \in BeyondEvaluation => Known(a, "forwarded")
  /\ tasks[a]["approval"] # << >> => Known(a, "forwarded")
  /\ <<a, "approval">> \in reopening.inserted => Known(a, "forwarded")
  /\ status[a] \in Granted => Known(a, "approved")
  /\ Did(a, "claimed") => Known(a, "approved")

\* So was what request r relies on.
CallKnown(r) ==
  /\ Carries(r, BeyondEvaluation) /\ ~ Forwards(r) => Known(call[r].app, "forwarded")
  /\ pc[r] \notin {"idle", "takeTask"} /\ call[r].ep = "decide"
       => Known(call[r].app, "forwarded")
  /\ pc[r] \in {"saveTask", "spawn", "insertTask"} /\ call[r].ep = "recommend"
       => Known(call[r].app, "forwarded")
  /\ Carries(r, Granted) /\ ~ Grants(r) => Known(call[r].app, "approved")

Provenance ==
  /\ \A a \in Applications : RowKnown(a)
  /\ \A r \in Requests : CallKnown(r)

TypeInv == TypeOK /\ Wellformed
Inv == TypeInv /\ Provenance

(***************************************************************************)
(* What the operators the actions are built from do                        *)
(***************************************************************************)

\* A request that moves on keeps its memory, or forgets it when it ends.
LEMMA GotoFacts ==
  ASSUME pc \in [Requests -> Labels], call \in [Requests -> Call],
         NEW r \in Requests, NEW label \in Labels, Goto(r, label)
  PROVE  /\ pc' \in [Requests -> Labels] /\ call' \in [Requests -> Call]
         /\ pc'[r] = label
         /\ call'[r] = IF label = "idle" THEN NoCall ELSE call[r]
         /\ \A q \in Requests \ {r} : pc'[q] = pc[q] /\ call'[q] = call[q]
  <1>1. NoCall \in Call
    BY DEF NoCall, Call
  <1> QED
    BY <1>1 DEF Goto

\* A request that begins fills its slot only.
LEMMA BeginFacts ==
  ASSUME pc \in [Requests -> Labels], call \in [Requests -> Call],
         NEW r \in Requests, NEW label \in Labels, NEW c \in Call,
         Begin(r, label, c)
  PROVE  /\ pc' \in [Requests -> Labels] /\ call' \in [Requests -> Call]
         /\ pc'[r] = label /\ call'[r] = c
         /\ \A q \in Requests \ {r} : pc'[q] = pc[q] /\ call'[q] = call[q]
  BY DEF Begin

\* History is added to and never lost.
LEMMA RecordFacts ==
  ASSUME trail \in [Applications -> SUBSET [by : Users \union {None}, act : Acts]],
         NEW a \in Applications, NEW who \in Users \union {None}, NEW act \in Acts,
         Record(a, who, act)
  PROVE  /\ trail' \in [Applications -> SUBSET [by : Users \union {None}, act : Acts]]
         /\ Did(a, act)'
         /\ \A b \in Applications, x \in Acts :
              (Did(b, x) => Did(b, x)') /\ (Did(b, x)' => Did(b, x) \/ x = act)
  <1> DEFINE e == [by |-> who, act |-> act]
  <1>1. e \in [by : Users \union {None}, act : Acts] /\ e.act = act
    OBVIOUS
  <1>2. trail' = [trail EXCEPT ![a] = @ \union {e}]
    BY DEF Record
  <1> HIDE DEF e
  <1>3. trail' \in [Applications -> SUBSET [by : Users \union {None}, act : Acts]]
    BY <1>1, <1>2
  <1>4. /\ e \in trail'[a]
        /\ \A b \in Applications : trail[b] \subseteq trail'[b] /\ trail'[b] \subseteq trail[b] \union {e}
    BY <1>2
  <1> QED
    BY <1>1, <1>3, <1>4 DEF Did

\* Who does not move keeps the shape of its memory.
LEMMA OthersKeepShape ==
  ASSUME Wellformed, NEW r \in Requests, Shape(r)',
         \A q \in Requests \ {r} : pc'[q] = pc[q] /\ call'[q] = call[q]
  PROVE  Wellformed'
  <1> SUFFICES ASSUME NEW q \in Requests, q # r PROVE Shape(q)'
    BY DEF Wellformed
  <1> Shape(q)
    BY DEF Wellformed
  <1> QED
    BY DEF Shape

\* Rewriting a task makes no list of tasks out of an empty one.
LEMMA RewriteMakesNone ==
  ASSUME tasks \in [Applications -> [Steps -> Seq(TaskRow)]],
         NEW a \in Applications, NEW s \in Steps, NEW n, NEW o,
         NEW b \in Applications, NEW t \in Steps, tasks[b][t] = << >>
  PROVE  [tasks EXCEPT ![a][s][n].outcome = o][b][t] = << >>
  <1> DEFINE u == [tasks[a][s] EXCEPT ![n].outcome = o]
  <1>1. [tasks EXCEPT ![a][s][n].outcome = o][b][t]
          = IF b = a /\ t = s THEN u ELSE tasks[b][t]
    OBVIOUS
  <1>2. CASE b = a /\ t = s
    <2>1. u = [i \in DOMAIN << >> |-> u[i]] /\ DOMAIN << >> = {}
      BY <1>2
    <2> HIDE DEF u
    <2>2. u = << >>
      BY <2>1
    <2> QED
      BY <1>1, <1>2, <2>2
  <1>3. CASE ~(b = a /\ t = s)
    BY <1>1, <1>3
  <1> QED
    BY <1>2, <1>3

\* Rewriting one task, or adding one, leaves lists of tasks.
LEMMA TaskUpdate ==
  ASSUME tasks \in [Applications -> [Steps -> Seq(TaskRow)]],
         NEW a \in Applications, NEW s \in Steps, NEW n \in Nat,
         NEW o \in {"pending", "endorse", "approve", "reject"}
  PROVE  [tasks EXCEPT ![a][s][n].outcome = o] \in [Applications -> [Steps -> Seq(TaskRow)]]
  <1>1. tasks[a][s] \in Seq(TaskRow)
    OBVIOUS
  <1>2. [tasks[a][s] EXCEPT ![n].outcome = o] \in Seq(TaskRow)
    <2> DEFINE t == tasks[a][s]
               u == [t EXCEPT ![n].outcome = o]
    <2>1. \A i \in DOMAIN t : t[i] \in TaskRow
      BY <1>1
    <2>2. \A i \in DOMAIN t : u[i] = IF i = n THEN [t[i] EXCEPT !.outcome = o] ELSE t[i]
      OBVIOUS
    <2>3. \A i \in DOMAIN t : u[i] \in TaskRow
      BY <2>1, <2>2 DEF TaskRow
    <2>4. DOMAIN t = 1 .. Len(t) /\ Len(t) \in Nat
      BY <1>1
    <2>5. u = [i \in DOMAIN t |-> u[i]]
      OBVIOUS
    <2> HIDE DEF u, t
    <2>6. u \in [1 .. Len(t) -> TaskRow]
      BY <2>3, <2>4, <2>5
    <2>7. u \in Seq(TaskRow)
      BY <2>4, <2>6
    <2> QED
      BY <2>7 DEF u, t
  <1> QED
    BY <1>2

LEMMA TaskAppend ==
  ASSUME TypeOK, NEW a \in Applications, NEW s \in Steps
  PROVE  /\ NewTask \in TaskRow
         /\ [tasks EXCEPT ![a][s] = Append(@, NewTask)] \in [Applications -> [Steps -> Seq(TaskRow)]]
  <1>1. NewTask \in TaskRow
    BY DEF TypeOK, NewTask, TaskRow
  <1>2. tasks[a][s] \in Seq(TaskRow)
    BY DEF TypeOK
  <1>3. Append(tasks[a][s], NewTask) \in Seq(TaskRow)
    BY <1>1, <1>2
  <1> QED
    BY <1>1, <1>3 DEF TypeOK

(***************************************************************************)
(* TypeInv is inductive                                                    *)
(***************************************************************************)
LEMMA TypeInit == Init => TypeInv
  <1> SUFFICES ASSUME Init PROVE TypeInv
    OBVIOUS
  <1>1. NoCall \in Call
    BY DEF NoCall, Call
  <1>2. TypeOK
    BY <1>1, ConfigurationTypes DEF Init, TypeOK, Closed, Labels, Steps, TaskRow
  <1>3. Wellformed
    BY NoneIsNoValue DEF Init, Wellformed, Shape, NoCall, AllEndpoints
  <1> QED
    BY <1>2, <1>3 DEF TypeInv
\* A request in flight keeps the types, action by action.
LEMMA StepInFlight ==
  ASSUME TypeInv, NEW r \in Requests, Continue(r)
  PROVE  TypeInv'
  <1> USE DEF TypeInv
  <1>a. Shape(r) /\ call[r] \in Call /\ NoCall \in Call
    BY DEF Wellformed, TypeOK, NoCall, Call
  <1>b. ASSUME NEW label \in Labels, Goto(r, label), TypeOK', Shape(r)'
        PROVE  TypeInv'
    BY <1>b, GotoFacts, OthersKeepShape DEF TypeOK
  <1>c. NoCall.ep \notin {"decide", "recommend", "decline"}
    BY NoneIsNoValue DEF NoCall, AllEndpoints
  <1>d. Labels = {"idle"} \union {"insert", "answers", "officeCheck", "takeTask", "sodCheck",
                  "save", "saveTask", "spawn", "existing", "insertTask", "finalSave"}
    BY DEF Labels
  <1>1. CASE InsertApplication(r)
    <2>1. PICK label \in Labels : Goto(r, label) /\ label = "answers" /\ pc[r] = "insert"
      BY <1>1, <1>a, <1>d DEF InsertApplication, Shape, Goto
    <2>2. TypeOK'
      BY <1>1, <1>a, <2>1, GotoFacts DEF InsertApplication, TypeOK, Shape, Call, rows, tenant
    <2>3. Shape(r)'
      BY <1>a, <1>c, <2>1, GotoFacts DEF TypeOK, Shape
    <2> QED
      BY <1>b, <2>1, <2>2, <2>3
  <1>2. CASE WriteAnswers(r)
    <2>1. PICK label \in Labels :
            /\ Goto(r, label) /\ label \in {"save", "spawn", "idle"}
            /\ pc[r] = "answers"
            /\ label = "spawn" => call[r].ep = "create"
            /\ label = "save" => call[r].ep = "update"
      <3>1. Goto(r, AfterAnswers(call[r]))
        BY <1>2 DEF WriteAnswers
      <3>2. PICK label \in Labels : label = AfterAnswers(call[r])
        BY <1>a, <1>d, <1>2 DEF AfterAnswers, WriteAnswers, Shape
      <3>3. Goto(r, label)
        BY <3>1, <3>2 DEF Goto
      <3> QED
        BY <1>2, <1>a, <3>2, <3>3 DEF AfterAnswers, WriteAnswers, Shape
    <2>2. TypeOK'
      BY <1>2, <1>a, <2>1, GotoFacts DEF WriteAnswers, TypeOK, Shape, Call, rows, tenant
    <2>3. Shape(r)'
      BY <1>a, <1>c, <2>1, GotoFacts DEF TypeOK, Shape
    <2> QED
      BY <1>b, <2>1, <2>2, <2>3
  <1>3. CASE FinalSave(r)
    <2>1. PICK label \in Labels : Goto(r, label) /\ label = "idle" /\ pc[r] = "finalSave"
      BY <1>3, <1>a, <1>d DEF FinalSave, Shape, Goto
    <2>2. TypeOK'
      BY <1>3, <1>a, <2>1, GotoFacts DEF FinalSave, TypeOK, Shape, Call, rows, tenant, Statuses
    <2>3. Shape(r)'
      BY <1>a, <1>c, <2>1, GotoFacts DEF TypeOK, Shape
    <2> QED
      BY <1>b, <2>1, <2>2, <2>3
  <1>4. CASE CheckSeparation(r)
    <2>1. PICK label \in Labels : Goto(r, label) /\ label \in {"idle", "save"} /\ pc[r] = "sodCheck"
      BY <1>4, <1>a, <1>d DEF CheckSeparation, Shape, Goto
    <2>2. TypeOK'
      BY <1>4, <1>a, <2>1, GotoFacts DEF CheckSeparation, TypeOK, Shape, Call, rows, tenant
    <2>3. Shape(r)'
      BY <1>a, <1>c, <2>1, GotoFacts DEF TypeOK, Shape
    <2> QED
      BY <1>b, <2>1, <2>2, <2>3
  <1>5. CASE SpawnCheckOffice(r)
    <2>1. PICK label \in Labels :
            /\ Goto(r, label) /\ label \in {"finalSave", "idle", "insertTask", "existing"}
            /\ pc[r] = "spawn"
            /\ label = "existing" => call[r].ep # "recommend"
      <3>1. Goto(r, AfterSpawnCheck(r))
        BY <1>5 DEF SpawnCheckOffice
      <3>2. PICK label \in Labels : label = AfterSpawnCheck(r)
        BY <1>a, <1>d, <1>5 DEF AfterSpawnCheck, SpawnCheckOffice, Shape, AfterSpawn
      <3>3. Goto(r, label)
        BY <3>1, <3>2 DEF Goto
      <3> QED
        BY <1>5, <1>a, <3>2, <3>3 DEF AfterSpawnCheck, SpawnCheckOffice, Shape, AfterSpawn
    <2>2. TypeOK'
      BY <1>5, <1>a, <2>1, GotoFacts DEF SpawnCheckOffice, TypeOK, Shape, Call, rows, tenant
    <2>3. Shape(r)'
      BY <1>a, <1>c, <2>1, GotoFacts DEF TypeOK, Shape
    <2> QED
      BY <1>b, <2>1, <2>2, <2>3
  <1>6. CASE SpawnExisting(r)
    <2>1. PICK label \in Labels :
            /\ Goto(r, label) /\ label \in {"finalSave", "idle", "insertTask"}
            /\ pc[r] = "existing"
      BY <1>6, <1>a, <1>d DEF SpawnExisting, Shape, Goto, AfterSpawn
    <2>2. TypeOK'
      BY <1>6, <1>a, <2>1, GotoFacts DEF SpawnExisting, TypeOK, Shape, Call, rows, tenant
    <2>3. Shape(r)'
      BY <1>a, <1>c, <2>1, GotoFacts DEF TypeOK, Shape
    <2> QED
      BY <1>b, <2>1, <2>2, <2>3
  <1>7. CASE SpawnInsert(r)
    <2>1. PICK label \in Labels :
            /\ Goto(r, label) /\ label \in {"finalSave", "idle"}
            /\ pc[r] = "insertTask"
      BY <1>7, <1>a, <1>d DEF SpawnInsert, Shape, Goto, AfterSpawn
    <2>2. TypeOK'
      <3>1. SpawnedStep(call[r].ep) \in Steps /\ call[r].app \in Applications
        BY <1>a, <2>1 DEF SpawnedStep, Steps, Shape
      <3>2. tasks' \in [Applications -> [Steps -> Seq(TaskRow)]]
        BY <1>7, <3>1, TaskAppend DEF SpawnInsert
      <3> QED
        BY <1>7, <2>1, <3>2, GotoFacts DEF SpawnInsert, TypeOK, tenant
    <2>3. Shape(r)'
      BY <1>a, <1>c, <2>1, GotoFacts DEF TypeOK, Shape
    <2> QED
      BY <1>b, <2>1, <2>2, <2>3
  <1>8. CASE SaveApplication(r)
    <2>1. PICK label \in Labels :
            /\ Goto(r, label) /\ label \in {"spawn", "idle", "saveTask"}
            /\ pc[r] = "save"
            /\ label = "spawn" => call[r].ep = "submit"
            /\ label = "saveTask" => call[r].ep \in {"recommend", "decline", "decide"}
      <3>1. Goto(r, AfterSave(call[r].ep))
        BY <1>8 DEF SaveApplication
      <3>2. PICK label \in Labels : label = AfterSave(call[r].ep)
        BY <1>a, <1>d, <1>8 DEF AfterSave, SaveApplication, Shape, Call, AllEndpoints
      <3>3. Goto(r, label)
        BY <3>1, <3>2 DEF Goto
      <3> QED
        BY <1>8, <1>a, <3>2, <3>3 DEF AfterSave, SaveApplication, Shape, Call, AllEndpoints
    <2>2. TypeOK'
      <3>1. trail' \in [Applications -> SUBSET [by : Users \union {None}, act : Acts]]
        <4>1. CASE call[r].ep \in {"recommend", "decline", "decide"}
          <5>1. ActOf(call[r]) \in Acts
            BY <1>a, <4>1 DEF ActOf, Acts, Shape
          <5>2. call[r].app \in Applications /\ call[r].actor \in Users \union {None}
            BY <1>a, <2>1 DEF Shape, Call
          <5> QED
            BY <1>8, <4>1, <5>1, <5>2, RecordFacts DEF SaveApplication, TypeOK
        <4>2. CASE call[r].ep \notin {"recommend", "decline", "decide"}
          BY <1>8, <4>2 DEF SaveApplication, TypeOK
        <4> QED
          BY <4>1, <4>2
      <3>2. status' \in [Applications -> Statuses \union {"none"}]
        BY <1>8, <1>a, <2>1 DEF SaveApplication, TypeOK, Shape
      <3> QED
        BY <1>8, <2>1, <3>1, <3>2, GotoFacts DEF SaveApplication, TypeOK, tenant
    <2>3. Shape(r)'
      BY <1>a, <1>c, <2>1, GotoFacts DEF TypeOK, Shape
    <2> QED
      BY <1>b, <2>1, <2>2, <2>3
  <1>9. CASE SaveTask(r)
    <2>1. PICK label \in Labels :
            /\ Goto(r, label) /\ label \in {"spawn", "idle"}
            /\ pc[r] = "saveTask"
            /\ label = "spawn" => call[r].ep = "recommend"
      BY <1>9, <1>a, <1>d DEF SaveTask, Shape, Goto
    <2>2. TypeOK'
      <3>1. /\ StepOf(call[r].ep) \in Steps /\ call[r].app \in Applications
            /\ call[r].actor \in Users \union {None} /\ call[r].task \in Nat
            /\ TaskOutcome(call[r]) \in {"pending", "endorse", "approve", "reject"}
        BY <1>a, <2>1 DEF StepOf, Steps, Shape, Call, TaskOutcome
      <3>2. tasks' \in [Applications -> [Steps -> Seq(TaskRow)]]
        BY <1>9, <3>1, TaskUpdate DEF SaveTask, TypeOK
      <3>3. trail' \in [Applications -> SUBSET [by : Users \union {None}, act : Acts]]
        <4>1. CASE call[r].ep = "recommend"
          <5>1. "endorsed" \in Acts
            BY DEF Acts
          <5> QED
            BY <1>9, <3>1, <4>1, <5>1, RecordFacts DEF SaveTask, TypeOK
        <4>2. CASE call[r].ep # "recommend"
          BY <1>9, <4>2 DEF SaveTask, TypeOK
        <4> QED
          BY <4>1, <4>2
      <3>4. evaluator' \in [Applications -> Users \union {None}]
        BY <1>9, <3>1 DEF SaveTask, TypeOK
      <3> QED
        BY <1>9, <2>1, <3>2, <3>3, <3>4, GotoFacts DEF SaveTask, TypeOK, tenant
    <2>3. Shape(r)'
      BY <1>a, <1>c, <2>1, GotoFacts DEF TypeOK, Shape
    <2> QED
      BY <1>b, <2>1, <2>2, <2>3
  <1>10. CASE CheckSubmittable(r)
    <2>1. CASE office.status = "active" /\ call[r].entity \in {"draft", "submitted"}
      <3> DEFINE c == [call[r] EXCEPT !.entity = "in_evaluation"]
      <3>1. c \in Call /\ c.ep = call[r].ep /\ c.app = call[r].app /\ c.entity = "in_evaluation"
        BY <1>a DEF Call, Statuses
      <3>2. Begin(r, "save", c) /\ pc[r] = "officeCheck"
        BY <1>10, <2>1 DEF CheckSubmittable
      <3> HIDE DEF c
      <3>3. PICK label \in Labels : label = "save"
        BY DEF Labels
      <3>4. /\ pc' \in [Requests -> Labels] /\ call' \in [Requests -> Call]
            /\ pc'[r] = "save" /\ call'[r] = c
            /\ \A q \in Requests \ {r} : pc'[q] = pc[q] /\ call'[q] = call[q]
        BY <3>1, <3>2, <1>d DEF Begin, TypeOK
      <3>5. TypeOK'
        BY <1>10, <3>4 DEF CheckSubmittable, TypeOK, rows, tenant
      <3>6. Shape(r)'
        BY <1>a, <3>1, <3>2, <3>4 DEF Shape, Statuses
      <3> QED
        BY <3>4, <3>5, <3>6, OthersKeepShape
    <2>2. CASE ~ (office.status = "active" /\ call[r].entity \in {"draft", "submitted"})
      <3>1. PICK label \in Labels : Goto(r, label) /\ label = "idle"
        BY <1>10, <1>d, <2>2 DEF CheckSubmittable
      <3>2. TypeOK'
        BY <1>10, <3>1, GotoFacts DEF CheckSubmittable, TypeOK, rows, tenant
      <3>3. Shape(r)'
        BY <1>c, <3>1, GotoFacts DEF TypeOK, Shape
      <3> QED
        BY <1>b, <3>1, <3>2, <3>3
    <2> QED
      BY <2>1, <2>2
  <1>11. CASE TakeTask(r)
    <2>1. PICK n \in DOMAIN tasks[call[r].app][StepOf(call[r].ep)] :
            Begin(r, IF call[r].ep = "decide" THEN "sodCheck" ELSE "save",
                  [call[r] EXCEPT !.task = n, !.since = 0])
      BY <1>11 DEF TakeTask
    <2>2. pc[r] = "takeTask" /\ UNCHANGED <<rows, tenant, trail>>
      BY <1>11 DEF TakeTask
    <2>3. n \in Nat
      BY <1>a, <2>2 DEF TypeOK, Shape, StepOf, Steps
    <2> DEFINE c == [call[r] EXCEPT !.task = n, !.since = 0]
    <2>4. /\ c \in Call /\ c.ep = call[r].ep /\ c.app = call[r].app
          /\ c.entity = call[r].entity
      BY <1>a, <2>3 DEF Call
    <2>5. PICK label \in {"sodCheck", "save"} :
            label = (IF call[r].ep = "decide" THEN "sodCheck" ELSE "save")
      OBVIOUS
    <2>6. Begin(r, label, c) /\ label \in Labels
      BY <1>d, <2>1, <2>5
    <2> HIDE DEF c
    <2>7. /\ pc' \in [Requests -> Labels] /\ call' \in [Requests -> Call]
          /\ pc'[r] = label /\ call'[r] = c
          /\ \A q \in Requests \ {r} : pc'[q] = pc[q] /\ call'[q] = call[q]
      BY <2>4, <2>6, BeginFacts DEF TypeOK
    <2>8. TypeOK'
      BY <2>2, <2>7 DEF TypeOK, rows, tenant
    <2>9. Shape(r)'
      BY <1>a, <2>2, <2>4, <2>5, <2>7 DEF Shape
    <2> QED
      BY <2>7, <2>8, <2>9, OthersKeepShape
  <1>12. CASE RefuseReview(r)
    <2>1. PICK label \in Labels : Goto(r, label) /\ label = "idle"
      BY <1>12, <1>d DEF RefuseReview
    <2>2. TypeOK'
      BY <1>12, <2>1, GotoFacts DEF RefuseReview, TypeOK, rows, tenant
    <2>3. Shape(r)'
      BY <1>c, <2>1, GotoFacts DEF TypeOK, Shape
    <2> QED
      BY <1>b, <2>1, <2>2, <2>3
  <1> QED
    BY <1>1, <1>2, <1>3, <1>4, <1>5, <1>6, <1>7, <1>8, <1>9, <1>10, <1>11, <1>12 DEF Continue

\* So does a request that begins.
LEMMA StepBegin ==
  ASSUME TypeInv, NEW r \in Requests, NEW a \in Applications,
         \/ Beneficiary(r, a)
         \/ \E u \in Users : Evaluate(r, a, u) \/ Approve(r, a, u)
  PROVE  TypeInv'
  <1> USE DEF TypeInv
  <1>1. ASSUME NEW label \in Labels, NEW c \in Call, Begin(r, label, c),
               pc[r] = "idle", UNCHANGED <<rows, tenant>>,
               UNCHANGED trail \/ trail' \in [Applications -> SUBSET [by : Users \union {None}, act : Acts]],
               c.app \in Applications, c.entity \in Statuses, c.ep \in AllEndpoints,
               label = "insert" => c.ep = "create" /\ c.entity \in {"draft", "submitted"},
               label = "answers" => c.ep = "update",
               label = "officeCheck" => c.ep = "submit",
               label = "takeTask" => c.ep \in {"recommend", "decline", "decide"},
               label = "save" => c.ep # "create",
               label \notin {"sodCheck", "saveTask", "spawn", "insertTask", "existing"},
               c.ep = "recommend" => c.entity = "in_approval",
               c.ep = "decline" => c.entity = "rejected",
               c.ep = "decide" => c.entity \in {"approved", "rejected"}
        PROVE  TypeInv'
    <2>1. TypeOK'
      BY <1>1, BeginFacts DEF TypeOK, rows, tenant
    <2>2. Shape(r)'
      BY <1>1, BeginFacts DEF TypeOK, Shape
    <2> QED
      BY <1>1, <2>1, <2>2, BeginFacts, OthersKeepShape DEF TypeOK
  <1>2. {"insert", "answers", "officeCheck", "takeTask", "save"} \subseteq Labels
    BY DEF Labels
  <1>3. ASSUME NEW form \in Payloads, NEW first \in {"draft", "submitted"},
               BeginCreate(r, a, form, first)
        PROVE  TypeInv'
    <2> DEFINE c == [NoCall EXCEPT !.ep = "create", !.app = a, !.entity = first, !.form = form]
    <2>1. /\ c \in Call /\ c.app = a /\ c.ep = "create" /\ c.entity = first
          /\ first \in Statuses
      BY DEF NoCall, Call, AllEndpoints, Statuses
    <2>2. Begin(r, "insert", c) /\ pc[r] = "idle" /\ UNCHANGED <<rows, tenant, trail>>
      BY <1>3 DEF BeginCreate, MayBegin
    <2> HIDE DEF c
    <2> QED
      BY <1>1, <1>2, <2>1, <2>2 DEF AllEndpoints
  <1>4. ASSUME NEW form \in Payloads \union {None}, NEW sent \in ClientStatuses \union {None},
               BeginUpdate(r, a, form, sent)
        PROVE  TypeInv'
    <2> DEFINE e == IF sent = None THEN status[a] ELSE sent
               l == IF form # None THEN "answers" ELSE "save"
               c == [NoCall EXCEPT !.ep = "update", !.app = a, !.form = form, !.entity = e]
    <2>1. e \in Statuses
      BY <1>4, ClientStatusesAssumption DEF BeginUpdate, TypeOK
    <2>2. c \in Call /\ c.app = a /\ c.ep = "update" /\ c.entity = e
      BY <2>1 DEF NoCall, Call, AllEndpoints
    <2>3. Begin(r, l, c) /\ pc[r] = "idle" /\ UNCHANGED <<rows, tenant>>
      BY <1>4 DEF BeginUpdate, MayBegin
    <2>7. trail' \in [Applications -> SUBSET [by : Users \union {None}, act : Acts]]
      <3>1. CASE sent = None
        BY <1>4, <3>1 DEF BeginUpdate, TypeOK
      <3>2. CASE sent # None
        <4>1. PICK x \in Acts : x = "patched"
          BY DEF Acts
        <4>2. Record(a, None, x)
          BY <1>4, <3>2, <4>1 DEF BeginUpdate
        <4> QED
          BY <4>2, RecordFacts DEF TypeOK
      <3> QED
        BY <3>1, <3>2
    <2>4. l \in {"answers", "save"}
      OBVIOUS
    <2> HIDE DEF c, e, l
    <2>5. PICK label \in Labels : label = l
      BY <1>2, <2>4
    <2>6. Begin(r, label, c)
      BY <2>3, <2>5
    <2> QED
      BY <1>1, <2>1, <2>2, <2>3, <2>4, <2>5, <2>6, <2>7 DEF AllEndpoints
  <1>5. CASE BeginSubmit(r, a)
    <2> DEFINE c == [NoCall EXCEPT !.ep = "submit", !.app = a, !.entity = status[a]]
    <2>1. status[a] \in Statuses
      BY <1>5 DEF BeginSubmit, TypeOK
    <2>2. c \in Call /\ c.app = a /\ c.ep = "submit" /\ c.entity = status[a]
      BY <2>1 DEF NoCall, Call, AllEndpoints
    <2>3. Begin(r, "officeCheck", c) /\ pc[r] = "idle" /\ UNCHANGED <<rows, tenant, trail>>
      BY <1>5 DEF BeginSubmit, MayBegin
    <2> HIDE DEF c
    <2> QED
      BY <1>1, <1>2, <2>1, <2>2, <2>3 DEF AllEndpoints
  <1>6. ASSUME NEW ep \in {"recommend", "decline", "decide"}, NEW u \in Users,
               NEW e \in {"in_approval", "approved", "rejected"},
               ep = "recommend" => e = "in_approval",
               ep = "decline" => e = "rejected",
               ep = "decide" => e # "in_approval",
               Begin(r, "takeTask", Review(ep, a, u, e)),
               pc[r] = "idle", UNCHANGED <<rows, tenant, trail>>
        PROVE  TypeInv'
    <2> DEFINE c == Review(ep, a, u, e)
    <2>1. ArchivedAt \in Nat
      BY DEF TypeOK, ArchivedAt
    <2>2. c \in Call /\ c.app = a /\ c.ep = ep /\ c.entity = e /\ e \in Statuses
      BY <1>6, <2>1 DEF Review, NoCall, Call, AllEndpoints, Statuses
    <2>3. ep \in AllEndpoints
      BY DEF AllEndpoints
    <2>4. Begin(r, "takeTask", c)
      BY <1>6
    <2> HIDE DEF c
    <2>5. PICK label \in Labels : label = "takeTask"
      BY <1>2
    <2>6. Begin(r, label, c)
      BY <2>4, <2>5
    <2> QED
      BY <1>1, <1>6, <2>2, <2>3, <2>5, <2>6
  <1>7. ASSUME NEW u \in Users, BeginRecommend(r, a, u) PROVE TypeInv'
    BY <1>6, <1>7 DEF BeginRecommend, MayBegin
  <1>8. ASSUME NEW u \in Users, BeginDecline(r, a, u) PROVE TypeInv'
    BY <1>6, <1>8 DEF BeginDecline, MayBegin
  <1>9. ASSUME NEW u \in Users, NEW verdict \in {"approved", "rejected"},
               BeginDecide(r, a, u, verdict)
        PROVE  TypeInv'
    BY <1>6, <1>9 DEF BeginDecide, MayBegin
  <1> QED
    BY <1>3, <1>4, <1>5, <1>7, <1>8, <1>9 DEF Beneficiary, Evaluate, Approve

\* The steps nobody's memory takes part in.
LEMMA StepElsewhere ==
  ASSUME TypeInv,
         \/ \E a \in Applications : Claim(a) \/ CooldownElapses(a)
         \/ Office
         \/ UNCHANGED vars
  PROVE  TypeInv'
  <1> USE DEF TypeInv
  <1>1. ASSUME UNCHANGED memory, TypeOK' PROVE TypeInv'
    BY <1>1 DEF memory, Wellformed, Shape
  <1>2. ASSUME NEW a \in Applications, Claim(a) PROVE TypeInv'
    <2>1. "claimed" \in Acts /\ "claimed" \in Statuses
      BY DEF Acts, Statuses
    <2>2. trail' \in [Applications -> SUBSET [by : Users \union {None}, act : Acts]]
      BY <1>2, <2>1, RecordFacts DEF Claim, TypeOK
    <2> QED
      BY <1>1, <1>2, <2>1, <2>2 DEF Claim, TypeOK, tenant, memory
  <1>3. ASSUME NEW a \in Applications, CooldownElapses(a) PROVE TypeInv'
    BY <1>1, <1>3 DEF CooldownElapses, TypeOK, tenant, memory
  <1>4. CASE ArchiveOffice
    <2>1. office' \in [status : {"active", "archived"}, archivals : Nat, reopenings : Nat]
      <3>1. office' = [office EXCEPT !.status = "archived", !.archivals = @ + 1]
        BY <1>4 DEF ArchiveOffice
      <3>2. office \in [status : {"active", "archived"}, archivals : Nat, reopenings : Nat]
        BY DEF TypeOK
      <3>3. office.archivals \in Nat /\ office.reopenings \in Nat
        BY <3>2
      <3>4. office' = [status |-> "archived",
                       archivals |-> office.archivals + 1,
                       reopenings |-> office.reopenings]
        BY <3>1, <3>2
      <3> QED
        BY <3>3, <3>4
    <2> QED
      BY <1>1, <1>4, <2>1 DEF ArchiveOffice, TypeOK, rows, memory
  <1>5. CASE ReactivateOffice
    BY <1>1, <1>5 DEF ReactivateOffice, Resumed, TypeOK, rows, memory
  <1>6. CASE CommitReactivation
    <2>1. ASSUME NEW a \in Applications, NEW s \in Steps
          PROVE  Append(tasks[a][s], NewTask) \in Seq(TaskRow) /\ tasks[a][s] \in Seq(TaskRow)
      BY TaskAppend DEF TypeOK
    <2>2. tasks' \in [Applications -> [Steps -> Seq(TaskRow)]]
      BY <1>6, <2>1 DEF CommitReactivation
    <2>3. office' \in [status : {"active", "archived"}, archivals : Nat, reopenings : Nat]
      <3>1. office' = [office EXCEPT !.status = "active", !.reopenings = @ + 1]
        BY <1>6 DEF CommitReactivation
      <3>2. office \in [status : {"active", "archived"}, archivals : Nat, reopenings : Nat]
        BY DEF TypeOK
      <3>3. office.archivals \in Nat /\ office.reopenings \in Nat
        BY <3>2
      <3>4. office' = [status |-> "active",
                       archivals |-> office.archivals,
                       reopenings |-> office.reopenings + 1]
        BY <3>1, <3>2
      <3> QED
        BY <3>3, <3>4
    <2>4. reopening' \in [open : BOOLEAN, inserted : SUBSET (Applications \X Steps)]
      BY <1>6 DEF CommitReactivation, Closed
    <2> QED
      BY <1>1, <1>6, <2>2, <2>3, <2>4 DEF CommitReactivation, TypeOK, memory
  <1>7. CASE RollBackReactivation
    BY <1>1, <1>7 DEF RollBackReactivation, Closed, TypeOK, rows, memory
  <1>8. CASE UNCHANGED vars
    BY <1>1, <1>8 DEF vars, rows, tenant, memory, TypeOK
  <1> QED
    BY <1>2, <1>3, <1>4, <1>5, <1>6, <1>7, <1>8 DEF Office

LEMMA StepDrop ==
  ASSUME TypeInv, NEW r \in Requests, Drop(r)
  PROVE  TypeInv'
  <1> USE DEF TypeInv
  <1>1. PICK label \in Labels : Goto(r, label) /\ label = "idle"
    BY DEF Drop, Labels
  <1>2. NoCall.ep \notin {"decide", "recommend", "decline"}
    BY NoneIsNoValue DEF NoCall, AllEndpoints
  <1>3. TypeOK'
    BY <1>1, GotoFacts DEF Drop, TypeOK, rows, tenant
  <1>4. Shape(r)'
    BY <1>1, <1>2, GotoFacts DEF TypeOK, Shape
  <1> QED
    BY <1>1, <1>3, <1>4, GotoFacts, OthersKeepShape DEF TypeOK

LEMMA TypeStep == TypeInv /\ [Next]_vars => TypeInv'
  BY StepInFlight, StepBegin, StepElsewhere, StepDrop DEF Next

\* Every variable keeps its type: the applications row never holds a status the
\* CHECK constraint of its table refuses, whatever a stale entity writes back.
THEOREM TypeCorrect == Spec => []TypeOK
  <1>1. TypeInv => TypeOK
    BY DEF TypeInv
  <1> QED
    BY <1>1, TypeInit, TypeStep, PTL DEF Spec
(***************************************************************************)
(* Provenance is inductive                                                  *)
(***************************************************************************)

\* History as far as a step that may add "act", or nothing, can change it.
Grows(acts) ==
  \A b \in Applications, x \in Acts :
    (Did(b, x) => Did(b, x)') /\ (Did(b, x)' => Did(b, x) \/ x \in acts)

LEMMA SameTrail == ASSUME UNCHANGED trail PROVE Grows({})
  BY DEF Grows, Did

LEMMA KnownGrows ==
  ASSUME NEW acts, Grows(acts), NEW a \in Applications
  PROVE  \A x \in {"forwarded", "approved"} : Known(a, x) => Known(a, x)'
  BY DEF Grows, Known, Patched, Acts

\* Nobody's knowledge is lost while history only grows.
LEMMA OthersKnow ==
  ASSUME TypeInv, Provenance, NEW r \in Requests, CallKnown(r)', NEW acts, Grows(acts),
         \A q \in Requests \ {r} : pc'[q] = pc[q] /\ call'[q] = call[q]
  PROVE  \A q \in Requests : CallKnown(q)'
  <1> SUFFICES ASSUME NEW q \in Requests, q # r PROVE CallKnown(q)'
    OBVIOUS
  <1>1. CallKnown(q) /\ (pc[q] # "idle" => call[q].app \in Applications)
    BY DEF Provenance, TypeInv, Wellformed, Shape
  <1>2. pc'[q] = pc[q] /\ call'[q] = call[q]
    OBVIOUS
  <1>3. pc[q] # "idle" =>
          /\ Known(call[q].app, "forwarded") => Known(call[q].app, "forwarded")'
          /\ Known(call[q].app, "approved") => Known(call[q].app, "approved")'
    <2>1. {"forwarded", "approved", "patched"} \subseteq Acts
      BY DEF Acts
    <2>2. ASSUME pc[q] # "idle", NEW x \in Acts, Did(call[q].app, x)
          PROVE  Did(call[q].app, x)'
      <3>1. PICK a \in Applications : a = call[q].app /\ a = call'[q].app
        BY <1>1, <1>2, <2>2
      <3>2. Did(a, x)'
        BY <2>2, <3>1 DEF Grows
      <3> QED
        BY <3>1, <3>2 DEF Did
    <2> QED
      BY <2>1, <2>2 DEF Known, Patched
  <1> QED
    BY <1>1, <1>2, <1>3 DEF CallKnown, Carries, Forwards, Grants, Known, Patched, Did

\* The rows a step leaves alone stay known.
LEMMA RowsKnown ==
  ASSUME Provenance, NEW acts, Grows(acts), "claimed" \notin acts,
         NEW a \in Applications,
         status'[a] \in BeyondEvaluation => status[a] \in BeyondEvaluation \/ Known(a, "forwarded")',
         status'[a] \in Granted => status[a] \in Granted \/ Known(a, "approved")',
         tasks'[a]["approval"] # << >> => tasks[a]["approval"] # << >> \/ Known(a, "forwarded")',
         <<a, "approval">> \in reopening'.inserted =>
            <<a, "approval">> \in reopening.inserted \/ Known(a, "forwarded")'
  PROVE  RowKnown(a)'
  <1>1. {"forwarded", "approved", "claimed"} \subseteq Acts
    BY DEF Acts
  <1>2. RowKnown(a)
    BY DEF Provenance
  <1>3. \A x \in {"forwarded", "approved"} : Known(a, x) => Known(a, x)'
    BY KnownGrows
  <1>4. Did(a, "claimed")' => Did(a, "claimed")
    BY <1>1 DEF Grows
  <1> QED
    BY <1>2, <1>3, <1>4 DEF RowKnown

\* A request in flight adds to history only what its write earned.
LEMMA ProvenanceInFlight ==
  ASSUME Inv, NEW r \in Requests, Continue(r)
  PROVE  Provenance'
  <1> USE DEF Inv
  <1>a. /\ Shape(r) /\ CallKnown(r) /\ NoCall.ep # "decide" /\ NoCall.ep # "recommend"
        /\ pc \in [Requests -> Labels] /\ call \in [Requests -> Call]
        /\ {"forwarded", "approved"} \subseteq Acts
    BY NoneIsNoValue DEF TypeInv, TypeOK, Wellformed, Provenance, NoCall, AllEndpoints, Acts
  <1>b. ASSUME NEW label \in Labels, Goto(r, label), CallKnown(r)',
               NEW acts, Grows(acts), "claimed" \notin acts,
               \A a \in Applications : RowKnown(a)'
        PROVE  Provenance'
    BY <1>a, <1>b, GotoFacts, OthersKnow DEF Provenance
  <1>c. ASSUME UNCHANGED <<rows, tenant, trail>>, NEW a \in Applications
        PROVE  RowKnown(a)'
    BY <1>c DEF Provenance, RowKnown, rows, tenant, Known, Patched, Did
  <1>d. Labels = {"idle"} \union {"insert", "answers", "officeCheck", "takeTask", "sodCheck",
                  "save", "saveTask", "spawn", "existing", "insertTask", "finalSave"}
    BY DEF Labels
  <1>1. CASE InsertApplication(r)
    <2>1. PICK label \in Labels : Goto(r, label) /\ label = "answers" /\ pc[r] = "insert"
      BY <1>1, <1>a, <1>d DEF InsertApplication, Shape, Goto
    <2>2. UNCHANGED trail /\ Grows({})
      BY <1>1, SameTrail DEF InsertApplication, tenant
    <2>3. \A a \in Applications : RowKnown(a)'
      BY <1>1, <1>a, <2>1, <2>2, RowsKnown DEF InsertApplication, TypeInv, TypeOK, Shape, rows, tenant, BeyondEvaluation, Granted
    <2>4. CallKnown(r)'
      BY <1>a, <2>1, <2>2, GotoFacts DEF CallKnown, Carries, Forwards, Grants, Shape, Known, Patched, Did, BeyondEvaluation, Granted
    <2> QED
      BY <1>b, <2>1, <2>2, <2>3, <2>4
  <1>2. CASE WriteAnswers(r)
    <2>1. PICK label \in Labels :
            /\ Goto(r, label) /\ label \in {"save", "spawn", "idle"}
            /\ pc[r] = "answers"
            /\ label = "spawn" => call[r].ep = "create"
      <3>1. Goto(r, AfterAnswers(call[r]))
        BY <1>2 DEF WriteAnswers
      <3>2. PICK label \in Labels : label = AfterAnswers(call[r])
        BY <1>a, <1>d DEF AfterAnswers
      <3>3. Goto(r, label)
        BY <3>1, <3>2 DEF Goto
      <3> QED
        BY <1>2, <1>a, <3>2, <3>3 DEF AfterAnswers, WriteAnswers, Shape
    <2>2. UNCHANGED trail /\ Grows({})
      BY <1>2, SameTrail DEF WriteAnswers, tenant
    <2>3. \A a \in Applications : RowKnown(a)'
      BY <1>2, <1>a, <2>1, <2>2, RowsKnown DEF WriteAnswers, TypeInv, TypeOK, Shape, rows, tenant
    <2>4. CallKnown(r)'
      BY <1>a, <2>1, <2>2, GotoFacts DEF CallKnown, Carries, Forwards, Grants, Shape, Known, Patched, Did, BeyondEvaluation, Granted
    <2> QED
      BY <1>b, <2>1, <2>2, <2>3, <2>4
  <1>3. CASE FinalSave(r)
    <2>1. PICK label \in Labels : Goto(r, label) /\ label = "idle" /\ pc[r] = "finalSave"
      BY <1>3, <1>a, <1>d DEF FinalSave, Shape, Goto
    <2>2. UNCHANGED trail /\ Grows({})
      BY <1>3, SameTrail DEF FinalSave, tenant
    <2>3. \A a \in Applications : RowKnown(a)'
      BY <1>3, <1>a, <2>1, <2>2, RowsKnown DEF FinalSave, TypeInv, TypeOK, Shape, rows, tenant, BeyondEvaluation, Granted
    <2>4. CallKnown(r)'
      BY <1>a, <2>1, <2>2, GotoFacts DEF CallKnown, Carries, Forwards, Grants, Shape, Known, Patched, Did
    <2> QED
      BY <1>b, <2>1, <2>2, <2>3, <2>4
  <1>4. CASE CheckSeparation(r)
    <2>1. PICK label \in Labels : Goto(r, label) /\ label \in {"idle", "save"} /\ pc[r] = "sodCheck"
      BY <1>4, <1>a, <1>d DEF CheckSeparation, Shape, Goto
    <2>2. UNCHANGED trail /\ Grows({})
      BY <1>4, SameTrail DEF CheckSeparation, tenant
    <2>3. \A a \in Applications : RowKnown(a)'
      BY <1>4, <1>c DEF CheckSeparation
    <2>4. CallKnown(r)'
      BY <1>a, <2>1, <2>2, GotoFacts DEF CallKnown, Carries, Forwards, Grants, Shape, Known, Patched, Did
    <2> QED
      BY <1>b, <2>1, <2>2, <2>3, <2>4
  <1>5. CASE SpawnCheckOffice(r)
    <2>1. PICK label \in Labels :
            /\ Goto(r, label) /\ label \in {"finalSave", "idle", "insertTask", "existing"}
            /\ pc[r] = "spawn"
      BY <1>5, <1>a, <1>d DEF SpawnCheckOffice, AfterSpawnCheck, AfterSpawn, Shape, Goto
    <2>2. UNCHANGED trail /\ Grows({})
      BY <1>5, SameTrail DEF SpawnCheckOffice, tenant
    <2>3. \A a \in Applications : RowKnown(a)'
      BY <1>5, <1>c DEF SpawnCheckOffice
    <2>4. CallKnown(r)'
      BY <1>a, <2>1, <2>2, GotoFacts DEF CallKnown, Carries, Forwards, Grants, Shape, Known, Patched, Did
    <2> QED
      BY <1>b, <2>1, <2>2, <2>3, <2>4
  <1>6. CASE SpawnExisting(r)
    <2>1. PICK label \in Labels :
            /\ Goto(r, label) /\ label \in {"finalSave", "idle", "insertTask"}
            /\ pc[r] = "existing"
      BY <1>6, <1>a, <1>d DEF SpawnExisting, Shape, Goto, AfterSpawn
    <2>2. UNCHANGED trail /\ Grows({})
      BY <1>6, SameTrail DEF SpawnExisting, tenant
    <2>3. \A a \in Applications : RowKnown(a)'
      BY <1>6, <1>c DEF SpawnExisting
    <2>4. CallKnown(r)'
      BY <1>a, <2>1, <2>2, GotoFacts DEF CallKnown, Carries, Forwards, Grants, Shape, Known, Patched, Did
    <2> QED
      BY <1>b, <2>1, <2>2, <2>3, <2>4
  <1>7. CASE SpawnInsert(r)
    <2>1. PICK label \in Labels :
            /\ Goto(r, label) /\ label \in {"finalSave", "idle"}
            /\ pc[r] = "insertTask"
      BY <1>7, <1>a, <1>d DEF SpawnInsert, Shape, Goto, AfterSpawn
    <2>2. UNCHANGED trail /\ Grows({})
      BY <1>7, SameTrail DEF SpawnInsert, tenant
    <2>3. \A a \in Applications : RowKnown(a)'
      <3>1. ASSUME NEW a \in Applications, tasks'[a]["approval"] # tasks[a]["approval"]
            PROVE  Known(a, "forwarded")'
        <4>1. a = call[r].app /\ call[r].ep = "recommend"
          BY <1>7, <1>a, <2>1, <3>1 DEF SpawnInsert, SpawnedStep, Shape, TypeInv, TypeOK, Steps
        <4> QED
          BY <1>a, <2>1, <2>2, <4>1 DEF CallKnown, Known, Patched, Did
      <3> QED
        BY <1>7, <2>2, <3>1, RowsKnown DEF SpawnInsert, tenant
    <2>4. CallKnown(r)'
      BY <1>a, <2>1, <2>2, GotoFacts DEF CallKnown, Carries, Forwards, Grants, Shape, Known, Patched, Did
    <2> QED
      BY <1>b, <2>1, <2>2, <2>3, <2>4
  <1>8. CASE SaveApplication(r)
    <2>1. PICK label \in Labels :
            /\ Goto(r, label) /\ label \in {"spawn", "idle", "saveTask"}
            /\ label = "spawn" => call[r].ep = "submit"
      <3>1. Goto(r, AfterSave(call[r].ep))
        BY <1>8 DEF SaveApplication
      <3>2. PICK label \in Labels : label = AfterSave(call[r].ep)
        BY <1>a, <1>d, <1>8 DEF AfterSave, SaveApplication, Shape, AllEndpoints
      <3>3. Goto(r, label)
        BY <3>1, <3>2 DEF Goto
      <3> QED
        BY <1>8, <1>a, <3>2, <3>3 DEF AfterSave, SaveApplication, Shape, AllEndpoints
    <2>2. PICK a \in Applications, v \in Statuses : a = call[r].app /\ v = call[r].entity
      BY <1>8, <1>a DEF SaveApplication, Shape
    <2>3. PICK acts \in SUBSET (Acts \ {"claimed"}) :
            /\ Grows(acts)
            /\ call[r].ep = "recommend" => Did(a, "forwarded")'
            /\ call[r].ep = "decide" /\ v = "approved" => Did(a, "approved")'
      <3>1. CASE call[r].ep \in {"recommend", "decline", "decide"}
        <4>1. PICK x \in Acts \ {"claimed"} : x = ActOf(call[r])
          BY <1>a, <3>1 DEF ActOf, Acts, Shape
        <4>2. call[r].actor \in Users \union {None}
          BY <1>a DEF Call
        <4>3. Record(a, call[r].actor, x)
          BY <1>8, <2>2, <3>1, <4>1 DEF SaveApplication, Record
        <4>trail. trail \in [Applications -> SUBSET [by : Users \union {None}, act : Acts]]
          BY DEF TypeInv, TypeOK
        <4>did. Did(a, x)' /\ \A b \in Applications, y \in Acts :
                 (Did(b, y) => Did(b, y)') /\ (Did(b, y)' => Did(b, y) \/ y = x)
          BY <4>1, <4>2, <4>3, <4>trail, RecordFacts
        <4>4. Did(a, x)' /\ Grows({x})
          BY <4>did DEF Grows
        <4>5. call[r].ep = "recommend" => x = "forwarded"
          BY <4>1 DEF ActOf
        <4>6. call[r].ep = "decide" => x = v
          BY <2>2, <4>1 DEF ActOf
        <4> QED
          BY <4>4, <4>5, <4>6
      <3>2. CASE call[r].ep \notin {"recommend", "decline", "decide"}
        BY <1>8, <3>2, SameTrail DEF SaveApplication
      <3> QED
        BY <3>1, <3>2
    <2>4. /\ v \in BeyondEvaluation => Known(a, "forwarded")'
          /\ v \in Granted => Known(a, "approved")'
          /\ call[r].ep = "decide" => Known(a, "forwarded")'
      <3>1. \A x \in {"forwarded", "approved"} :
              (Known(a, x) => Known(a, x)') /\ (Did(a, x)' => Known(a, x)')
        BY <2>3, KnownGrows DEF Known
      <3>2. pc[r] = "save"
        BY <1>8 DEF SaveApplication
      <3>3. v \in BeyondEvaluation => Known(a, "forwarded")'
        BY <1>a, <2>2, <2>3, <3>1, <3>2 DEF CallKnown, Carries, Forwards
      <3>4. v \in Granted => Known(a, "approved")'
        BY <1>a, <2>2, <2>3, <3>1, <3>2 DEF CallKnown, Carries, Grants, Shape, Granted
      <3> QED
        BY <1>a, <2>2, <3>1, <3>2, <3>3, <3>4 DEF CallKnown
    <2>5. \A b \in Applications : RowKnown(b)'
      <3> SUFFICES ASSUME NEW b \in Applications PROVE RowKnown(b)'
        OBVIOUS
      <3>1. /\ UNCHANGED <<tasks, reopening>>
            /\ status'[b] = IF b = a THEN v ELSE status[b]
        BY <1>8, <2>2 DEF SaveApplication, TypeInv, TypeOK, tenant
      <3> QED
        BY <2>3, <2>4, <3>1, RowsKnown
    <2>6. CallKnown(r)'
      BY <1>a, <2>1, <2>2, <2>3, <2>4, GotoFacts DEF CallKnown, Carries, Known, Patched, Did
    <2> QED
      BY <1>b, <2>1, <2>3, <2>5, <2>6
  <1>9. CASE SaveTask(r)
    <2>1. PICK label \in Labels :
            /\ Goto(r, label) /\ label \in {"spawn", "idle"} /\ pc[r] = "saveTask"
      BY <1>9, <1>a, <1>d DEF SaveTask, Shape
    <2>2. PICK a \in Applications : a = call[r].app
      BY <1>a, <2>1 DEF Shape
    <2>3. Grows({"endorsed"})
      <3>1. CASE call[r].ep = "recommend"
        <4>1. PICK x \in Acts : x = "endorsed"
          BY DEF Acts
        <4>2. call[r].actor \in Users \union {None}
          BY <1>a DEF Call
        <4>3. Record(a, call[r].actor, x)
          BY <1>9, <2>2, <3>1, <4>1 DEF SaveTask, Record
        <4>4. Grows({x})
          BY <4>2, <4>3, RecordFacts DEF TypeInv, TypeOK, Grows
        <4> QED
          BY <4>1, <4>4
      <3>2. CASE call[r].ep # "recommend"
        BY <1>9, <3>2, SameTrail DEF SaveTask, Grows
      <3> QED
        BY <3>1, <3>2
    <2>4. ASSUME NEW b \in Applications PROVE RowKnown(b)'
      <3>1. tasks'[b]["approval"] # << >> => tasks[b]["approval"] # << >>
        <4>1. "approval" \in Steps /\ StepOf(call[r].ep) \in Steps
          BY DEF StepOf, Steps
        <4>2. tasks' = [tasks EXCEPT ![a][StepOf(call[r].ep)][call[r].task].outcome
                                       = TaskOutcome(call[r])]
          BY <1>9, <2>2 DEF SaveTask
        <4> QED
          BY <4>1, <4>2, RewriteMakesNone DEF TypeInv, TypeOK
      <3>2. UNCHANGED <<status, reopening>>
        BY <1>9 DEF SaveTask, tenant
      <3> QED
        BY <2>3, <3>1, <3>2, RowsKnown
    <2>5. CallKnown(r)'
      <3>1. Known(a, "forwarded") => Known(a, "forwarded")'
        BY <2>3, KnownGrows
      <3> QED
        BY <1>a, <2>1, <2>2, <3>1, GotoFacts DEF CallKnown, Carries, Known, Patched, Did
    <2> QED
      BY <1>b, <2>1, <2>3, <2>4, <2>5
  <1>10. CASE CheckSubmittable(r)
    <2>1. /\ pc[r] = "officeCheck" /\ call[r].ep = "submit" /\ UNCHANGED <<rows, tenant, trail>>
      BY <1>10, <1>a DEF CheckSubmittable, Shape
    <2>2. Grows({}) /\ \A a \in Applications : RowKnown(a)'
      BY <1>c, <2>1, SameTrail
    <2>3. /\ \A q \in Requests \ {r} : pc'[q] = pc[q] /\ call'[q] = call[q]
          /\ CallKnown(r)'
      <3>1. CASE office.status = "active" /\ call[r].entity \in {"draft", "submitted"}
        <4> DEFINE c == [call[r] EXCEPT !.entity = "in_evaluation"]
        <4>1. c.ep = "submit" /\ c.entity = "in_evaluation"
          BY <1>a, <2>1 DEF Call
        <4>2. Begin(r, "save", c)
          BY <1>10, <3>1 DEF CheckSubmittable
        <4> HIDE DEF c
        <4> QED
          BY <1>a, <4>1, <4>2 DEF Begin, CallKnown, Carries, BeyondEvaluation, Granted
      <3>2. CASE ~ (office.status = "active" /\ call[r].entity \in {"draft", "submitted"})
        <4>1. Goto(r, "idle") /\ "idle" \in Labels
          BY <1>10, <1>d, <3>2 DEF CheckSubmittable
        <4> QED
          BY <1>a, <4>1, GotoFacts DEF CallKnown, Carries
      <3> QED
        BY <3>1, <3>2
    <2> QED
      BY <2>2, <2>3, OthersKnow DEF Provenance
  <1>11. CASE TakeTask(r)
    <2>1. PICK n \in DOMAIN tasks[call[r].app][StepOf(call[r].ep)] :
            Begin(r, IF call[r].ep = "decide" THEN "sodCheck" ELSE "save",
                  [call[r] EXCEPT !.task = n, !.since = 0])
      BY <1>11 DEF TakeTask
    <2>2. pc[r] = "takeTask" /\ UNCHANGED <<rows, tenant, trail>>
      BY <1>11 DEF TakeTask
    <2>3. Grows({}) /\ \A a \in Applications : RowKnown(a)'
      BY <1>c, <2>2, SameTrail
    <2>4. PICK a \in Applications : a = call[r].app
      BY <1>a, <2>2 DEF Shape
    <2>5. ASSUME call[r].ep = "decide" PROVE Known(a, "forwarded")
      <3>1. n \in DOMAIN tasks[a]["approval"]
        BY <2>1, <2>4, <2>5 DEF StepOf
      <3>2. tasks[a]["approval"] # << >>
        BY <3>1
      <3> QED
        BY <3>2 DEF Provenance, RowKnown
    <2> DEFINE c == [call[r] EXCEPT !.task = n, !.since = 0]
    <2>6. c.ep = call[r].ep /\ c.app = a /\ c.entity = call[r].entity
      BY <1>a, <2>4 DEF Call
    <2>7. PICK label \in {"sodCheck", "save"} :
            label = (IF call[r].ep = "decide" THEN "sodCheck" ELSE "save")
      OBVIOUS
    <2>8. Begin(r, label, c)
      BY <2>1, <2>7
    <2> HIDE DEF c
    <2>9. /\ pc'[r] = label /\ call'[r] = c
          /\ \A q \in Requests \ {r} : pc'[q] = pc[q] /\ call'[q] = call[q]
      BY <1>a, <2>8 DEF Begin
    <2>10. CallKnown(r)'
      BY <1>a, <2>2, <2>5, <2>6, <2>7, <2>9
         DEF CallKnown, Carries, Forwards, Grants, Shape, Known, Patched, Did, BeyondEvaluation, Granted
    <2> QED
      BY <2>3, <2>9, <2>10, OthersKnow DEF Provenance
  <1>12. CASE RefuseReview(r)
    <2>1. PICK label \in Labels : Goto(r, label) /\ label = "idle"
      BY <1>12, <1>d DEF RefuseReview
    <2>2. UNCHANGED <<rows, tenant, trail>>
      BY <1>12 DEF RefuseReview
    <2>3. Grows({}) /\ \A a \in Applications : RowKnown(a)'
      BY <1>c, <2>2, SameTrail
    <2>4. CallKnown(r)'
      BY <1>a, <2>1, GotoFacts DEF CallKnown, Carries
    <2> QED
      BY <1>b, <2>1, <2>3, <2>4
  <1> QED
    BY <1>1, <1>2, <1>3, <1>4, <1>5, <1>6, <1>7, <1>8, <1>9, <1>10, <1>11, <1>12 DEF Continue

\* A request that begins on what it read knows where that came from.
LEMMA ProvenanceBegin ==
  ASSUME Inv, NEW r \in Requests, NEW a \in Applications,
         \/ Beneficiary(r, a)
         \/ \E u \in Users : Evaluate(r, a, u) \/ Approve(r, a, u)
  PROVE  Provenance'
  <1> USE DEF Inv
  <1>a. /\ pc \in [Requests -> Labels] /\ call \in [Requests -> Call] /\ RowKnown(a)
    BY DEF TypeInv, TypeOK, Provenance
  <1>1. ASSUME NEW label, NEW c, Begin(r, label, c), UNCHANGED <<rows, tenant, trail>>, c.app = a,
               label \in {"insert", "answers", "save"} /\ c.entity \in BeyondEvaluation
                 => (c.ep = "recommend" /\ label = "save") \/ Known(a, "forwarded"),
               label \in {"insert", "answers", "save"} /\ c.entity \in Granted
                 => c.ep = "decide" \/ Known(a, "approved"),
               c.ep = "decide" => label = "takeTask",
               label \notin {"saveTask", "spawn", "insertTask"}
        PROVE  Provenance'
    <2>1. /\ pc'[r] = label /\ call'[r] = c
          /\ \A q \in Requests \ {r} : pc'[q] = pc[q] /\ call'[q] = call[q]
      BY <1>1, <1>a DEF Begin
    <2>2. CallKnown(r)'
      BY <1>1, <2>1 DEF CallKnown, Carries, Forwards, Grants, Known, Patched, Did
    <2>3. \A b \in Applications : RowKnown(b)'
      BY <1>1 DEF Provenance, RowKnown, rows, tenant, Known, Patched, Did
    <2> QED
      BY <1>1, <2>1, <2>2, <2>3, SameTrail, OthersKnow DEF Provenance
  <1>3. ASSUME NEW form \in Payloads, NEW first \in {"draft", "submitted"},
               BeginCreate(r, a, form, first)
        PROVE  Provenance'
    <2> DEFINE c == [NoCall EXCEPT !.ep = "create", !.app = a, !.entity = first, !.form = form]
    <2>1. c.app = a /\ c.ep = "create" /\ c.entity = first
      BY DEF NoCall
    <2>2. Begin(r, "insert", c) /\ UNCHANGED <<rows, tenant, trail>>
      BY <1>3 DEF BeginCreate
    <2> HIDE DEF c
    <2> QED
      BY <1>1, <2>1, <2>2 DEF BeyondEvaluation, Granted
  <1>4. ASSUME NEW form \in Payloads \union {None}, NEW sent \in ClientStatuses \union {None},
               BeginUpdate(r, a, form, sent)
        PROVE  Provenance'
    <2> DEFINE e == IF sent = None THEN status[a] ELSE sent
               l == IF form # None THEN "answers" ELSE "save"
               c == [NoCall EXCEPT !.ep = "update", !.app = a, !.form = form, !.entity = e]
    <2>1. c.app = a /\ c.ep = "update" /\ c.entity = e
      BY DEF NoCall
    <2>2. Begin(r, l, c) /\ UNCHANGED <<rows, tenant>> /\ l \in {"answers", "save"}
      BY <1>4 DEF BeginUpdate
    <2>3. CASE sent = None
      <3>1. UNCHANGED trail
        BY <1>4, <2>3 DEF BeginUpdate
      <3>2. /\ e \in BeyondEvaluation => Known(a, "forwarded")
            /\ e \in Granted => Known(a, "approved")
        BY <1>a, <2>3 DEF RowKnown
      <3> HIDE DEF c, e, l
      <3>3. PICK label, d : label = l /\ d = c
        OBVIOUS
      <3>4. Begin(r, label, d)
        BY <2>2, <3>3
      <3> QED
        BY <1>1, <2>1, <2>2, <3>1, <3>2, <3>3, <3>4
    <2>4. CASE sent # None
      <3>1. PICK x \in Acts : x = "patched"
        BY DEF Acts
      <3>2. Record(a, None, x)
        BY <1>4, <2>4, <3>1 DEF BeginUpdate
      <3>3. Did(a, x)' /\ Grows({x})
        BY <3>2, RecordFacts DEF TypeInv, TypeOK, Grows
      <3>4. Patched(a)'
        BY <3>1, <3>3 DEF Patched
      <3> HIDE DEF c, e, l
      <3>5. PICK label, d : label = l /\ d = c
        OBVIOUS
      <3>6. Begin(r, label, d)
        BY <2>2, <3>5
      <3>7. /\ pc'[r] = label /\ call'[r] = d
            /\ \A q \in Requests \ {r} : pc'[q] = pc[q] /\ call'[q] = call[q]
        BY <1>a, <3>6 DEF Begin
      <3>8. CallKnown(r)'
        BY <2>1, <3>4, <3>5, <3>7 DEF CallKnown, Known, Patched, Did
      <3>9. \A b \in Applications : RowKnown(b)'
        BY <2>2, <3>1, <3>3, RowsKnown DEF rows, tenant
      <3> QED
        BY <3>3, <3>7, <3>8, <3>9, OthersKnow DEF Provenance
    <2> QED
      BY <2>3, <2>4
  <1>5. CASE BeginSubmit(r, a)
    <2> DEFINE c == [NoCall EXCEPT !.ep = "submit", !.app = a, !.entity = status[a]]
    <2>1. c.app = a /\ c.ep = "submit"
      BY DEF NoCall
    <2>2. Begin(r, "officeCheck", c) /\ UNCHANGED <<rows, tenant, trail>>
      BY <1>5 DEF BeginSubmit
    <2> HIDE DEF c
    <2>3. PICK d : d = c
      OBVIOUS
    <2>4. Begin(r, "officeCheck", d)
      BY <2>2, <2>3
    <2> QED
      BY <1>1, <2>1, <2>2, <2>3, <2>4
  <1>6. ASSUME NEW ep, NEW u, NEW e, Begin(r, "takeTask", Review(ep, a, u, e)),
               UNCHANGED <<rows, tenant, trail>>
        PROVE  Provenance'
    <2>1. Review(ep, a, u, e).app = a
      BY DEF Review, NoCall
    <2>2. PICK label, c : label = "takeTask" /\ c = Review(ep, a, u, e)
      OBVIOUS
    <2>3. Begin(r, label, c)
      BY <1>6, <2>2
    <2> QED
      BY <1>1, <1>6, <2>1, <2>2, <2>3
  <1>7. ASSUME NEW u \in Users, BeginRecommend(r, a, u) PROVE Provenance'
    BY <1>6, <1>7 DEF BeginRecommend
  <1>8. ASSUME NEW u \in Users, BeginDecline(r, a, u) PROVE Provenance'
    BY <1>6, <1>8 DEF BeginDecline
  <1>9. ASSUME NEW u \in Users, NEW verdict \in {"approved", "rejected"},
               BeginDecide(r, a, u, verdict)
        PROVE  Provenance'
    BY <1>6, <1>9 DEF BeginDecide
  <1> QED
    BY <1>3, <1>4, <1>5, <1>7, <1>8, <1>9 DEF Beneficiary, Evaluate, Approve

\* The steps of disbursement, of time and of the office.
LEMMA ProvenanceElsewhere ==
  ASSUME Inv,
         \/ \E a \in Applications : Claim(a) \/ CooldownElapses(a)
         \/ Office
         \/ UNCHANGED vars
  PROVE  Provenance'
  <1> USE DEF Inv
  <1>1. ASSUME UNCHANGED memory, NEW acts, Grows(acts), \A a \in Applications : RowKnown(a)'
        PROVE  Provenance'
    <2>1. ASSUME NEW q \in Requests PROVE CallKnown(q)'
      <3>1. /\ CallKnown(q) /\ (pc[q] # "idle" => call[q].app \in Applications)
            /\ pc' = pc /\ call' = call
        BY <1>1 DEF memory, Provenance, TypeInv, Wellformed, Shape
      <3>2. CallKnown(q)'
        <4>1. CASE pc[q] = "idle"
          BY <3>1, <4>1 DEF CallKnown, Carries
        <4>2. CASE pc[q] # "idle"
          <5>1. PICK a \in Applications : a = call[q].app
            BY <3>1, <4>2
          <5>2. \A x \in {"forwarded", "approved"} : Known(a, x) => Known(a, x)'
            BY <1>1, KnownGrows
          <5> QED
            BY <3>1, <5>1, <5>2 DEF CallKnown, Carries, Forwards, Grants, Known, Patched, Did
        <4> QED
          BY <4>1, <4>2
      <3> QED
        BY <3>2
    <2> QED
      BY <1>1, <2>1 DEF Provenance
  <1>2. ASSUME UNCHANGED <<memory, trail>>, \A a \in Applications : RowKnown(a)'
        PROVE  Provenance'
    BY <1>1, <1>2, SameTrail
  <1>3. ASSUME NEW a \in Applications, Claim(a) PROVE Provenance'
    <2>1. PICK x \in Acts : x = "claimed"
      BY DEF Acts
    <2>2. Record(a, None, x) /\ UNCHANGED memory
      BY <1>3, <2>1 DEF Claim, Record
    <2>3. Grows({x})
      BY <2>2, RecordFacts DEF TypeInv, TypeOK, Grows
    <2>4. ASSUME NEW b \in Applications PROVE RowKnown(b)'
      <3>1. \A y \in Acts : (Did(b, y) => Did(b, y)') /\ (Did(b, y)' => Did(b, y) \/ y = "claimed")
        BY <2>1, <2>3 DEF Grows
      <3>2. /\ "claimed" \in Acts
            /\ \A y \in {"forwarded", "approved"} : Known(b, y) => Known(b, y)'
        BY <2>3, KnownGrows DEF Acts
      <3>3. RowKnown(b) /\ UNCHANGED <<tasks, reopening>>
        BY <1>3 DEF Claim, Provenance, tenant
      <3>4. CASE b = a
        <4>1. status[a] \in Granted /\ status[a] \in BeyondEvaluation
          BY <1>3 DEF Claim, Payable, Granted, BeyondEvaluation
        <4>2. Known(b, "approved")' /\ Known(b, "forwarded")'
          BY <3>1, <3>2, <3>3, <3>4, <4>1 DEF RowKnown
        <4> QED
          BY <4>2 DEF RowKnown
      <3>5. CASE b # a
        <4>1. status'[b] = status[b] /\ (Did(b, "claimed")' => Did(b, "claimed"))
          <5>1. trail'[b] = trail[b] /\ status'[b] = status[b]
            BY <1>3, <3>5 DEF Claim, Record, TypeInv, TypeOK
          <5> QED
            BY <5>1 DEF Known, Patched, Did
        <4> QED
          BY <3>1, <3>2, <3>3, <4>1 DEF RowKnown
      <3> QED
        BY <3>4, <3>5
    <2> QED
      BY <1>1, <2>2, <2>3, <2>4
  <1>4. ASSUME NEW a \in Applications, CooldownElapses(a) PROVE Provenance'
    BY <1>2, <1>4 DEF CooldownElapses, Provenance, RowKnown, tenant, Known, Patched, Did
  <1>5. CASE ArchiveOffice
    BY <1>2, <1>5 DEF ArchiveOffice, Provenance, RowKnown, rows, Known, Patched, Did
  <1>6. CASE ReactivateOffice
    <2>1. ASSUME NEW a \in Applications PROVE RowKnown(a)'
      <3>1. <<a, "approval">> \in Resumed => status[a] \in BeyondEvaluation
        BY DEF Resumed, BeyondEvaluation
      <3>2. /\ RowKnown(a) /\ UNCHANGED <<status, tasks, trail>>
            /\ reopening'.inserted = Resumed
        BY <1>6 DEF ReactivateOffice, Provenance, rows
      <3> QED
        BY <3>1, <3>2 DEF RowKnown, Known, Patched, Did
    <2> QED
      BY <1>2, <1>6, <2>1 DEF ReactivateOffice
  <1>7. CASE CommitReactivation
    <2>1. ASSUME NEW a \in Applications PROVE RowKnown(a)'
      <3>1. /\ RowKnown(a) /\ UNCHANGED <<status, trail>> /\ reopening'.inserted = {}
        BY <1>7 DEF CommitReactivation, Closed, Provenance
      <3>2. tasks'[a]["approval"] # tasks[a]["approval"] => <<a, "approval">> \in reopening.inserted
        BY <1>7 DEF CommitReactivation, Steps
      <3> QED
        BY <3>1, <3>2 DEF RowKnown, Known, Patched, Did
    <2> QED
      BY <1>2, <1>7, <2>1 DEF CommitReactivation
  <1>8. CASE RollBackReactivation
    BY <1>2, <1>8 DEF RollBackReactivation, Closed, Provenance, RowKnown, rows, Known, Patched, Did
  <1>9. CASE UNCHANGED vars
    BY <1>2, <1>9 DEF vars, rows, tenant, memory, Provenance, RowKnown, Known, Patched, Did
  <1> QED
    BY <1>3, <1>4, <1>5, <1>6, <1>7, <1>8, <1>9 DEF Office

LEMMA ProvenanceDrop ==
  ASSUME Inv, NEW r \in Requests, Drop(r)
  PROVE  Provenance'
  <1> USE DEF Inv
  <1>1. PICK label \in Labels : Goto(r, label) /\ label = "idle"
    BY DEF Drop, Labels
  <1>2. pc \in [Requests -> Labels] /\ call \in [Requests -> Call]
    BY DEF TypeInv, TypeOK
  <1>3. CallKnown(r)'
    BY <1>1, <1>2, GotoFacts DEF CallKnown, Carries
  <1>4. \A a \in Applications : RowKnown(a)'
    BY DEF Drop, Provenance, RowKnown, rows, tenant, Known, Patched, Did
  <1>5. Grows({})
    BY SameTrail DEF Drop
  <1> QED
    BY <1>1, <1>2, <1>3, <1>4, <1>5, GotoFacts, OthersKnow DEF Provenance

LEMMA ProvenanceInit == Init => Provenance
  BY DEF Init, Provenance, RowKnown, CallKnown, Carries, Known, Patched, Did, Closed, Steps,
         BeyondEvaluation, Granted

LEMMA InvInductive == Spec => []Inv
  <1>1. Init => Inv
    BY TypeInit, ProvenanceInit DEF Inv
  <1>2. Inv /\ [Next]_vars => Inv'
    BY TypeStep, ProvenanceInFlight, ProvenanceBegin, ProvenanceElsewhere, ProvenanceDrop
       DEF Inv, Next
  <1> QED
    BY <1>1, <1>2, PTL DEF Spec

\* However requests overlap, die or are resumed, no case is before an Approver,
\* approved or paid that no Evaluator forwarded (recommend, decide and the
\* reactivation of an office look at tasks and not at each other).
THEOREM EndorsedBeforeDecidedHolds == Spec => []EndorsedBeforeDecided
  <1>1. Inv => EndorsedBeforeDecided
    BY DEF Inv, Provenance, RowKnown, Known, Unpatched, EndorsedBeforeDecided
  <1> QED
    BY <1>1, InvInductive, PTL

\* No claim is completed for a case that no Approver approved.
THEOREM PaidOnlyIfApprovedHolds == Spec => []PaidOnlyIfApproved
  <1>1. Inv => PaidOnlyIfApproved
    BY DEF Inv, Provenance, RowKnown, Known, Unpatched, PaidOnlyIfApproved
  <1> QED
    BY <1>1, InvInductive, PTL

----------------------------------------------------------------------------
(***************************************************************************)
(* Theorems of CaseWorkflow for deployments in which no two requests work  *)
(* on one beneficiary's cases at once (~SameOwner), each under the further  *)
(* conditions it names: what the handlers keep without a transaction as    *)
(* long as nobody interleaves with them.                                   *)
(***************************************************************************)

(***************************************************************************)
(* Isolation, and what a step of one request leaves alone                  *)
(***************************************************************************)
Isolated ==
  \A q, r \in Requests :
    /\ pc[q] # "idle" /\ pc[r] # "idle"
    /\ Owner[call[q].app] = Owner[call[r].app]
    => q = r

SameCase(a) ==
  /\ status'[a] = status[a] /\ answers'[a] = answers[a] /\ tasks'[a] = tasks[a]
  /\ evaluator'[a] = evaluator[a] /\ trail'[a] = trail[a]

OnlyMoves(r) == \A q \in Requests \ {r} : pc'[q] = pc[q] /\ call'[q] = call[q]

\* A request in flight stays on its case until it ends, and touches no other.
LEMMA ContinueFrame ==
  ASSUME TypeInv, NEW r \in Requests, Continue(r)
  PROVE  /\ pc[r] # "idle" /\ call[r].app \in Applications /\ OnlyMoves(r)
         /\ pc'[r] # "idle" =>
              call'[r].app = call[r].app /\ call'[r].ep = call[r].ep /\ call'[r].actor = call[r].actor
         /\ \A b \in Applications : b # call[r].app => SameCase(b)
         /\ UNCHANGED <<cooling, tenant>>
  <1>a. /\ pc \in [Requests -> Labels] /\ call \in [Requests -> Call] /\ Shape(r)
        /\ call[r] \in Call
    BY DEF TypeInv, TypeOK, Wellformed
  <1>b. ASSUME NEW label, Goto(r, label)
        PROVE  /\ OnlyMoves(r)
               /\ pc'[r] # "idle" => call'[r] = call[r]
    BY <1>a, <1>b DEF Goto, OnlyMoves
  <1>c. ASSUME NEW label, NEW c, Begin(r, label, c), c.app = call[r].app, c.ep = call[r].ep,
               c.actor = call[r].actor
        PROVE  /\ OnlyMoves(r)
               /\ pc'[r] # "idle" =>
                    call'[r].app = call[r].app /\ call'[r].ep = call[r].ep /\ call'[r].actor = call[r].actor
    BY <1>a, <1>c DEF Begin, OnlyMoves
  <1>d. pc[r] # "idle" /\ call[r].app \in Applications
    BY <1>a DEF Continue, InsertApplication, WriteAnswers, FinalSave, CheckSubmittable, TakeTask,
         RefuseReview, CheckSeparation, SaveApplication, SaveTask, SpawnCheckOffice,
         SpawnExisting, SpawnInsert, Shape
  <1>e. ASSUME UNCHANGED <<status, answers, tasks, evaluator, trail>>
        PROVE  \A b \in Applications : SameCase(b)
    BY <1>e DEF SameCase
  <1> DEFINE G == /\ OnlyMoves(r)
                  /\ pc'[r] # "idle" =>
                       call'[r].app = call[r].app /\ call'[r].ep = call[r].ep /\ call'[r].actor = call[r].actor
                  /\ \A b \in Applications : b # call[r].app => SameCase(b)
                  /\ UNCHANGED <<cooling, tenant>>
  <1> USE DEF TypeInv, TypeOK, SameCase
  <1>1. CASE InsertApplication(r)
    BY <1>1, <1>b, <1>d DEF InsertApplication
  <1>2. CASE WriteAnswers(r)
    BY <1>2, <1>b, <1>d DEF WriteAnswers
  <1>3. CASE FinalSave(r)
    BY <1>3, <1>b, <1>d DEF FinalSave
  <1>4. CASE CheckSubmittable(r)
    <2>1. UNCHANGED <<rows, tenant, trail>>
      BY <1>4 DEF CheckSubmittable
    <2>2. CASE Goto(r, "idle")
      <3>1. OnlyMoves(r) /\ (pc'[r] # "idle" => call'[r] = call[r])
        BY <2>2, <1>b
      <3>2. \A b \in Applications : SameCase(b)
        BY <2>1, <1>e DEF rows
      <3> QED
        BY <2>1, <3>1, <3>2, <1>d DEF rows
    <2>3. CASE Begin(r, "save", [call[r] EXCEPT !.entity = "in_evaluation"])
      <3> DEFINE c == [call[r] EXCEPT !.entity = "in_evaluation"]
      <3>1. c.app = call[r].app /\ c.ep = call[r].ep /\ c.actor = call[r].actor
        BY <1>a DEF Call
      <3> HIDE DEF c
      <3>2. G
        BY <2>1, <2>3, <3>1, <1>c, <1>e DEF rows, c
      <3> QED
        BY <3>2, <1>d
    <2> QED
      BY <1>4, <2>2, <2>3 DEF CheckSubmittable
  <1>5. CASE TakeTask(r)
    <2>1. UNCHANGED <<rows, tenant, trail>>
      BY <1>5 DEF TakeTask
    <2>2. PICK n \in DOMAIN tasks[call[r].app][StepOf(call[r].ep)] :
            Begin(r, IF call[r].ep = "decide" THEN "sodCheck" ELSE "save",
                  [call[r] EXCEPT !.task = n, !.since = 0])
      BY <1>5 DEF TakeTask
    <2> DEFINE c == [call[r] EXCEPT !.task = n, !.since = 0]
    <2>3. c.app = call[r].app /\ c.ep = call[r].ep /\ c.actor = call[r].actor
      BY <1>a DEF Call
    <2>4. PICK label : label = (IF call[r].ep = "decide" THEN "sodCheck" ELSE "save")
      OBVIOUS
    <2>5. Begin(r, label, c)
      BY <2>2, <2>4
    <2> HIDE DEF c
    <2>6. G
      BY <2>1, <2>3, <2>5, <1>c, <1>e DEF rows
    <2> QED
      BY <2>6, <1>d
  <1>6. CASE RefuseReview(r)
    BY <1>6, <1>b, <1>d, <1>e DEF RefuseReview, rows
  <1>7. CASE CheckSeparation(r)
    BY <1>7, <1>b, <1>d, <1>e DEF CheckSeparation, rows
  <1>8. CASE SaveApplication(r)
    <2>1. \A b \in Applications : b # call[r].app => trail'[b] = trail[b]
      BY <1>8, <1>d DEF SaveApplication, Record
    <2> QED
      BY <1>8, <2>1, <1>b, <1>d DEF SaveApplication
  <1>9. CASE SaveTask(r)
    <2>1. \A b \in Applications : b # call[r].app =>
            trail'[b] = trail[b] /\ evaluator'[b] = evaluator[b] /\ tasks'[b] = tasks[b]
      BY <1>9, <1>d DEF SaveTask, Record
    <2>2. UNCHANGED <<status, answers, cooling, tenant>>
      BY <1>9 DEF SaveTask
    <2>3. PICK label : Goto(r, label)
      BY <1>9 DEF SaveTask
    <2> QED
      BY <2>1, <2>2, <2>3, <1>b, <1>d
  <1>10. CASE SpawnCheckOffice(r)
    BY <1>10, <1>b, <1>d, <1>e DEF SpawnCheckOffice, rows
  <1>11. CASE SpawnExisting(r)
    <2>1. PICK label : Goto(r, label)
      BY <1>11 DEF SpawnExisting
    <2> QED
      BY <1>11, <2>1, <1>b, <1>d, <1>e DEF SpawnExisting, rows
  <1>12. CASE SpawnInsert(r)
    BY <1>12, <1>b, <1>d DEF SpawnInsert
  <1> QED
    BY <1>1, <1>2, <1>3, <1>4, <1>5, <1>6, <1>7, <1>8, <1>9, <1>10, <1>11, <1>12 DEF Continue

\* A request that begins only reads, and takes a free slot.
LEMMA BeginFrame ==
  ASSUME TypeInv, NEW r \in Requests, NEW a \in Applications,
         \/ Beneficiary(r, a)
         \/ \E u \in Users : Evaluate(r, a, u) \/ Approve(r, a, u)
  PROVE  /\ pc[r] = "idle" /\ pc'[r] # "idle" /\ call'[r].app = a /\ OnlyMoves(r)
         /\ SameOwner \/ Quiet(Owner[a])
         /\ UNCHANGED <<rows, tenant>>
         /\ \A b \in Applications : b # a => SameCase(b)
         /\ Patched(a)' \/ (SameCase(a) /\ UNCHANGED trail)
         /\ UNCHANGED trail \/ (Record(a, None, "patched") /\ status[a] # "none")
  <1>a. pc \in [Requests -> Labels] /\ call \in [Requests -> Call]
    BY DEF TypeInv, TypeOK
  <1> DEFINE Goal == /\ pc[r] = "idle" /\ (SameOwner \/ Quiet(Owner[a]))
                     /\ pc'[r] # "idle" /\ call'[r].app = a /\ OnlyMoves(r)
                     /\ UNCHANGED <<rows, tenant>>
                     /\ UNCHANGED trail \/ (Record(a, None, "patched") /\ status[a] # "none")
  <1>b. ASSUME NEW label, label # "idle", NEW c, c.app = a, NEW ep, MayBegin(r, ep, a),
               Begin(r, label, c), UNCHANGED <<rows, tenant>>,
               UNCHANGED trail \/ (Record(a, None, "patched") /\ status[a] # "none")
        PROVE  Goal
    BY <1>a, <1>b DEF Begin, MayBegin, OnlyMoves
  <1> HIDE DEF Goal
  <1>1. ASSUME NEW form \in Payloads, NEW first \in {"draft", "submitted"},
               BeginCreate(r, a, form, first)
        PROVE  Goal
    <2> DEFINE c == [NoCall EXCEPT !.ep = "create", !.app = a, !.entity = first, !.form = form]
    <2>1. c.app = a
      BY DEF NoCall
    <2>2. MayBegin(r, "create", a) /\ Begin(r, "insert", c) /\ UNCHANGED <<rows, tenant, trail>>
      BY <1>1 DEF BeginCreate
    <2> HIDE DEF c
    <2> QED
      BY <1>b, <2>1, <2>2
  <1>2. ASSUME NEW form \in Payloads \union {None}, NEW sent \in ClientStatuses \union {None},
               BeginUpdate(r, a, form, sent)
        PROVE  Goal
    <2> DEFINE e == IF sent = None THEN status[a] ELSE sent
               l == IF form # None THEN "answers" ELSE "save"
               c == [NoCall EXCEPT !.ep = "update", !.app = a, !.form = form, !.entity = e]
    <2>1. c.app = a /\ l # "idle"
      BY DEF NoCall
    <2>2. /\ MayBegin(r, "update", a) /\ Begin(r, l, c) /\ UNCHANGED <<rows, tenant>>
          /\ UNCHANGED trail \/ (Record(a, None, "patched") /\ status[a] # "none")
      BY <1>2 DEF BeginUpdate
    <2> HIDE DEF c, l
    <2> QED
      BY <1>b, <2>1, <2>2
  <1>3. ASSUME BeginSubmit(r, a) PROVE Goal
    <2> DEFINE c == [NoCall EXCEPT !.ep = "submit", !.app = a, !.entity = status[a]]
    <2>1. c.app = a
      BY DEF NoCall
    <2>2. MayBegin(r, "submit", a) /\ Begin(r, "officeCheck", c) /\ UNCHANGED <<rows, tenant, trail>>
      BY <1>3 DEF BeginSubmit
    <2> HIDE DEF c
    <2> QED
      BY <1>b, <2>1, <2>2
  <1>c. ASSUME NEW ep, NEW u, NEW e, MayBegin(r, ep, a), Begin(r, "takeTask", Review(ep, a, u, e)),
               UNCHANGED <<rows, tenant, trail>>
        PROVE  Goal
    <2>1. Review(ep, a, u, e).app = a
      BY DEF Review, NoCall
    <2> QED
      BY <1>b, <1>c, <2>1
  <1>4. ASSUME NEW u \in Users, BeginRecommend(r, a, u) PROVE Goal
    BY <1>c, <1>4 DEF BeginRecommend
  <1>5. ASSUME NEW u \in Users, BeginDecline(r, a, u) PROVE Goal
    BY <1>c, <1>5 DEF BeginDecline
  <1>6. ASSUME NEW u \in Users, NEW verdict \in {"approved", "rejected"}, BeginDecide(r, a, u, verdict)
        PROVE  Goal
    BY <1>c, <1>6 DEF BeginDecide
  <1>7. Goal
    BY <1>1, <1>2, <1>3, <1>4, <1>5, <1>6 DEF Beneficiary, Evaluate, Approve
  <1>8. UNCHANGED <<rows, trail>> => \A b \in Applications : SameCase(b)
    BY DEF SameCase, rows
  <1>9. ASSUME Record(a, None, "patched"), UNCHANGED rows
        PROVE  Patched(a)' /\ \A b \in Applications : b # a => SameCase(b)
    <2>1. "patched" \in Acts /\ trail \in [Applications -> SUBSET [by : Users \union {None}, act : Acts]]
      BY DEF Acts, TypeInv, TypeOK
    <2>2. Patched(a)'
      BY <1>9, <2>1, RecordFacts DEF Patched
    <2>3. \A b \in Applications : b # a => trail'[b] = trail[b]
      BY <1>9, <2>1 DEF Record
    <2> QED
      BY <1>9, <2>2, <2>3 DEF SameCase, rows
  <1> QED
    BY <1>7, <1>8, <1>9 DEF Goal

\* What each kind of request holds in memory once it has begun.
LEMMA BeginKinds ==
  ASSUME TypeInv, NEW r \in Requests, NEW a \in Applications,
         \/ Beneficiary(r, a)
         \/ \E u \in Users : Evaluate(r, a, u) \/ Approve(r, a, u)
  PROVE  \/ /\ pc'[r] = "insert" /\ call'[r].ep = "create"
            /\ call'[r].entity \in {"draft", "submitted"}
            /\ status[a] = "none" /\ GateOpen(Owner[a])
         \/ /\ pc'[r] \in {"answers", "save"} /\ call'[r].ep = "update"
            /\ Patched(a)' \/ call'[r].entity = status[a]
            /\ pc'[r] = "answers" => status[a] = "draft"
            /\ status[a] # "none"
         \/ /\ pc'[r] = "officeCheck" /\ call'[r].ep = "submit"
            /\ call'[r].entity = status[a] /\ status[a] # "none"
         \/ /\ pc'[r] = "takeTask" /\ call'[r].since = ArchivedAt /\ status[a] # "none"
            /\ \/ call'[r].ep = "recommend" /\ call'[r].actor \in Evaluators
               \/ call'[r].ep = "decline" /\ call'[r].actor \in Evaluators
               \/ call'[r].ep = "decide" /\ call'[r].actor \in Approvers
  <1>a. pc \in [Requests -> Labels] /\ call \in [Requests -> Call]
    BY DEF TypeInv, TypeOK
  <1>b. ASSUME NEW label, NEW c, Begin(r, label, c) PROVE pc'[r] = label /\ call'[r] = c
    BY <1>a, <1>b DEF Begin
  <1> DEFINE Creates == /\ pc'[r] = "insert" /\ call'[r].ep = "create"
                        /\ call'[r].entity \in {"draft", "submitted"}
                        /\ status[a] = "none" /\ GateOpen(Owner[a])
             Updates == /\ pc'[r] \in {"answers", "save"} /\ call'[r].ep = "update"
                        /\ Patched(a)' \/ call'[r].entity = status[a]
                        /\ pc'[r] = "answers" => status[a] = "draft"
                        /\ status[a] # "none"
             Submits == /\ pc'[r] = "officeCheck" /\ call'[r].ep = "submit"
                        /\ call'[r].entity = status[a] /\ status[a] # "none"
             Reviews == /\ pc'[r] = "takeTask" /\ call'[r].since = ArchivedAt /\ status[a] # "none"
                        /\ \/ call'[r].ep = "recommend" /\ call'[r].actor \in Evaluators
                           \/ call'[r].ep = "decline" /\ call'[r].actor \in Evaluators
                           \/ call'[r].ep = "decide" /\ call'[r].actor \in Approvers
  <1>1. ASSUME NEW form \in Payloads, NEW first \in {"draft", "submitted"},
               BeginCreate(r, a, form, first)
        PROVE  Creates
    <2> DEFINE c == [NoCall EXCEPT !.ep = "create", !.app = a, !.entity = first, !.form = form]
    <2>1. c.ep = "create" /\ c.entity = first
      BY DEF NoCall
    <2>2. Begin(r, "insert", c) /\ status[a] = "none" /\ GateOpen(Owner[a])
      BY <1>1 DEF BeginCreate
    <2> HIDE DEF c
    <2> QED
      BY <1>b, <2>1, <2>2
  <1>2. ASSUME NEW form \in Payloads \union {None}, NEW sent \in ClientStatuses \union {None},
               BeginUpdate(r, a, form, sent)
        PROVE  Updates
    <2> DEFINE e == IF sent = None THEN status[a] ELSE sent
               l == IF form # None THEN "answers" ELSE "save"
               c == [NoCall EXCEPT !.ep = "update", !.app = a, !.form = form, !.entity = e]
    <2>1. c.ep = "update" /\ c.entity = e
      BY DEF NoCall
    <2>2. /\ Begin(r, l, c) /\ l \in {"answers", "save"}
          /\ l = "answers" => status[a] = "draft"
          /\ status[a] # "none"
      BY <1>2 DEF BeginUpdate
    <2>5. Patched(a)' \/ e = status[a]
      <3>1. ASSUME sent # None PROVE Patched(a)'
        <4>1. "patched" \in Acts /\ Record(a, None, "patched")
          BY <1>2, <3>1 DEF Acts, BeginUpdate
        <4> QED
          BY <4>1, RecordFacts DEF Patched, TypeInv, TypeOK
      <3> QED
        BY <3>1
    <2> HIDE DEF c, l, e
    <2>3. PICK k, d : k = l /\ d = c
      OBVIOUS
    <2>4. pc'[r] = k /\ call'[r] = d
      BY <1>b, <2>2, <2>3
    <2> QED
      BY <2>1, <2>2, <2>3, <2>4, <2>5
  <1>3. ASSUME BeginSubmit(r, a) PROVE Submits
    <2> DEFINE c == [NoCall EXCEPT !.ep = "submit", !.app = a, !.entity = status[a]]
    <2>1. c.ep = "submit" /\ c.entity = status[a]
      BY DEF NoCall
    <2>2. Begin(r, "officeCheck", c) /\ status[a] # "none"
      BY <1>3 DEF BeginSubmit
    <2> HIDE DEF c
    <2>3. PICK d : d = c
      OBVIOUS
    <2>4. pc'[r] = "officeCheck" /\ call'[r] = d
      BY <1>b, <2>2, <2>3
    <2> QED
      BY <2>1, <2>2, <2>3, <2>4
  <1>c. ASSUME NEW ep, NEW u, NEW e, Begin(r, "takeTask", Review(ep, a, u, e))
        PROVE  /\ pc'[r] = "takeTask" /\ call'[r].ep = ep /\ call'[r].actor = u
               /\ call'[r].since = ArchivedAt
    <2>1. PICK c : c = Review(ep, a, u, e)
      OBVIOUS
    <2>2. pc'[r] = "takeTask" /\ call'[r] = c
      BY <1>b, <1>c, <2>1
    <2> QED
      BY <2>1, <2>2 DEF Review, NoCall
  <1>4. ASSUME NEW u \in Users, BeginRecommend(r, a, u) PROVE Reviews
    BY <1>c, <1>4 DEF BeginRecommend
  <1>5. ASSUME NEW u \in Users, BeginDecline(r, a, u) PROVE Reviews
    BY <1>c, <1>5 DEF BeginDecline
  <1>6. ASSUME NEW u \in Users, NEW verdict \in {"approved", "rejected"}, BeginDecide(r, a, u, verdict)
        PROVE  Reviews
    BY <1>c, <1>6 DEF BeginDecide
  <1> HIDE DEF Creates, Updates, Submits, Reviews
  <1>7. Creates \/ Updates \/ Submits \/ Reviews
    BY <1>1, <1>2, <1>3, <1>4, <1>5, <1>6 DEF Beneficiary, Evaluate, Approve
  <1> QED
    BY <1>7 DEF Creates, Updates, Submits, Reviews

LEMMA DropFrame ==
  ASSUME TypeInv, NEW r \in Requests, Drop(r)
  PROVE  /\ pc'[r] = "idle" /\ call'[r] = NoCall /\ OnlyMoves(r)
         /\ \A b \in Applications : SameCase(b)
         /\ UNCHANGED <<rows, tenant, trail>> /\ Crashes
  BY DEF Drop, Goto, TypeInv, TypeOK, OnlyMoves, SameCase, rows

\* History is only added to, so a case that a client set a status of stays apart.
LEMMA TrailGrows ==
  ASSUME TypeInv, [Next]_vars
  PROVE  \A a \in Applications : trail[a] \subseteq trail'[a]
  <1>a. trail \in [Applications -> SUBSET [by : Users \union {None}, act : Acts]]
    BY DEF TypeInv, TypeOK
  <1>1. UNCHANGED trail \/ \E a, who, act : Record(a, who, act)
    <2>1. ASSUME NEW r \in Requests, Continue(r)
          PROVE  UNCHANGED trail \/ \E a, who, act : Record(a, who, act)
      BY <2>1 DEF Continue, InsertApplication, WriteAnswers, FinalSave, CheckSubmittable, TakeTask,
           RefuseReview, CheckSeparation, SaveApplication, SaveTask, SpawnCheckOffice, SpawnExisting,
           SpawnInsert
    <2>2. ASSUME NEW r \in Requests, Drop(r) PROVE UNCHANGED trail
      BY <2>2 DEF Drop
    <2>3. ASSUME NEW r \in Requests, NEW a \in Applications,
                 \/ Beneficiary(r, a)
                 \/ \E u \in Users : Evaluate(r, a, u) \/ Approve(r, a, u)
          PROVE  UNCHANGED trail \/ \E b, who, act : Record(b, who, act)
      BY <2>3, BeginFrame
    <2>4. ASSUME NEW a \in Applications, Claim(a) \/ CooldownElapses(a)
          PROVE  UNCHANGED trail \/ \E b, who, act : Record(b, who, act)
      BY <2>4 DEF Claim, CooldownElapses
    <2>5. ASSUME Office PROVE UNCHANGED trail
      BY <2>5 DEF Office, ArchiveOffice, ReactivateOffice, CommitReactivation, RollBackReactivation
    <2>6. ASSUME UNCHANGED vars PROVE UNCHANGED trail
      BY <2>6 DEF vars
    <2> QED
      BY <2>1, <2>2, <2>3, <2>4, <2>5, <2>6 DEF Next
  <1> QED
    BY <1>a, <1>1 DEF Record

LEMMA PatchedStays ==
  ASSUME TypeInv, [Next]_vars, NEW a \in Applications, Patched(a)
  PROVE  Patched(a)'
  BY TrailGrows DEF Patched, Did

LEMMA SamePatched ==
  ASSUME NEW a \in Applications, SameCase(a)
  PROVE  Patched(a)' <=> Patched(a)
  BY DEF SameCase, Patched, Did

\* No request in flight sets a case apart: only the beginning of a PATCH does.
LEMMA NotPatchedOnTheWay ==
  ASSUME TypeInv, NEW r \in Requests, Continue(r), NEW a \in Applications, ~ Patched(a)
  PROVE  ~ Patched(a)'
  <1>a. /\ trail \in [Applications -> SUBSET [by : Users \union {None}, act : Acts]] /\ Shape(r)
        /\ call[r] \in Call /\ call[r].app \in Applications
    BY ContinueFrame DEF TypeInv, TypeOK, Wellformed
  <1>1. ASSUME NEW u, NEW act \in Acts \ {"patched"}, Record(call[r].app, u, act)
        PROVE  ~ Patched(a)'
    BY <1>1, <1>a DEF Record, Patched, Did
  <1>2. ASSUME UNCHANGED trail PROVE ~ Patched(a)'
    BY <1>2 DEF Patched, Did
  <1>3. CASE SaveApplication(r)
    <2>1. PICK act : act = ActOf(call[r])
      OBVIOUS
    <2>2. call[r].ep \in {"recommend", "decline", "decide"} => act \in Acts \ {"patched"}
      BY <1>a, <2>1 DEF ActOf, Acts, Shape
    <2> QED
      BY <1>1, <1>2, <1>3, <2>1, <2>2 DEF SaveApplication
  <1>4. CASE SaveTask(r)
    <2>1. PICK act \in Acts \ {"patched"} : act = "endorsed"
      BY DEF Acts
    <2> QED
      BY <1>1, <1>2, <1>4, <2>1 DEF SaveTask
  <1>5. SaveApplication(r) \/ SaveTask(r) \/ UNCHANGED trail
    BY DEF Continue, InsertApplication, WriteAnswers, FinalSave, CheckSubmittable, TakeTask,
         RefuseReview, CheckSeparation, SpawnCheckOffice, SpawnExisting, SpawnInsert
  <1> QED
    BY <1>2, <1>3, <1>4, <1>5

\* The step that sets a case apart writes no row yet.
LEMMA SetApartWritesNothing ==
  ASSUME TypeInv, [Next]_vars, NEW a \in Applications, ~ Patched(a), Patched(a)'
  PROVE  UNCHANGED status
  <1>1. ASSUME NEW r \in Requests, Continue(r) PROVE FALSE
    BY <1>1, NotPatchedOnTheWay
  <1>2. ASSUME NEW r \in Requests, Drop(r) PROVE UNCHANGED status
    BY <1>2 DEF Drop, rows
  <1>3. ASSUME NEW r \in Requests, NEW b \in Applications,
               \/ Beneficiary(r, b)
               \/ \E u \in Users : Evaluate(r, b, u) \/ Approve(r, b, u)
        PROVE  UNCHANGED status
    BY <1>3, BeginFrame DEF rows
  <1>4. ASSUME NEW b \in Applications, Claim(b) PROVE FALSE
    <2>1. trail \in [Applications -> SUBSET [by : Users \union {None}, act : Acts]]
      BY DEF TypeInv, TypeOK
    <2> QED
      BY <1>4, <2>1 DEF Claim, Record, Patched, Did
  <1>5. ASSUME NEW b \in Applications, CooldownElapses(b) PROVE UNCHANGED status
    BY <1>5 DEF CooldownElapses
  <1>6. ASSUME Office \/ UNCHANGED vars PROVE UNCHANGED status
    BY <1>6 DEF Office, ArchiveOffice, ReactivateOffice, CommitReactivation, RollBackReactivation,
         vars, rows
  <1> QED
    BY <1>1, <1>2, <1>3, <1>4, <1>5, <1>6 DEF Next

\* The request works on a case that a client set a status of.
Apart(r) == pc[r] # "idle" /\ Patched(call[r].app)

LEMMA SameApart ==
  ASSUME TypeInv, NEW q \in Requests, pc'[q] = pc[q], call'[q] = call[q],
         pc[q] # "idle" => SameCase(call[q].app)
  PROVE  Apart(q)' <=> Apart(q)
  <1>1. CASE pc[q] = "idle"
    BY <1>1 DEF Apart
  <1>2. CASE pc[q] # "idle"
    <2>1. PICK a \in Applications : a = call[q].app /\ a = call'[q].app
      BY <1>2 DEF TypeInv, Wellformed, Shape
    <2>2. Patched(a)' <=> Patched(a)
      BY <1>2, <2>1, SamePatched
    <2> QED
      BY <1>2, <2>1, <2>2 DEF Apart, Patched, Did
  <1> QED
    BY <1>1, <1>2

\* Isolation is kept: a request that begins looks for others first.
LEMMA IsolationStep ==
  ASSUME ~ SameOwner, TypeInv, Isolated, [Next]_vars
  PROVE  Isolated'
  <1>1. ASSUME NEW r \in Requests, OnlyMoves(r),
               pc'[r] # "idle" =>
                 \A q \in Requests \ {r} :
                   pc[q] # "idle" => Owner[call[q].app] # Owner[call'[r].app]
        PROVE  Isolated'
    <2> SUFFICES ASSUME NEW p \in Requests, NEW q \in Requests, pc'[p] # "idle", pc'[q] # "idle",
                        Owner[call'[p].app] = Owner[call'[q].app]
                 PROVE  p = q
      BY DEF Isolated
    <2>1. CASE p # r /\ q # r
      BY <1>1, <2>1 DEF Isolated, OnlyMoves
    <2>2. CASE p = r /\ q # r
      BY <1>1, <2>2 DEF OnlyMoves
    <2>3. CASE p # r /\ q = r
      BY <1>1, <2>3 DEF OnlyMoves
    <2> QED
      BY <2>1, <2>2, <2>3
  <1>2. ASSUME NEW r \in Requests, Continue(r) PROVE Isolated'
    <2>1. /\ pc[r] # "idle" /\ OnlyMoves(r)
          /\ pc'[r] # "idle" => call'[r].app = call[r].app
      BY <1>2, ContinueFrame
    <2> QED
      BY <1>1, <2>1 DEF Isolated
  <1>3. ASSUME NEW r \in Requests, Drop(r) PROVE Isolated'
    BY <1>1, <1>3, DropFrame
  <1>4. ASSUME NEW r \in Requests, NEW a \in Applications,
               \/ Beneficiary(r, a)
               \/ \E u \in Users : Evaluate(r, a, u) \/ Approve(r, a, u)
        PROVE  Isolated'
    <2>1. call'[r].app = a /\ OnlyMoves(r) /\ Quiet(Owner[a])
      BY <1>4, BeginFrame
    <2> QED
      BY <1>1, <2>1 DEF Quiet
  <1>5. CASE Office \/ \E a \in Applications : Claim(a) \/ CooldownElapses(a)
    <2>1. UNCHANGED memory
      BY <1>5 DEF Office, ArchiveOffice, ReactivateOffice, CommitReactivation, RollBackReactivation,
           Claim, CooldownElapses
    <2> QED
      BY <2>1 DEF Isolated, memory
  <1>6. CASE UNCHANGED vars
    BY <1>6 DEF Isolated, vars, memory
  <1> QED
    BY <1>2, <1>3, <1>4, <1>5, <1>6 DEF Next

(***************************************************************************)
(* Locked answers and deferred tasks.  A request decides on what it read   *)
(* some awaits ago: that the case was a draft, when its office was         *)
(* archived.  Isolated, what it read of the case is still true when it     *)
(* writes, and an archival in between defers no task that was there.       *)
(***************************************************************************)
TasksOf(r) == tasks[call[r].app][StepOf(call[r].ep)]

BornBefore ==
  \A a \in Applications, s \in Steps :
    \A n \in DOMAIN tasks[a][s] : tasks[a][s][n].born <= office.archivals

OfficeAsRead(r) ==
  /\ pc[r] = "takeTask" =>
       IF call[r].since = 0
       THEN \A n \in DOMAIN TasksOf(r) : ~ Deferred(TasksOf(r)[n], ArchivedAt)
       ELSE call[r].since <= office.archivals
  /\ /\ pc[r] \in {"sodCheck", "save", "saveTask"}
     /\ call[r].ep \in {"recommend", "decline", "decide"}
     => /\ call[r].task \in DOMAIN TasksOf(r)
        /\ ~ Deferred(TasksOf(r)[call[r].task], ArchivedAt)

DraftAsRead(r) ==
  /\ pc[r] = "insert" => status[call[r].app] = "none"
  /\ pc[r] = "answers" => status[call[r].app] # "none"
  /\ pc[r] \in {"insert", "answers"} /\ call[r].ep = "create" => answers[call[r].app] = None
  /\ pc[r] = "answers" /\ call[r].ep = "update" => status[call[r].app] = "draft"

LockInv ==
  /\ Isolated
  /\ BornBefore
  /\ \A a \in Applications : status[a] = "none" => answers[a] = None
  /\ \A r \in Requests : OfficeAsRead(r) /\ DraftAsRead(r)

\* Who does not move finds the case and the office as it read them.
LEMMA OthersAsRead ==
  ASSUME NEW q \in Requests, OfficeAsRead(q), DraftAsRead(q),
         pc'[q] = pc[q], call'[q] = call[q],
         pc[q] # "idle" => SameCase(call[q].app), UNCHANGED office
  PROVE  OfficeAsRead(q)' /\ DraftAsRead(q)'
  <1>1. CASE pc[q] = "idle"
    BY <1>1 DEF OfficeAsRead, DraftAsRead
  <1>2. CASE pc[q] # "idle"
    <2>1. DraftAsRead(q)'
      BY <1>2 DEF DraftAsRead, SameCase
    <2>2. TasksOf(q)' = TasksOf(q) /\ ArchivedAt' = ArchivedAt /\ UNCHANGED office
      BY <1>2 DEF TasksOf, SameCase, ArchivedAt, StepOf
    <2>3. OfficeAsRead(q)'
      BY <2>2 DEF OfficeAsRead, Deferred
    <2> QED
      BY <2>1, <2>3
  <1> QED
    BY <1>1, <1>2

LEMMA LockInFlight ==
  ASSUME ~ SameOwner, TypeInv, LockInv, NEW r \in Requests, Continue(r), Isolated'
  PROVE  LockInv'
  <1> DEFINE a == call[r].app
  <1>a. /\ pc[r] # "idle" /\ a \in Applications /\ OnlyMoves(r)
        /\ pc'[r] # "idle" =>
             call'[r].app = a /\ call'[r].ep = call[r].ep /\ call'[r].actor = call[r].actor
        /\ \A b \in Applications : b # a => SameCase(b)
        /\ UNCHANGED <<cooling, tenant>>
    BY ContinueFrame
  <1>b. /\ pc \in [Requests -> Labels] /\ call \in [Requests -> Call] /\ Shape(r)
        /\ call[r] \in Call /\ tasks \in [Applications -> [Steps -> Seq(TaskRow)]]
        /\ status \in [Applications -> Statuses \union {"none"}]
        /\ answers \in [Applications -> Payloads \union {None}]
        /\ office.archivals \in Nat
    BY DEF TypeInv, TypeOK, Wellformed
  <1>c. OfficeAsRead(r) /\ DraftAsRead(r) /\ UNCHANGED office
    BY <1>a DEF LockInv, tenant
  <1>d. ASSUME NEW q \in Requests, q # r PROVE OfficeAsRead(q)' /\ DraftAsRead(q)'
    <2>1. pc'[q] = pc[q] /\ call'[q] = call[q]
      BY <1>a, <1>d DEF OnlyMoves
    <2>2. ASSUME pc[q] # "idle" PROVE SameCase(call[q].app)
      <3>1. call[q].app \in Applications
        BY <2>2 DEF TypeInv, Wellformed, Shape
      <3>2. call[q].app # a
        BY <1>a, <1>d, <2>2 DEF LockInv, Isolated
      <3> QED
        BY <1>a, <3>1, <3>2
    <2> QED
      BY <1>c, <2>1, <2>2, OthersAsRead DEF LockInv
  <1> HIDE DEF a
  <1>e. ASSUME status'[a] = "none" => answers'[a] = None,
               \A s \in Steps : \A n \in DOMAIN tasks'[a][s] : tasks'[a][s][n].born <= office.archivals,
               OfficeAsRead(r)', DraftAsRead(r)'
        PROVE  LockInv'
    <2>1. \A b \in Applications : status'[b] = "none" => answers'[b] = None
      BY <1>a, <1>e DEF LockInv, SameCase
    <2>2. BornBefore'
      <3> SUFFICES ASSUME NEW b \in Applications, NEW s \in Steps, NEW n \in DOMAIN tasks'[b][s]
                   PROVE  tasks'[b][s][n].born <= office.archivals
        BY <1>c DEF BornBefore
      <3> QED
        BY <1>a, <1>e DEF LockInv, BornBefore, SameCase
    <2> QED
      BY <1>d, <1>e, <2>1, <2>2 DEF LockInv
  <1>f. ASSUME UNCHANGED tasks
        PROVE  \A s \in Steps : \A n \in DOMAIN tasks'[a][s] : tasks'[a][s][n].born <= office.archivals
    BY <1>a, <1>f DEF LockInv, BornBefore
  <1>g. ASSUME pc'[r] \notin {"takeTask", "sodCheck", "save", "saveTask"} PROVE OfficeAsRead(r)'
    BY <1>g DEF OfficeAsRead
  <1>h. ASSUME pc'[r] \notin {"insert", "answers"} PROVE DraftAsRead(r)'
    BY <1>h DEF DraftAsRead
  <1>i. ASSUME NEW label, Goto(r, label) PROVE pc'[r] = label
    BY <1>b, <1>i DEF Goto
  <1>1. CASE InsertApplication(r)
    <2>1. /\ pc'[r] = "answers" /\ UNCHANGED <<tasks, answers>> /\ call[r].ep = "create"
          /\ pc[r] = "insert"
          /\ status'[a] = call[r].entity /\ call[r].entity \in {"draft", "submitted"}
      BY <1>1, <1>a, <1>b, <1>i DEF InsertApplication, Shape, a
    <2>2. DraftAsRead(r)'
      BY <1>a, <1>c, <2>1 DEF DraftAsRead, a
    <2> QED
      BY <1>e, <1>f, <1>g, <2>1, <2>2
  <1>2. CASE WriteAnswers(r)
    <2>1. /\ pc'[r] \in {"save", "spawn", "idle"} /\ UNCHANGED <<tasks, status>>
          /\ pc[r] = "answers" /\ (pc'[r] = "save" => call[r].ep = "update")
      BY <1>2, <1>i DEF WriteAnswers, AfterAnswers
    <2>2. status'[a] # "none"
      BY <1>c, <2>1 DEF DraftAsRead, a
    <2>3. OfficeAsRead(r)'
      BY <1>a, <2>1 DEF OfficeAsRead
    <2> QED
      BY <1>e, <1>f, <1>h, <2>1, <2>2, <2>3
  <1>3. CASE FinalSave(r)
    <2>1. pc'[r] = "idle" /\ UNCHANGED <<tasks, answers>> /\ status'[a] = "in_evaluation"
      BY <1>3, <1>a, <1>b, <1>i DEF FinalSave, a
    <2> QED
      BY <1>e, <1>f, <1>g, <1>h, <2>1
  <1>j. status[a] = "none" => answers[a] = None
    BY <1>a DEF LockInv
  <1>4. CASE CheckSubmittable(r)
    <2>1. /\ pc[r] = "officeCheck" /\ call[r].ep = "submit" /\ UNCHANGED <<status, answers, tasks>>
      BY <1>4, <1>b DEF CheckSubmittable, Shape, rows
    <2>2. pc'[r] \in {"idle", "save"}
      BY <1>4, <1>b DEF CheckSubmittable, Begin, Goto
    <2>3. OfficeAsRead(r)'
      BY <1>a, <2>1, <2>2 DEF OfficeAsRead
    <2> QED
      BY <1>e, <1>f, <1>h, <1>j, <2>1, <2>2, <2>3
  <1>5. CASE TakeTask(r)
    <2>1. PICK n \in DOMAIN TasksOf(r) :
            /\ ~ Deferred(TasksOf(r)[n], call[r].since)
            /\ Begin(r, IF call[r].ep = "decide" THEN "sodCheck" ELSE "save",
                     [call[r] EXCEPT !.task = n, !.since = 0])
      BY <1>5 DEF TakeTask, Actionable, TasksOf
    <2>2. UNCHANGED <<status, answers, tasks, tenant>> /\ pc[r] = "takeTask"
      BY <1>5 DEF TakeTask, rows
    <2>3. /\ pc'[r] \in {"sodCheck", "save"} /\ call'[r].task = n
          /\ call'[r].ep = call[r].ep /\ call'[r].app = call[r].app
      <3> DEFINE c == [call[r] EXCEPT !.task = n, !.since = 0]
      <3>1. c.task = n /\ c.ep = call[r].ep /\ c.app = call[r].app
        BY <1>b DEF Call
      <3>2. pc'[r] \in {"sodCheck", "save"} /\ call'[r] = c
        BY <1>b, <2>1 DEF Begin
      <3> QED
        BY <3>1, <3>2
    <2>4. TasksOf(r)' = TasksOf(r) /\ ArchivedAt' = ArchivedAt
      BY <2>2, <2>3 DEF TasksOf, ArchivedAt, tenant
    <2>5. ~ Deferred(TasksOf(r)[n], ArchivedAt)
      <3>1. CASE call[r].since = 0
        BY <1>c, <2>2, <3>1 DEF OfficeAsRead
      <3>2. CASE call[r].since # 0
        <4>1. call[r].since <= office.archivals /\ call[r].since \in Nat
          BY <1>b, <1>c, <2>2, <3>2 DEF OfficeAsRead, Call
        <4>2. TasksOf(r)[n].born \in Nat
          <5>1. TasksOf(r) \in Seq(TaskRow)
            BY <1>a, <1>b DEF TasksOf, StepOf, Steps, a
          <5>2. TasksOf(r)[n] \in TaskRow
            BY <5>1
          <5> QED
            BY <5>2 DEF TaskRow
        <4>3. TasksOf(r)[n].born < call[r].since
          BY <2>1, <3>2, <4>1, <4>2 DEF Deferred
        <4> QED
          BY <1>b, <4>1, <4>2, <4>3 DEF Deferred, ArchivedAt
      <3> QED
        BY <3>1, <3>2
    <2>6. OfficeAsRead(r)'
      BY <2>1, <2>3, <2>4, <2>5 DEF OfficeAsRead, Deferred
    <2> QED
      BY <1>e, <1>f, <1>h, <1>j, <2>2, <2>3, <2>6
  <1>6. CASE RefuseReview(r)
    <2>1. pc'[r] = "idle" /\ UNCHANGED <<status, answers, tasks>>
      BY <1>6, <1>i DEF RefuseReview, rows
    <2> QED
      BY <1>e, <1>f, <1>g, <1>h, <1>j, <2>1
  <1>k. ASSUME NEW label \in {"save", "saveTask"}, Goto(r, label), UNCHANGED tasks,
               pc[r] \in {"sodCheck", "save"}
        PROVE  OfficeAsRead(r)'
    <2>1. pc'[r] = label /\ call'[r] = call[r]
      BY <1>b, <1>k DEF Goto
    <2>2. TasksOf(r)' = TasksOf(r) /\ ArchivedAt' = ArchivedAt
      BY <1>k, <1>c, <2>1 DEF TasksOf, ArchivedAt
    <2> QED
      BY <1>k, <1>c, <2>1, <2>2 DEF OfficeAsRead, Deferred
  <1>7. CASE CheckSeparation(r)
    <2>1. PICK label \in {"idle", "save"} : Goto(r, label)
      BY <1>7 DEF CheckSeparation
    <2>2. UNCHANGED <<status, answers, tasks>> /\ pc[r] = "sodCheck"
      BY <1>7 DEF CheckSeparation, rows
    <2>3. pc'[r] = label
      BY <1>i, <2>1
    <2>4. OfficeAsRead(r)'
      BY <1>g, <1>k, <2>1, <2>2, <2>3
    <2> QED
      BY <1>e, <1>f, <1>h, <1>j, <2>2, <2>3, <2>4
  <1>8. CASE SaveApplication(r)
    <2>1. PICK label \in {"spawn", "idle", "saveTask"} : Goto(r, label)
      BY <1>8 DEF SaveApplication, AfterSave
    <2>2. /\ UNCHANGED <<answers, tasks>> /\ pc[r] = "save"
          /\ status'[a] = call[r].entity /\ call[r].entity \in Statuses
      BY <1>8, <1>a, <1>b DEF SaveApplication, Shape, a
    <2>3. pc'[r] = label
      BY <1>i, <2>1
    <2>4. OfficeAsRead(r)'
      BY <1>g, <1>k, <2>1, <2>2, <2>3
    <2>5. "none" \notin Statuses
      BY DEF Statuses
    <2> QED
      BY <1>e, <1>f, <1>h, <2>2, <2>3, <2>4, <2>5
  <1>9. CASE SaveTask(r)
    <2>1. /\ pc'[r] \in {"spawn", "idle"} /\ UNCHANGED <<status, answers>>
          /\ tasks' = [tasks EXCEPT ![a][StepOf(call[r].ep)][call[r].task].outcome
                                      = TaskOutcome(call[r])]
      BY <1>9, <1>i DEF SaveTask, a
    <2>2. ASSUME NEW s \in Steps, NEW n \in DOMAIN tasks'[a][s]
          PROVE  tasks'[a][s][n].born <= office.archivals
      <3>1. n \in DOMAIN tasks[a][s] /\ tasks'[a][s][n].born = tasks[a][s][n].born
        <4>1. StepOf(call[r].ep) \in Steps
          BY DEF StepOf, Steps
        <4>2. tasks[a][s] \in Seq(TaskRow)
          BY <1>a, <1>b
        <4>3. tasks[a][s][n] \in TaskRow \/ n \notin DOMAIN tasks[a][s]
          BY <4>2
        <4> QED
          BY <1>a, <1>b, <2>1, <2>2, <4>1, <4>3 DEF TaskRow
      <3> QED
        BY <1>a, <3>1 DEF LockInv, BornBefore
    <2> QED
      BY <1>e, <1>g, <1>h, <1>j, <2>1, <2>2
  <1>10. CASE SpawnCheckOffice(r)
    <2>1. pc'[r] \in {"finalSave", "idle", "insertTask", "existing"} /\ UNCHANGED <<status, answers, tasks>>
      BY <1>10, <1>i DEF SpawnCheckOffice, AfterSpawnCheck, AfterSpawn, rows
    <2> QED
      BY <1>e, <1>f, <1>g, <1>h, <1>j, <2>1
  <1>11. CASE SpawnExisting(r)
    <2>1. pc'[r] \in {"finalSave", "idle", "insertTask"} /\ UNCHANGED <<status, answers, tasks>>
      <3>1. PICK label \in {"finalSave", "idle", "insertTask"} : Goto(r, label)
        BY <1>11 DEF SpawnExisting, AfterSpawn
      <3> QED
        BY <1>11, <1>i, <3>1 DEF SpawnExisting, rows
    <2> QED
      BY <1>e, <1>f, <1>g, <1>h, <1>j, <2>1
  <1>12. CASE SpawnInsert(r)
    <2>1. pc'[r] \in {"finalSave", "idle"} /\ UNCHANGED <<status, answers>>
      BY <1>12, <1>i DEF SpawnInsert, AfterSpawn
    <2>2. ASSUME NEW s \in Steps, NEW n \in DOMAIN tasks'[a][s]
          PROVE  tasks'[a][s][n].born <= office.archivals
      <3>1. tasks[a][s] \in Seq(TaskRow) /\ NewTask.born = office.archivals
        BY <1>a, <1>b DEF NewTask
      <3>2. tasks'[a][s] \in {tasks[a][s], Append(tasks[a][s], NewTask)}
        <4>1. SpawnedStep(call[r].ep) \in Steps
          BY DEF SpawnedStep, Steps
        <4> QED
          BY <1>12, <1>a, <1>b, <4>1 DEF SpawnInsert, a
      <3>3. \/ n \in DOMAIN tasks[a][s] /\ tasks'[a][s][n] = tasks[a][s][n]
            \/ tasks'[a][s][n] = NewTask
        <4> DEFINE t == tasks[a][s]
                   u == tasks'[a][s]
        <4>1. t \in Seq(TaskRow) /\ n \in DOMAIN u
          BY <2>2, <3>1
        <4>2. CASE u = t
          BY <4>1, <4>2
        <4>3. CASE u = Append(t, NewTask)
          <5> HIDE DEF t, u
          <5>1. /\ DOMAIN u = 1 .. Len(t) + 1 /\ DOMAIN t = 1 .. Len(t) /\ Len(t) \in Nat
                /\ \A i \in 1 .. Len(t) : u[i] = t[i]
                /\ u[Len(t) + 1] = NewTask
            BY <4>1, <4>3
          <5>2. (n \in DOMAIN t /\ u[n] = t[n]) \/ u[n] = NewTask
            BY <4>1, <5>1
          <5> QED
            BY <5>2 DEF t, u
        <4> QED
          BY <3>2, <4>2, <4>3
      <3> QED
        BY <1>a, <1>b, <3>1, <3>3 DEF LockInv, BornBefore
    <2> QED
      BY <1>e, <1>g, <1>h, <1>j, <2>1, <2>2
  <1> QED
    BY <1>1, <1>2, <1>3, <1>4, <1>5, <1>6, <1>7, <1>8, <1>9, <1>10, <1>11, <1>12 DEF Continue

\* A request that begins reads the case and the office as they are.
LEMMA LockBegin ==
  ASSUME ~ SameOwner, TypeInv, LockInv, Isolated', NEW r \in Requests, NEW a \in Applications,
         \/ Beneficiary(r, a)
         \/ \E u \in Users : Evaluate(r, a, u) \/ Approve(r, a, u)
  PROVE  LockInv'
  <1>1. /\ pc'[r] # "idle" /\ call'[r].app = a /\ OnlyMoves(r) /\ UNCHANGED <<rows, tenant>>
        /\ \A b \in Applications : b # a => SameCase(b)
    BY BeginFrame
  <1>2. UNCHANGED <<status, answers, tasks, office>> /\ office.archivals \in Nat
    BY <1>1 DEF rows, tenant, TypeInv, TypeOK
  <1>3. ASSUME NEW q \in Requests, q # r PROVE OfficeAsRead(q)' /\ DraftAsRead(q)'
    <2>1. pc[q] # "idle" => SameCase(call[q].app)
      BY <1>1, <1>3 DEF TypeInv, Wellformed, Shape, Isolated, OnlyMoves
    <2> QED
      BY <1>1, <1>2, <1>3, <2>1, OthersAsRead DEF LockInv, OnlyMoves
  <1>4. DraftAsRead(r)' /\ OfficeAsRead(r)'
    <2>1. /\ pc'[r] = "insert" => call'[r].ep = "create" /\ status[a] = "none"
          /\ pc'[r] = "answers" => call'[r].ep = "update" /\ status[a] = "draft"
          /\ pc'[r] = "takeTask" => call'[r].since = ArchivedAt
          /\ pc'[r] \in {"sodCheck", "save", "saveTask"} => call'[r].ep = "update"
      BY BeginKinds
    <2>2. DraftAsRead(r)'
      BY <1>1, <1>2, <2>1 DEF DraftAsRead, LockInv
    <2>3. OfficeAsRead(r)'
      BY <1>1, <1>2, <2>1 DEF OfficeAsRead, ArchivedAt, Deferred
    <2> QED
      BY <2>2, <2>3
  <1> QED
    BY <1>2, <1>3, <1>4 DEF LockInv, BornBefore

\* Claims, time and the office's own transactions.
LEMMA LockElsewhere ==
  ASSUME ~ SameOwner, TypeInv, LockInv, Isolated',
         \/ \E a \in Applications : Claim(a) \/ CooldownElapses(a)
         \/ Office
         \/ UNCHANGED vars
  PROVE  LockInv'
  <1>a. /\ tasks \in [Applications -> [Steps -> Seq(TaskRow)]]
        /\ office \in [status : {"active", "archived"}, archivals : Nat, reopenings : Nat]
        /\ status \in [Applications -> Statuses \union {"none"}]
        /\ call \in [Requests -> Call]
        /\ \A q \in Requests : pc[q] # "idle" => call[q].app \in Applications
    BY DEF TypeInv, TypeOK, Wellformed, Shape
  <1>b. \A q \in Requests : StepOf(call[q].ep) \in Steps
    BY DEF StepOf, Steps
  <1>c. \A a \in Applications, s \in Steps : \A n \in DOMAIN tasks[a][s] :
          tasks[a][s][n].born \in Nat /\ tasks[a][s][n].born <= office.archivals
    <2> SUFFICES ASSUME NEW a \in Applications, NEW s \in Steps, NEW n \in DOMAIN tasks[a][s]
                 PROVE  tasks[a][s][n].born \in Nat
      BY DEF LockInv, BornBefore
    <2>1. tasks[a][s] \in Seq(TaskRow)
      BY <1>a
    <2>2. tasks[a][s][n] \in TaskRow
      BY <2>1
    <2> QED
      BY <2>2 DEF TaskRow
  <1>1. ASSUME NEW a \in Applications, Claim(a) PROVE LockInv'
    <2>1. /\ UNCHANGED <<answers, tasks, tenant, memory>> /\ status' = [status EXCEPT ![a] = "claimed"]
          /\ Quiet(Owner[a])
      BY <1>1 DEF Claim
    <2>2. ASSUME NEW q \in Requests PROVE OfficeAsRead(q)' /\ DraftAsRead(q)'
      <3>1. pc[q] # "idle" => call[q].app # a /\ call[q].app \in Applications
        BY <1>a, <2>1 DEF Quiet
      <3>2. DraftAsRead(q)'
        BY <1>a, <2>1, <3>1 DEF LockInv, DraftAsRead, memory
      <3>3. OfficeAsRead(q)'
        BY <2>1 DEF LockInv, OfficeAsRead, TasksOf, StepOf, Deferred, ArchivedAt, tenant, memory
      <3> QED
        BY <3>2, <3>3
    <2> QED
      BY <1>a, <2>1, <2>2 DEF LockInv, BornBefore, tenant
  <1>2. CASE UNCHANGED <<status, answers, tasks, office, memory>>
    <2>1. ASSUME NEW q \in Requests PROVE OfficeAsRead(q)' /\ DraftAsRead(q)'
      BY <1>2 DEF LockInv, OfficeAsRead, DraftAsRead, TasksOf, StepOf, Deferred, ArchivedAt, memory
    <2> QED
      BY <1>2, <2>1 DEF LockInv, BornBefore
  <1>3. CASE ArchiveOffice
    <2>1. /\ UNCHANGED <<status, answers, tasks, memory>>
          /\ office'.status = "archived" /\ office'.archivals = office.archivals + 1
      BY <1>3, <1>a DEF ArchiveOffice, rows
    <2>2. ASSUME NEW q \in Requests PROVE OfficeAsRead(q)' /\ DraftAsRead(q)'
      <3>1. DraftAsRead(q)'
        BY <2>1 DEF LockInv, DraftAsRead, memory
      <3>2. TasksOf(q)' = TasksOf(q) /\ ArchivedAt' = office.archivals + 1
        BY <2>1 DEF TasksOf, StepOf, ArchivedAt, memory
      <3>3. pc[q] # "idle" => \A n \in DOMAIN TasksOf(q) :
              TasksOf(q)[n].born \in Nat /\ TasksOf(q)[n].born <= office.archivals
        BY <1>a, <1>b, <1>c DEF TasksOf
      <3>4. call[q].since \in Nat
        BY <1>a DEF Call
      <3>5. OfficeAsRead(q)'
        BY <1>a, <2>1, <3>2, <3>3, <3>4 DEF LockInv, OfficeAsRead, Deferred, memory
      <3> QED
        BY <3>1, <3>5
    <2>3. BornBefore'
      BY <1>a, <1>c, <2>1 DEF BornBefore
    <2> QED
      BY <2>1, <2>2, <2>3 DEF LockInv
  <1>4. CASE CommitReactivation
    <2>1. /\ UNCHANGED <<status, answers, memory>>
          /\ office'.status = "active" /\ office'.archivals = office.archivals
      BY <1>4, <1>a DEF CommitReactivation
    <2>2. ASSUME NEW a \in Applications, NEW s \in Steps
          PROVE  /\ DOMAIN tasks[a][s] \subseteq DOMAIN tasks'[a][s]
                 /\ \A n \in DOMAIN tasks'[a][s] : tasks'[a][s][n].born <= office.archivals
      <3>1. tasks[a][s] \in Seq(TaskRow) /\ NewTask.born = office.archivals
        BY <1>a DEF NewTask
      <3>2. tasks'[a][s] \in {tasks[a][s], Append(tasks[a][s], NewTask)}
        BY <1>4 DEF CommitReactivation
      <3> DEFINE t == tasks[a][s]
                 u == tasks'[a][s]
      <3>3. CASE u = t
        BY <1>c, <3>3
      <3>4. CASE u = Append(t, NewTask)
        <4>1. /\ t \in Seq(TaskRow)
              /\ \A n \in DOMAIN t : t[n].born <= office.archivals
          BY <1>c, <3>1
        <4> HIDE DEF t, u
        <4>2. /\ DOMAIN u = 1 .. Len(t) + 1 /\ DOMAIN t = 1 .. Len(t) /\ Len(t) \in Nat
              /\ \A i \in 1 .. Len(t) : u[i] = t[i]
              /\ u[Len(t) + 1] = NewTask
          BY <4>1, <3>4
        <4>3. DOMAIN t \subseteq DOMAIN u /\ \A n \in DOMAIN u : n \in DOMAIN t \/ n = Len(t) + 1
          BY <4>2
        <4>4. ASSUME NEW n \in DOMAIN u PROVE u[n].born <= office.archivals
          <5>1. CASE n \in DOMAIN t
            BY <4>1, <4>2, <5>1
          <5>2. CASE n = Len(t) + 1
            BY <1>a, <3>1, <4>2, <5>2
          <5> QED
            BY <4>3, <4>4, <5>1, <5>2
        <4> QED
          BY <4>3, <4>4 DEF t, u
      <3> QED
        BY <3>2, <3>3, <3>4
    <2>3. BornBefore'
      BY <2>1, <2>2 DEF BornBefore
    <2>4. ASSUME NEW q \in Requests PROVE OfficeAsRead(q)' /\ DraftAsRead(q)'
      <3>1. DraftAsRead(q)'
        BY <2>1 DEF LockInv, DraftAsRead, memory
      <3>2. ArchivedAt' = 0 /\ (pc[q] # "idle" => DOMAIN TasksOf(q) \subseteq DOMAIN TasksOf(q)')
        BY <1>a, <1>b, <2>1, <2>2 DEF TasksOf, StepOf, ArchivedAt, memory
      <3>3. OfficeAsRead(q)'
        BY <2>1, <3>2 DEF LockInv, OfficeAsRead, Deferred, memory
      <3> QED
        BY <3>1, <3>3
    <2> QED
      BY <2>1, <2>3, <2>4 DEF LockInv
  <1>5. CASE ReactivateOffice \/ RollBackReactivation \/ UNCHANGED vars
    <2>1. UNCHANGED <<status, answers, tasks, office, memory>>
      BY <1>5 DEF ReactivateOffice, RollBackReactivation, vars, rows, tenant
    <2> QED
      BY <1>2, <2>1
  <1>6. ASSUME NEW a \in Applications, CooldownElapses(a) PROVE LockInv'
    <2>1. UNCHANGED <<status, answers, tasks, office, memory>>
      BY <1>6 DEF CooldownElapses, tenant
    <2> QED
      BY <1>2, <2>1
  <1> QED
    BY <1>1, <1>3, <1>4, <1>5, <1>6 DEF Office

LEMMA LockDrop ==
  ASSUME TypeInv, LockInv, Isolated', NEW r \in Requests, Drop(r)
  PROVE  LockInv'
  <1>1. /\ pc'[r] = "idle" /\ OnlyMoves(r) /\ UNCHANGED <<status, answers, tasks, office>>
        /\ \A b \in Applications : SameCase(b)
    BY DropFrame DEF rows, tenant
  <1>2. ASSUME NEW q \in Requests PROVE OfficeAsRead(q)' /\ DraftAsRead(q)'
    <2>1. CASE q = r
      BY <1>1, <2>1 DEF OfficeAsRead, DraftAsRead
    <2>2. CASE q # r
      <3>1. pc[q] # "idle" => SameCase(call[q].app)
        BY <1>1 DEF TypeInv, Wellformed, Shape
      <3> QED
        BY <1>1, <2>2, <3>1, OthersAsRead DEF LockInv, OnlyMoves
    <2> QED
      BY <2>1, <2>2
  <1> QED
    BY <1>1, <1>2 DEF LockInv, BornBefore

LEMMA LockInductive ==
  ASSUME ~ SameOwner
  PROVE  Spec => []LockInv
  <1>1. Init => LockInv
    BY DEF Init, LockInv, Isolated, BornBefore, OfficeAsRead, DraftAsRead, Steps
  <1>2. TypeInv /\ LockInv /\ [Next]_vars => LockInv'
    <2> SUFFICES ASSUME TypeInv, LockInv, [Next]_vars PROVE LockInv'
      OBVIOUS
    <2>1. Isolated'
      BY IsolationStep DEF LockInv
    <2> QED
      BY <2>1, LockInFlight, LockBegin, LockElsewhere, LockDrop DEF Next
  <1>3. Init => TypeInv
    BY TypeInit
  <1>4. TypeInv /\ [Next]_vars => TypeInv'
    BY TypeStep
  <1> QED
    BY <1>1, <1>2, <1>3, <1>4, PTL DEF Spec

\* A step that changes answers, or the decision of a task, is the write of a
\* request that read the case as a draft, or the task as one it may decide.
LEMMA LockStep ==
  ASSUME TypeInv, LockInv, [Next]_vars, NEW a \in Applications
  PROVE  /\ answers[a] # None /\ answers'[a] # answers[a] => status[a] = "draft"
         /\ \A s \in Steps : \A n \in DOMAIN tasks[a][s] :
              Deferred(tasks[a][s][n], ArchivedAt) =>
                tasks'[a][s][n].outcome = tasks[a][s][n].outcome
  <1> DEFINE P == /\ answers[a] # None /\ answers'[a] # answers[a] => status[a] = "draft"
                  /\ \A s \in Steps : \A n \in DOMAIN tasks[a][s] :
                       Deferred(tasks[a][s][n], ArchivedAt) =>
                         tasks'[a][s][n].outcome = tasks[a][s][n].outcome
  <1>a. /\ tasks \in [Applications -> [Steps -> Seq(TaskRow)]]
        /\ answers \in [Applications -> Payloads \union {None}]
        /\ \A s \in Steps : tasks[a][s] \in Seq(TaskRow)
    BY DEF TypeInv, TypeOK
  <1>b. ASSUME NEW s \in Steps, NEW n \in DOMAIN tasks[a][s],
               tasks'[a][s] = Append(tasks[a][s], NewTask)
        PROVE  tasks'[a][s][n] = tasks[a][s][n]
    <2> DEFINE t == tasks[a][s]
    <2>1. t \in Seq(TaskRow) /\ n \in DOMAIN t
      BY <1>a
    <2> HIDE DEF t
    <2>2. Append(t, NewTask)[n] = t[n]
      BY <2>1
    <2> QED
      BY <1>b, <2>2 DEF t
  <1>1. ASSUME NEW r \in Requests, Continue(r) PROVE P
    <2>a. /\ call[r].app \in Applications
          /\ \A b \in Applications : b # call[r].app => SameCase(b)
      BY <1>1, ContinueFrame
    <2>b. Shape(r) /\ OfficeAsRead(r) /\ DraftAsRead(r)
      BY DEF TypeInv, Wellformed, LockInv
    <2>1. CASE a # call[r].app
      BY <2>1, <2>a DEF SameCase
    <2>2. CASE WriteAnswers(r) /\ a = call[r].app
      BY <2>2, <2>b DEF WriteAnswers, DraftAsRead, Shape
    <2>3. CASE SaveTask(r) /\ a = call[r].app
      <3>1. /\ UNCHANGED answers
            /\ tasks' = [tasks EXCEPT ![a][StepOf(call[r].ep)][call[r].task].outcome
                                        = TaskOutcome(call[r])]
            /\ pc[r] = "saveTask"
        BY <2>3 DEF SaveTask
      <3>2. ~ Deferred(tasks[a][StepOf(call[r].ep)][call[r].task], ArchivedAt)
        BY <2>3, <2>b, <3>1 DEF OfficeAsRead, TasksOf, Shape
      <3>3. ASSUME NEW s \in Steps, NEW n \in DOMAIN tasks[a][s],
                   ~ (s = StepOf(call[r].ep) /\ n = call[r].task)
            PROVE  tasks'[a][s][n].outcome = tasks[a][s][n].outcome
        BY <1>a, <3>1, <3>3
      <3> QED
        BY <3>1, <3>2, <3>3
    <2>4. CASE SpawnInsert(r) /\ a = call[r].app
      <3>1. UNCHANGED answers /\ SpawnedStep(call[r].ep) \in Steps
        BY <2>4 DEF SpawnInsert, SpawnedStep, Steps
      <3>2. ASSUME NEW s \in Steps
            PROVE  tasks'[a][s] \in {tasks[a][s], Append(tasks[a][s], NewTask)}
        BY <2>4, <1>a, <3>1 DEF SpawnInsert
      <3> QED
        BY <1>b, <3>1, <3>2
    <2>5. CASE UNCHANGED <<answers, tasks>>
      BY <2>5
    <2> QED
      BY <1>1, <2>1, <2>2, <2>3, <2>4, <2>5
         DEF Continue, InsertApplication, FinalSave, CheckSubmittable, TakeTask, RefuseReview,
             CheckSeparation, SaveApplication, SpawnCheckOffice, SpawnExisting, rows
  <1>2. ASSUME NEW r \in Requests, Drop(r) PROVE P
    BY <1>2 DEF Drop, rows
  <1>3. ASSUME NEW r \in Requests, NEW b \in Applications,
               \/ Beneficiary(r, b)
               \/ \E u \in Users : Evaluate(r, b, u) \/ Approve(r, b, u)
        PROVE  P
    BY <1>3, BeginFrame DEF rows
  <1>4. ASSUME CommitReactivation PROVE P
    <2>1. UNCHANGED answers
      BY <1>4 DEF CommitReactivation
    <2>2. \A s \in Steps : tasks'[a][s] \in {tasks[a][s], Append(tasks[a][s], NewTask)}
      BY <1>4 DEF CommitReactivation
    <2> QED
      BY <1>b, <2>1, <2>2
  <1>5. ASSUME \/ ArchiveOffice \/ ReactivateOffice \/ RollBackReactivation \/ UNCHANGED vars
               \/ \E b \in Applications : Claim(b) \/ CooldownElapses(b)
        PROVE  P
    <2>1. UNCHANGED <<answers, tasks>>
      BY <1>5 DEF ArchiveOffice, ReactivateOffice, RollBackReactivation, vars, rows, Claim, CooldownElapses
    <2> QED
      BY <2>1
  <1> HIDE DEF P
  <1>6. P
    BY <1>1, <1>2, <1>3, <1>4, <1>5 DEF Next, Office
  <1> QED
    BY <1>6 DEF P

\* Answers of a case that left the draft stay as they are, and nobody decides a
\* task that its archived office put off: whoever dies on the way, however often
\* offices come and go and whatever statuses clients send.
THEOREM LockedStaysAsIsHolds ==
  ASSUME ~ SameOwner
  PROVE  Spec => LockedStaysAsIs
  <1>1. TypeInv /\ LockInv /\ [Next]_vars =>
          [\A a \in Applications :
             /\ answers[a] # None /\ answers'[a] # answers[a] => status[a] = "draft"
             /\ \A s \in Steps : \A n \in DOMAIN tasks[a][s] :
                  Deferred(tasks[a][s][n], ArchivedAt) =>
                    tasks'[a][s][n].outcome = tasks[a][s][n].outcome]_vars
    BY LockStep
  <1>2. Spec => []TypeInv
    BY TypeInit, TypeStep, PTL DEF Spec
  <1>3. Spec => []LockInv
    BY LockInductive
  <1> QED
    BY <1>1, <1>2, <1>3, PTL DEF Spec, LockedStaysAsIs

(***************************************************************************)
(* Separation of duties.  decideRbac compares the approver with the one    *)
(* who completed the evaluation task last; that names the endorser as long *)
(* as a case has one evaluation task in its life.  It has, if no office is *)
(* reactivated (which adds tasks behind the requests' back), unless a      *)
(* client sent the case a status.  Requests may die anywhere.              *)
(***************************************************************************)
Evaluated(a) ==
  /\ Len(tasks[a]["evaluation"]) = 1
  /\ tasks[a]["evaluation"][1].outcome # "pending"

Early == {"none", "draft", "submitted"}

RowSeparate(a) ==
  /\ Len(tasks[a]["evaluation"]) <= 1
  /\ status[a] = "none" => tasks[a]["evaluation"] = << >>
  /\ Evaluated(a) => status[a] \notin Early
  /\ tasks[a]["approval"] # << >> => Evaluated(a)
  /\ \A e \in trail[a] : e.act = "endorsed" => Evaluated(a) /\ e.by = evaluator[a]
  /\ \A e \in trail[a] : e.act = "approved" => Evaluated(a) /\ e.by # evaluator[a]

CallSeparate(r) ==
  LET a == call[r].app IN
  /\ pc[r] = "insert" => status[a] = "none"
  /\ pc[r] # "idle" /\ call[r].ep = "create" => ~ Evaluated(a)
  /\ pc[r] \in {"answers", "save"} /\ call[r].ep = "update" =>
       call[r].entity = status[a]
  /\ pc[r] \notin {"idle", "insert"} => status[a] # "none"
  /\ pc[r] = "officeCheck" => call[r].entity = status[a]
  /\ pc[r] \in {"save", "spawn", "existing", "insertTask"} /\ call[r].ep = "submit" => ~ Evaluated(a)
  /\ pc[r] = "save" /\ call[r].ep = "submit" => call[r].entity = "in_evaluation"
  /\ pc[r] = "insertTask" /\ call[r].ep # "recommend" => tasks[a]["evaluation"] = << >>
  /\ pc[r] \in {"save", "saveTask"} /\ call[r].ep \in {"recommend", "decline"} =>
       /\ ~ Evaluated(a) /\ call[r].task = 1 /\ Len(tasks[a]["evaluation"]) = 1
  /\ pc[r] = "saveTask" => status[a] \notin Early
  /\ pc[r] \in {"sodCheck", "save", "saveTask"} /\ call[r].ep = "decide" => Evaluated(a)
  /\ pc[r] \in {"save", "saveTask"} /\ call[r].ep = "decide" => evaluator[a] # call[r].actor
  /\ pc[r] \in {"spawn", "insertTask"} /\ call[r].ep = "recommend" => Evaluated(a)

SeparationInv ==
  /\ Isolated /\ ~ reopening.open
  /\ \A a \in Applications : Patched(a) \/ RowSeparate(a)
  /\ \A r \in Requests : Apart(r) \/ CallSeparate(r)

\* A list of at most one task.
LEMMA Short ==
  ASSUME NEW S, NEW t \in Seq(S), Len(t) <= 1
  PROVE  /\ Len(t) = 1 \/ t = << >>
         /\ \A n \in DOMAIN t : n = 1 /\ Len(t) = 1
  <1>1. ASSUME NEW n \in Nat, n <= 1 PROVE n = 0 \/ n = 1
    BY <1>1
  <1>2. Len(t) = 0 \/ Len(t) = 1
    <2>1. Len(t) \in Nat
      OBVIOUS
    <2> QED
      BY <1>1, <2>1
  <1>3. CASE Len(t) = 0
    <2>1. t = [i \in DOMAIN t |-> t[i]] /\ DOMAIN t = {}
      BY <1>3
    <2> QED
      BY <2>1
  <1>4. CASE Len(t) = 1
    BY <1>4
  <1> QED
    BY <1>2, <1>3, <1>4

\* Who does not move is on a case nobody else moves.
LEMMA OthersSeparate ==
  ASSUME TypeInv, NEW q \in Requests, CallSeparate(q), pc'[q] = pc[q], call'[q] = call[q],
         pc[q] # "idle" => SameCase(call[q].app)
  PROVE  CallSeparate(q)'
  <1>1. CASE pc[q] = "idle"
    BY <1>1 DEF CallSeparate
  <1>2. CASE pc[q] # "idle"
    <2>1. Evaluated(call[q].app)' <=> Evaluated(call[q].app)
      BY <1>2 DEF Evaluated, SameCase
    <2> QED
      BY <1>2, <2>1 DEF CallSeparate, SameCase, Evaluated
  <1> QED
    BY <1>1, <1>2

LEMMA RowStaysSeparate ==
  ASSUME NEW a \in Applications, RowSeparate(a), SameCase(a)
  PROVE  RowSeparate(a)'
  BY DEF RowSeparate, SameCase, Evaluated

LEMMA SeparationInFlight ==
  ASSUME TypeInv, SeparationInv, NEW r \in Requests, Continue(r), Isolated'
  PROVE  SeparationInv'
  <1>0. PICK a \in Applications : a = call[r].app
    BY ContinueFrame
  <1>a. /\ pc[r] # "idle" /\ a \in Applications /\ OnlyMoves(r)
        /\ pc'[r] # "idle" =>
             call'[r].app = a /\ call'[r].ep = call[r].ep /\ call'[r].actor = call[r].actor
        /\ \A b \in Applications : b # a => SameCase(b)
        /\ UNCHANGED <<cooling, tenant>>
    BY <1>0, ContinueFrame
  <1>b. /\ pc \in [Requests -> Labels] /\ call \in [Requests -> Call] /\ Shape(r)
        /\ call[r] \in Call /\ tasks \in [Applications -> [Steps -> Seq(TaskRow)]]
        /\ status \in [Applications -> Statuses \union {"none"}]
        /\ evaluator \in [Applications -> Users \union {None}]
        /\ trail \in [Applications -> SUBSET [by : Users \union {None}, act : Acts]]
    BY DEF TypeInv, TypeOK, Wellformed
  <1>d. ASSUME NEW q \in Requests, q # r PROVE Apart(q)' \/ CallSeparate(q)'
    <2>1. pc'[q] = pc[q] /\ call'[q] = call[q]
      BY <1>a, <1>d DEF OnlyMoves
    <2>2. ASSUME pc[q] # "idle" PROVE SameCase(call[q].app)
      <3>1. call[q].app \in Applications
        BY <2>2 DEF TypeInv, Wellformed, Shape
      <3>2. call[q].app # a
        BY <1>0, <1>a, <1>d, <2>2 DEF SeparationInv, Isolated
      <3> QED
        BY <1>a, <3>1, <3>2
    <2> QED
      BY <2>1, <2>2, OthersSeparate, SameApart DEF SeparationInv
  <1>g. ASSUME pc'[r] = "idle" PROVE CallSeparate(r)'
    BY <1>g DEF CallSeparate
  <1>e. ASSUME Patched(a)' \/ RowSeparate(a)', Patched(a)' \/ CallSeparate(r)'
        PROVE  SeparationInv'
    <2>1. \A b \in Applications : Patched(b)' \/ RowSeparate(b)'
      BY <1>a, <1>e, RowStaysSeparate, SamePatched DEF SeparationInv
    <2>2. Apart(r)' \/ CallSeparate(r)'
      BY <1>a, <1>e, <1>g DEF Apart, Patched, Did
    <2> QED
      BY <1>a, <1>d, <2>1, <2>2 DEF SeparationInv, tenant
  <1>p. ASSUME Patched(a) PROVE SeparationInv'
    BY <1>e, <1>p, PatchedStays DEF Next
  <1> SUFFICES ASSUME ~ Patched(a) PROVE SeparationInv'
    BY <1>p
  <1>c. CallSeparate(r) /\ RowSeparate(a)
    BY <1>0 DEF SeparationInv, Apart
  <1>f. ASSUME UNCHANGED rows, UNCHANGED trail PROVE RowSeparate(a)' /\ (Evaluated(a)' <=> Evaluated(a))
    BY <1>c, <1>f DEF RowSeparate, Evaluated, rows
  <1>i. ASSUME NEW label, Goto(r, label)
        PROVE  pc'[r] = label /\ (label # "idle" => call'[r] = call[r])
    BY <1>b, <1>i DEF Goto
  <1>1. CASE InsertApplication(r)
    <2>1. /\ pc'[r] = "answers" /\ call'[r] = call[r] /\ UNCHANGED <<tasks, evaluator, trail>>
          /\ call[r].ep = "create" /\ pc[r] = "insert"
          /\ status'[a] = call[r].entity /\ call[r].entity \in {"draft", "submitted"}
      BY <1>0, <1>1, <1>a, <1>b, <1>i DEF InsertApplication, Shape
    <2>2. ~ Evaluated(a) /\ (Evaluated(a)' <=> Evaluated(a))
      BY <1>0, <1>a, <1>c, <2>1 DEF CallSeparate, Evaluated
    <2>3. RowSeparate(a)'
      BY <1>c, <2>1, <2>2 DEF RowSeparate
    <2>4. CallSeparate(r)'
      BY <1>0, <2>1, <2>2 DEF CallSeparate, Evaluated
    <2> QED
      BY <1>e, <2>3, <2>4
  <1>2. CASE WriteAnswers(r)
    <2>1. /\ pc'[r] \in {"save", "spawn", "idle"} /\ UNCHANGED <<status, tasks, evaluator, trail>>
          /\ pc[r] = "answers" /\ (pc'[r] # "idle" => call'[r] = call[r])
          /\ call[r].ep \in {"create", "update"}
          /\ pc'[r] = "save" <=> call[r].ep = "update"
      BY <1>2, <1>b, <1>i DEF WriteAnswers, AfterAnswers, Shape
    <2>2. Evaluated(a)' <=> Evaluated(a)
      BY <2>1 DEF Evaluated
    <2>3. RowSeparate(a)'
      BY <1>c, <2>1, <2>2 DEF RowSeparate
    <2>4. CallSeparate(r)'
      BY <1>0, <1>c, <2>1, <2>2 DEF CallSeparate, Evaluated
    <2> QED
      BY <1>e, <2>3, <2>4
  <1>3. CASE FinalSave(r)
    <2>1. /\ pc'[r] = "idle" /\ UNCHANGED <<tasks, evaluator, trail>> /\ status'[a] = "in_evaluation"
      BY <1>0, <1>3, <1>a, <1>b, <1>i DEF FinalSave
    <2>2. RowSeparate(a)'
      BY <1>c, <2>1 DEF RowSeparate, Evaluated, Early
    <2> QED
      BY <1>e, <1>g, <2>1, <2>2
  <1>4. CASE CheckSubmittable(r)
    <2>1. /\ pc[r] = "officeCheck" /\ call[r].ep = "submit" /\ UNCHANGED <<rows, trail>>
      BY <1>4, <1>b DEF CheckSubmittable, Shape
    <2>2. RowSeparate(a)' /\ (Evaluated(a)' <=> Evaluated(a))
      BY <1>f, <2>1
    <2>3. CASE Goto(r, "idle")
      BY <1>e, <1>g, <1>i, <2>2, <2>3
    <2>4. CASE /\ call[r].entity \in {"draft", "submitted"}
               /\ Begin(r, "save", [call[r] EXCEPT !.entity = "in_evaluation"])
      <3>1. /\ pc'[r] = "save" /\ call'[r].ep = "submit" /\ call'[r].app = call[r].app
            /\ call'[r].entity = "in_evaluation"
        BY <1>b, <2>1, <2>4 DEF Begin, Call
      <3>2. ~ Evaluated(a)
        BY <1>0, <1>c, <2>1, <2>4 DEF CallSeparate, RowSeparate, Early
      <3>3. CallSeparate(r)'
        BY <1>0, <1>c, <2>1, <2>2, <3>1, <3>2 DEF CallSeparate, Evaluated, rows
      <3> QED
        BY <1>e, <2>2, <3>3
    <2> QED
      BY <1>4, <2>3, <2>4 DEF CheckSubmittable
  <1>5. CASE TakeTask(r)
    <2>1. PICK n \in DOMAIN tasks[a][StepOf(call[r].ep)] :
            /\ tasks[a][StepOf(call[r].ep)][n].outcome = "pending"
            /\ Begin(r, IF call[r].ep = "decide" THEN "sodCheck" ELSE "save",
                     [call[r] EXCEPT !.task = n, !.since = 0])
      BY <1>0, <1>5 DEF TakeTask, Actionable, Served, PendingTasks
    <2>2. UNCHANGED <<rows, trail>> /\ pc[r] = "takeTask" /\ call[r].ep \in {"recommend", "decline", "decide"}
      BY <1>5, <1>b DEF TakeTask, Shape
    <2>3. /\ pc'[r] = (IF call[r].ep = "decide" THEN "sodCheck" ELSE "save") /\ call'[r].task = n
          /\ call'[r].ep = call[r].ep /\ call'[r].app = call[r].app
      <3> DEFINE c == [call[r] EXCEPT !.task = n, !.since = 0]
      <3>1. c.task = n /\ c.ep = call[r].ep /\ c.app = call[r].app
        BY <1>b DEF Call
      <3>2. pc'[r] = (IF call[r].ep = "decide" THEN "sodCheck" ELSE "save") /\ call'[r] = c
        BY <1>b, <2>1 DEF Begin
      <3> QED
        BY <3>1, <3>2
    <2>4. RowSeparate(a)' /\ (Evaluated(a)' <=> Evaluated(a))
      BY <1>f, <2>2
    <2>5. call[r].ep = "decide" => Evaluated(a)
      <3>1. call[r].ep = "decide" => tasks[a]["approval"] # << >>
        BY <2>1 DEF StepOf
      <3> QED
        BY <1>c, <3>1 DEF RowSeparate
    <2>6. call[r].ep # "decide" => n = 1 /\ Len(tasks[a]["evaluation"]) = 1 /\ ~ Evaluated(a)
      <3>1. tasks[a]["evaluation"] \in Seq(TaskRow)
        BY <1>a, <1>b DEF Steps
      <3>2. ASSUME call[r].ep # "decide" PROVE n = 1 /\ Len(tasks[a]["evaluation"]) = 1
        <4> DEFINE t == tasks[a]["evaluation"]
        <4>1. t \in Seq(TaskRow) /\ Len(t) <= 1 /\ n \in DOMAIN t
          BY <1>c, <2>1, <3>1, <3>2 DEF StepOf, RowSeparate
        <4> HIDE DEF t
        <4>2. n = 1 /\ Len(t) = 1
          BY <4>1, Short
        <4> QED
          BY <4>2 DEF t
      <3> QED
        BY <2>1, <3>2 DEF StepOf, Evaluated
    <2>7. CallSeparate(r)'
      BY <1>0, <1>c, <2>2, <2>3, <2>4, <2>5, <2>6 DEF CallSeparate, rows, Evaluated
    <2> QED
      BY <1>e, <2>4, <2>7
  <1>6. CASE RefuseReview(r)
    BY <1>6, <1>e, <1>f, <1>g, <1>i DEF RefuseReview
  <1>7. CASE CheckSeparation(r)
    <2>1. /\ UNCHANGED <<rows, trail>> /\ pc[r] = "sodCheck" /\ call[r].ep = "decide"
          /\ pc'[r] \in {"idle", "save"}
          /\ pc'[r] = "save" => call'[r] = call[r] /\ evaluator[a] # call[r].actor
      BY <1>0, <1>7, <1>b, <1>i DEF CheckSeparation, Shape
    <2>2. RowSeparate(a)' /\ (Evaluated(a)' <=> Evaluated(a))
      BY <1>f, <2>1
    <2>3. CallSeparate(r)'
      BY <1>0, <1>c, <2>1, <2>2 DEF CallSeparate, rows, Evaluated
    <2> QED
      BY <1>e, <2>2, <2>3
  <1>8. CASE SaveApplication(r)
    <2>1. /\ pc[r] = "save" /\ UNCHANGED <<tasks, evaluator>>
          /\ status'[a] = call[r].entity /\ call[r].entity \in Statuses
          /\ call[r].ep \in {"submit", "update", "recommend", "decline", "decide"}
          /\ pc'[r] = AfterSave(call[r].ep) /\ (pc'[r] # "idle" => call'[r] = call[r])
      BY <1>0, <1>8, <1>a, <1>b, <1>i DEF SaveApplication, Shape, AllEndpoints
    <2>2. Evaluated(a)' <=> Evaluated(a)
      BY <2>1 DEF Evaluated
    <2>3. \A e \in trail'[a] : e \in trail[a] \/
            (call[r].ep = "recommend" /\ e.act = "forwarded") \/
            (call[r].ep = "decline" /\ e.act = "declined") \/
            (call[r].ep = "decide" /\ e.by = call[r].actor)
      <3>1. CASE call[r].ep \in {"recommend", "decline", "decide"}
        <4>1. trail' = [trail EXCEPT ![a] = @ \union {[by |-> call[r].actor, act |-> ActOf(call[r])]}]
          BY <1>0, <1>8, <3>1 DEF SaveApplication, Record
        <4> QED
          BY <1>a, <1>b, <3>1, <4>1 DEF ActOf
      <3>2. CASE call[r].ep \notin {"recommend", "decline", "decide"}
        BY <1>8, <3>2 DEF SaveApplication
      <3> QED
        BY <3>1, <3>2
    <2>4. status'[a] \in Early => call[r].ep = "update" /\ status'[a] = status[a]
      BY <1>0, <1>b, <1>c, <2>1 DEF Shape, CallSeparate, Early
    <2>5. RowSeparate(a)'
      <3>1. /\ Len(tasks[a]["evaluation"]) <= 1
            /\ status'[a] = "none" => tasks[a]["evaluation"] = << >>
            /\ Evaluated(a) => status'[a] \notin Early
            /\ tasks[a]["approval"] # << >> => Evaluated(a)
        BY <1>c, <2>1, <2>4 DEF RowSeparate, Statuses, Early
      <3>2. call[r].ep = "decide" => Evaluated(a) /\ evaluator[a] # call[r].actor
                                     /\ call[r].entity \in {"approved", "rejected"}
        BY <1>0, <1>b, <1>c, <2>1 DEF CallSeparate, Shape
      <3>3. \A e \in trail'[a] : e.act = "endorsed" => Evaluated(a) /\ e.by = evaluator[a]
        <4>1. call[r].ep = "decide" => \A e \in trail'[a] : e.act = "endorsed" => e \in trail[a]
          <5>1. call[r].ep = "decide" =>
                  trail' = [trail EXCEPT ![a] = @ \union {[by |-> call[r].actor, act |-> call[r].entity]}]
            BY <1>0, <1>8 DEF SaveApplication, Record, ActOf
          <5> QED
            BY <1>a, <1>b, <3>2, <5>1
        <4> QED
          BY <1>c, <2>3, <4>1 DEF RowSeparate
      <3>4. \A e \in trail'[a] : e.act = "approved" => Evaluated(a) /\ e.by # evaluator[a]
        BY <1>c, <2>3, <3>2 DEF RowSeparate
      <3> QED
        BY <2>1, <2>2, <3>1, <3>3, <3>4 DEF RowSeparate
    <2>6. CallSeparate(r)'
      BY <1>0, <1>b, <1>c, <2>1, <2>2, <2>4 DEF CallSeparate, AfterSave, Evaluated, Shape, Early
    <2> QED
      BY <1>e, <2>5, <2>6
  <1>9. CASE SaveTask(r)
    <2> DEFINE s == StepOf(call[r].ep)
    <2>1. /\ pc[r] = "saveTask" /\ call[r].ep \in {"recommend", "decline", "decide"} /\ s \in Steps
          /\ UNCHANGED status
          /\ tasks' = [tasks EXCEPT ![a][s][call[r].task].outcome = TaskOutcome(call[r])]
          /\ evaluator'[a] = IF call[r].ep = "decide" THEN evaluator[a] ELSE call[r].actor
          /\ pc'[r] = (IF call[r].ep = "recommend" THEN "spawn" ELSE "idle")
          /\ pc'[r] # "idle" => call'[r] = call[r]
      BY <1>0, <1>9, <1>a, <1>b, <1>i DEF SaveTask, Shape, StepOf, Steps
    <2>2. /\ status[a] \notin Early
          /\ call[r].ep # "decide" => /\ ~ Evaluated(a) /\ call[r].task = 1
                                      /\ Len(tasks[a]["evaluation"]) = 1
          /\ call[r].ep = "decide" => Evaluated(a)
      BY <1>0, <1>c, <2>1 DEF CallSeparate
    <2>3. /\ Len(tasks'[a]["evaluation"]) = Len(tasks[a]["evaluation"]) /\ Evaluated(a)'
          /\ call[r].ep = "decide" => evaluator'[a] = evaluator[a]
      <3>1. CASE call[r].ep = "decide"
        <4>1. tasks'[a]["evaluation"] = tasks[a]["evaluation"]
          BY <1>a, <1>b, <2>1, <3>1 DEF StepOf, Steps
        <4> QED
          BY <2>1, <2>2, <3>1, <4>1 DEF Evaluated
      <3>2. CASE call[r].ep # "decide"
        <4> DEFINE t == tasks[a]["evaluation"]
        <4>1. tasks'[a]["evaluation"] = [t EXCEPT ![1].outcome = TaskOutcome(call[r])]
          BY <1>a, <1>b, <2>1, <2>2, <3>2 DEF StepOf, Steps
        <4>2. t \in Seq(TaskRow) /\ Len(t) = 1
          BY <1>a, <1>b, <2>2, <3>2 DEF Steps
        <4>3. TaskOutcome(call[r]) # "pending"
          BY DEF TaskOutcome
        <4> HIDE DEF t
        <4>4. t[1] \in TaskRow /\ DOMAIN t = 1 .. 1
          BY <4>2
        <4>5. [t EXCEPT ![1].outcome = TaskOutcome(call[r])][1].outcome = TaskOutcome(call[r])
          BY <4>4 DEF TaskRow
        <4>6. Len([t EXCEPT ![1].outcome = TaskOutcome(call[r])]) = 1
          BY <4>2
        <4> QED
          BY <3>2, <4>1, <4>2, <4>3, <4>5, <4>6 DEF Evaluated, t
      <3> QED
        BY <3>1, <3>2
    <2>4. \A e \in trail'[a] : \/ e \in trail[a]
                               \/ call[r].ep = "recommend" /\ e.act = "endorsed" /\ e.by = call[r].actor
      <3>1. CASE call[r].ep = "recommend"
        <4>1. trail' = [trail EXCEPT ![a] = @ \union {[by |-> call[r].actor, act |-> "endorsed"]}]
          BY <1>0, <1>9, <3>1 DEF SaveTask, Record
        <4> QED
          BY <1>a, <1>b, <3>1, <4>1
      <3>2. CASE call[r].ep # "recommend"
        BY <1>9, <3>2 DEF SaveTask
      <3> QED
        BY <3>1, <3>2
    <2>5. RowSeparate(a)'
      <3>1. /\ \A e \in trail'[a] : e.act = "endorsed" => e.by = evaluator'[a]
            /\ \A e \in trail'[a] : e.act = "approved" => e.by # evaluator'[a]
        <4>1. CASE call[r].ep = "decide"
          BY <1>c, <2>3, <2>4, <4>1 DEF RowSeparate
        <4>2. CASE call[r].ep # "decide"
          <5>1. \A e \in trail[a] : e.act # "endorsed" /\ e.act # "approved"
            BY <1>c, <2>2, <4>2 DEF RowSeparate
          <5> QED
            BY <2>1, <2>4, <4>2, <5>1
        <4> QED
          BY <4>1, <4>2
      <3>2. Len(tasks'[a]["evaluation"]) <= 1 /\ status'[a] \notin Early
        BY <1>c, <2>1, <2>2, <2>3 DEF RowSeparate
      <3> QED
        BY <2>3, <3>1, <3>2 DEF RowSeparate, Early
    <2>6. CallSeparate(r)'
      <3>1. CASE pc'[r] = "idle"
        BY <1>g, <3>1
      <3>2. CASE pc'[r] # "idle"
        BY <1>0, <1>c, <2>1, <2>3, <3>2 DEF CallSeparate, Evaluated
      <3> QED
        BY <3>1, <3>2
    <2> QED
      BY <1>e, <2>5, <2>6
  <1>10. CASE SpawnCheckOffice(r)
    <2>1. /\ pc[r] = "spawn" /\ UNCHANGED <<rows, trail>> /\ call[r].ep \in {"create", "submit", "recommend"}
          /\ pc'[r] \in {"idle", "finalSave", "existing", "insertTask"}
          /\ pc'[r] = "insertTask" => call[r].ep = "recommend"
          /\ pc'[r] # "idle" => call'[r] = call[r]
      BY <1>10, <1>b, <1>i DEF SpawnCheckOffice, Shape, AfterSpawnCheck, AfterSpawn
    <2>2. RowSeparate(a)' /\ (Evaluated(a)' <=> Evaluated(a))
      BY <1>f, <2>1
    <2>3. CallSeparate(r)'
      BY <1>0, <1>c, <1>g, <2>1, <2>2 DEF CallSeparate, rows, Evaluated
    <2> QED
      BY <1>e, <2>2, <2>3
  <1>11. CASE SpawnExisting(r)
    <2>1. /\ pc[r] = "existing" /\ UNCHANGED <<rows, trail>> /\ call[r].ep \in {"create", "submit"}
          /\ pc'[r] \in {"idle", "finalSave", "insertTask"}
          /\ pc'[r] = "insertTask" => PendingTasks(a, "evaluation") = {}
          /\ pc'[r] # "idle" => call'[r] = call[r]
      <3>1. PICK label \in {"idle", "finalSave", "insertTask"} :
              /\ Goto(r, label)
              /\ label = "insertTask" => PendingTasks(a, "evaluation") = {}
        BY <1>0, <1>11 DEF SpawnExisting, AfterSpawn
      <3> QED
        BY <1>11, <1>b, <1>i, <3>1 DEF SpawnExisting, Shape
    <2>2. RowSeparate(a)' /\ (Evaluated(a)' <=> Evaluated(a))
      BY <1>f, <2>1
    <2>3. ~ Evaluated(a)
      BY <1>0, <1>c, <2>1 DEF CallSeparate
    <2>4. PendingTasks(a, "evaluation") = {} => tasks[a]["evaluation"] = << >>
      <3> DEFINE t == tasks[a]["evaluation"]
      <3>1. t \in Seq(TaskRow) /\ Len(t) <= 1
        BY <1>a, <1>b, <1>c DEF RowSeparate, Steps
      <3>2. ASSUME Len(t) = 1 PROVE 1 \in PendingTasks(a, "evaluation")
        BY <2>3, <3>1, <3>2 DEF PendingTasks, Evaluated
      <3> HIDE DEF t
      <3>3. Len(t) = 1 \/ t = << >>
        BY <3>1, Short
      <3> QED
        BY <3>2, <3>3 DEF t
    <2>5. CallSeparate(r)'
      BY <1>0, <1>c, <1>g, <2>1, <2>2, <2>3, <2>4 DEF CallSeparate, rows, Evaluated
    <2> QED
      BY <1>e, <2>2, <2>5
  <1>12. CASE SpawnInsert(r)
    <2>1. /\ pc[r] = "insertTask" /\ UNCHANGED <<status, evaluator, trail>>
          /\ call[r].ep \in {"create", "submit", "recommend"}
          /\ pc'[r] = AfterSpawn(r) /\ (pc'[r] # "idle" => call'[r] = call[r])
          /\ tasks' = [tasks EXCEPT ![a][SpawnedStep(call[r].ep)] = Append(@, NewTask)]
      BY <1>0, <1>12, <1>b, <1>i DEF SpawnInsert, Shape
    <2>2. CASE call[r].ep = "recommend"
      <3>1. /\ tasks'[a]["evaluation"] = tasks[a]["evaluation"] /\ Evaluated(a) /\ pc'[r] = "idle"
        BY <1>0, <1>a, <1>b, <1>c, <2>1, <2>2 DEF CallSeparate, SpawnedStep, Steps, AfterSpawn
      <3>2. RowSeparate(a)'
        BY <1>c, <2>1, <3>1 DEF RowSeparate, Evaluated
      <3> QED
        BY <1>e, <1>g, <3>1, <3>2
    <2>3. CASE call[r].ep # "recommend"
      <3>1. tasks[a]["evaluation"] = << >> /\ ~ Evaluated(a)
        BY <1>0, <1>c, <2>1, <2>3 DEF CallSeparate
      <3>2. /\ tasks'[a]["evaluation"] = Append(<< >>, NewTask)
            /\ tasks'[a]["approval"] = tasks[a]["approval"]
        BY <1>a, <1>b, <2>1, <2>3, <3>1 DEF SpawnedStep, Steps
      <3>3. Len(tasks'[a]["evaluation"]) = 1 /\ ~ Evaluated(a)'
        BY <3>2 DEF Evaluated, NewTask
      <3>4. status[a] # "none"
        BY <1>0, <1>c, <2>1 DEF CallSeparate
      <3>5. RowSeparate(a)'
        BY <1>c, <2>1, <3>1, <3>2, <3>3, <3>4 DEF RowSeparate
      <3>6. CallSeparate(r)'
        BY <1>0, <2>1, <2>3, <3>3, <3>4 DEF CallSeparate, AfterSpawn, Evaluated
      <3> QED
        BY <1>e, <3>5, <3>6
    <2> QED
      BY <2>2, <2>3
  <1> QED
    BY <1>1, <1>2, <1>3, <1>4, <1>5, <1>6, <1>7, <1>8, <1>9, <1>10, <1>11, <1>12 DEF Continue

LEMMA SeparationBegin ==
  ASSUME TypeInv, SeparationInv, Isolated',
         NEW r \in Requests, NEW a \in Applications,
         \/ Beneficiary(r, a)
         \/ \E u \in Users : Evaluate(r, a, u) \/ Approve(r, a, u)
  PROVE  SeparationInv'
  <1>1. /\ pc'[r] # "idle" /\ call'[r].app = a /\ OnlyMoves(r) /\ UNCHANGED <<rows, tenant>>
        /\ \A b \in Applications : b # a => SameCase(b)
        /\ Patched(a)' \/ (SameCase(a) /\ UNCHANGED trail)
    BY BeginFrame
  <1>2. ASSUME NEW q \in Requests, q # r PROVE Apart(q)' \/ CallSeparate(q)'
    <2>1. pc'[q] = pc[q] /\ call'[q] = call[q]
      BY <1>1, <1>2 DEF OnlyMoves
    <2>2. ASSUME pc[q] # "idle" PROVE SameCase(call[q].app)
      <3>1. call[q].app \in Applications
        BY <2>2 DEF TypeInv, Wellformed, Shape
      <3>2. call[q].app # a
        BY <1>1, <1>2, <2>1, <2>2 DEF Isolated
      <3> QED
        BY <1>1, <3>1, <3>2
    <2> QED
      BY <2>1, <2>2, OthersSeparate, SameApart DEF SeparationInv
  <1>3. ASSUME NEW b \in Applications, b # a PROVE Patched(b)' \/ RowSeparate(b)'
    BY <1>1, <1>3, RowStaysSeparate, SamePatched DEF SeparationInv
  <1>4. CASE Patched(a)'
    <2>1. Apart(r)'
      BY <1>1, <1>4 DEF Apart, Patched, Did
    <2> QED
      BY <1>1, <1>2, <1>3, <1>4, <2>1 DEF SeparationInv, tenant
  <1>5. CASE ~ Patched(a)'
    <2>1. SameCase(a) /\ ~ Patched(a)
      BY <1>1, <1>5, SamePatched
    <2>2. RowSeparate(a) /\ RowSeparate(a)'
      BY <2>1, RowStaysSeparate DEF SeparationInv
    <2>3. (Evaluated(a)' <=> Evaluated(a)) /\ UNCHANGED <<status, tasks>>
      BY <1>1 DEF Evaluated, rows
    <2>4. \/ /\ pc'[r] = "insert" /\ call'[r].ep = "create" /\ status[a] = "none"
          \/ /\ pc'[r] \in {"answers", "save"} /\ call'[r].ep = "update"
             /\ call'[r].entity = status[a] /\ status[a] # "none"
          \/ /\ pc'[r] = "officeCheck" /\ call'[r].ep = "submit"
             /\ call'[r].entity = status[a] /\ status[a] # "none"
          \/ /\ pc'[r] = "takeTask" /\ status[a] # "none"
             /\ call'[r].ep \in {"recommend", "decline", "decide"}
      BY <1>5, BeginKinds
    <2>5. CallSeparate(r)'
      BY <1>1, <2>2, <2>3, <2>4 DEF CallSeparate, RowSeparate, Early
    <2> QED
      BY <1>1, <1>2, <1>3, <2>2, <2>5 DEF SeparationInv, tenant
  <1> QED
    BY <1>4, <1>5

LEMMA SeparationElsewhere ==
  ASSUME ~ SameOwner, MaxReopenings = 0, TypeInv, SeparationInv, Isolated',
         \/ \E a \in Applications : Claim(a) \/ CooldownElapses(a)
         \/ Office
         \/ UNCHANGED vars
  PROVE  SeparationInv'
  <1>1. ASSUME NEW a \in Applications, Claim(a) PROVE SeparationInv'
    <2>1. /\ UNCHANGED <<answers, tasks, evaluator, tenant, memory>>
          /\ status' = [status EXCEPT ![a] = "claimed"]
          /\ trail' = [trail EXCEPT ![a] = @ \union {[by |-> None, act |-> "claimed"]}]
          /\ Quiet(Owner[a])
      BY <1>1 DEF Claim, Record
    <2>2. /\ status \in [Applications -> Statuses \union {"none"}]
          /\ trail \in [Applications -> SUBSET [by : Users \union {None}, act : Acts]]
      BY DEF TypeInv, TypeOK
    <2>3. ASSUME NEW q \in Requests PROVE Apart(q)' \/ CallSeparate(q)'
      <3>1. pc[q] # "idle" => call[q].app # a /\ call[q].app \in Applications
        BY <2>1 DEF Quiet, TypeInv, Wellformed, Shape
      <3>2. pc[q] # "idle" => SameCase(call[q].app)
        BY <2>1, <2>2, <3>1 DEF SameCase
      <3>3. pc'[q] = pc[q] /\ call'[q] = call[q]
        BY <2>1 DEF memory
      <3> QED
        BY <3>2, <3>3, OthersSeparate, SameApart DEF SeparationInv
    <2>4. Patched(a)' \/ RowSeparate(a)'
      <3>1. CASE Patched(a)
        BY <2>1, <2>2, <3>1 DEF Patched, Did
      <3>2. CASE ~ Patched(a)
        <4>1. status'[a] = "claimed" /\ (Evaluated(a)' <=> Evaluated(a)) /\ RowSeparate(a)
          BY <2>1, <2>2, <3>2 DEF Evaluated, SeparationInv
        <4>2. \A e \in trail'[a] : e \in trail[a] \/ e.act = "claimed"
          BY <2>1, <2>2
        <4> QED
          BY <2>1, <4>1, <4>2 DEF RowSeparate, Early
      <3> QED
        BY <3>1, <3>2
    <2>5. \A b \in Applications : b # a => SameCase(b)
      BY <2>1, <2>2 DEF SameCase
    <2>6. \A b \in Applications : b # a => Patched(b)' \/ RowSeparate(b)'
      BY <2>5, RowStaysSeparate, SamePatched DEF SeparationInv
    <2> QED
      BY <2>1, <2>3, <2>4, <2>6 DEF SeparationInv, tenant
  <1>2. CASE UNCHANGED <<status, answers, tasks, evaluator, trail, reopening, memory>>
    <2>1. \A b \in Applications : SameCase(b)
      BY <1>2 DEF SameCase
    <2>2. \A b \in Applications : Patched(b)' \/ RowSeparate(b)'
      BY <2>1, RowStaysSeparate, SamePatched DEF SeparationInv
    <2>3. ASSUME NEW q \in Requests PROVE Apart(q)' \/ CallSeparate(q)'
      <3>1. pc[q] # "idle" => SameCase(call[q].app)
        BY <2>1 DEF TypeInv, Wellformed, Shape
      <3>2. pc'[q] = pc[q] /\ call'[q] = call[q]
        BY <1>2 DEF memory
      <3> QED
        BY <3>1, <3>2, OthersSeparate, SameApart DEF SeparationInv
    <2> QED
      BY <1>2, <2>2, <2>3 DEF SeparationInv
  <1>3. ~ ReactivateOffice /\ ~ CommitReactivation /\ ~ RollBackReactivation
    BY DEF ReactivateOffice, CommitReactivation, RollBackReactivation, SeparationInv, TypeInv, TypeOK
  <1>4. CASE ArchiveOffice \/ UNCHANGED vars \/ \E a \in Applications : CooldownElapses(a)
    <2>1. UNCHANGED <<status, answers, tasks, evaluator, trail, reopening, memory>>
      BY <1>4 DEF ArchiveOffice, CooldownElapses, vars, rows, tenant
    <2> QED
      BY <1>2, <2>1
  <1> QED
    BY <1>1, <1>3, <1>4 DEF Office

LEMMA SeparationDrop ==
  ASSUME TypeInv, SeparationInv, Isolated', NEW r \in Requests, Drop(r)
  PROVE  SeparationInv'
  <1>1. /\ pc'[r] = "idle" /\ call'[r] = NoCall /\ OnlyMoves(r) /\ UNCHANGED reopening
        /\ \A b \in Applications : SameCase(b)
    BY DropFrame DEF tenant
  <1>2. ASSUME NEW q \in Requests PROVE Apart(q)' \/ CallSeparate(q)'
    <2>1. CASE q = r
      BY <1>1, <2>1 DEF CallSeparate
    <2>2. CASE q # r
      <3>1. pc[q] # "idle" => SameCase(call[q].app)
        BY <1>1 DEF TypeInv, Wellformed, Shape
      <3>2. pc'[q] = pc[q] /\ call'[q] = call[q]
        BY <1>1, <2>2 DEF OnlyMoves
      <3> QED
        BY <3>1, <3>2, OthersSeparate, SameApart DEF SeparationInv
    <2> QED
      BY <2>1, <2>2
  <1>3. \A b \in Applications : Patched(b)' \/ RowSeparate(b)'
    BY <1>1, RowStaysSeparate, SamePatched DEF SeparationInv
  <1> QED
    BY <1>1, <1>2, <1>3 DEF SeparationInv

\* Nobody approves a case they endorsed, wherever requests die, whatever
\* statuses clients send for other cases: as long as the requests on one
\* beneficiary's cases come one by one and no archived office is reactivated.
\* A case a client sent a status itself is not among those spoken of.
THEOREM SeparationOfDutiesHolds ==
  ASSUME ~ SameOwner, MaxReopenings = 0
  PROVE  Spec => []SeparationOfDuties
  <1>1. Init => SeparationInv
    BY DEF Init, SeparationInv, Isolated, RowSeparate, CallSeparate, Evaluated, Steps, Closed
  <1>2. TypeInv /\ SeparationInv /\ [Next]_vars => SeparationInv'
    <2> SUFFICES ASSUME TypeInv, SeparationInv, [Next]_vars PROVE SeparationInv'
      OBVIOUS
    <2>1. Isolated'
      BY IsolationStep DEF SeparationInv
    <2> QED
      BY <2>1, SeparationInFlight, SeparationBegin, SeparationElsewhere, SeparationDrop DEF Next
  <1>3. Spec => []TypeInv
    BY TypeInit, TypeStep, PTL DEF Spec
  <1>4. SeparationInv => SeparationOfDuties
    BY DEF SeparationInv, RowSeparate, SeparationOfDuties, Unpatched
  <1> QED
    BY <1>1, <1>2, <1>3, <1>4, PTL DEF Spec

(***************************************************************************)
(* One request at a time, none dying and no reactivation: every case is in *)
(* one of a few pictures, at rest (AtRest) or in the middle of a request   *)
(* (Midway), and each step of a request leads from one to the next, unless *)
(* a client sent the case a status; then it is in no picture and spoken of *)
(* no more.  The promises about whole cases and the refinement of          *)
(* CaseLifecycle are read off the pictures.                                *)
(***************************************************************************)
Serial == ~ SameOwner /\ ~ Crashes /\ MaxReopenings = 0

Event(u, act) == [by |-> u, act |-> act]

Only(t, outcome) == Len(t) = 1 /\ t[1].outcome = outcome

\* The queue holds the task, or the office was archived before it could.
Waiting(t) == Only(t, "pending") \/ (t = << >> /\ office.status = "archived")

Untouched(a) ==
  tasks[a]["evaluation"] = << >> /\ tasks[a]["approval"] = << >> /\ trail[a] = {}

Endorsed(a, u) ==
  /\ u \in Evaluators /\ evaluator[a] = u /\ Only(tasks[a]["evaluation"], "endorse")
  /\ trail[a] = {Event(u, "forwarded"), Event(u, "endorsed")}

Decided(a, u, v, verdict) ==
  /\ u \in Evaluators /\ v \in Approvers /\ u # v
  /\ Only(tasks[a]["evaluation"], "endorse")
  /\ trail[a] = {Event(u, "forwarded"), Event(u, "endorsed"), Event(v, verdict)}

AtRest(a) ==
  \/ status[a] \in {"none", "draft"} /\ Untouched(a)
  \/ /\ status[a] = "in_evaluation" /\ Waiting(tasks[a]["evaluation"])
     /\ tasks[a]["approval"] = << >> /\ trail[a] = {}
  \/ /\ status[a] = "in_approval" /\ Waiting(tasks[a]["approval"])
     /\ \E u \in Evaluators : Endorsed(a, u)
  \/ /\ status[a] = "rejected" /\ Only(tasks[a]["evaluation"], "reject")
     /\ tasks[a]["approval"] = << >>
     /\ \E u \in Evaluators : trail[a] = {Event(u, "declined")}
  \/ /\ status[a] = "rejected" /\ Only(tasks[a]["approval"], "reject")
     /\ \E u \in Evaluators, v \in Approvers : Decided(a, u, v, "rejected")
  \/ /\ status[a] = "approved" /\ Only(tasks[a]["approval"], "approve")
     /\ \E u \in Evaluators, v \in Approvers : Decided(a, u, v, "approved")
  \/ /\ status[a] = "claimed" /\ Only(tasks[a]["evaluation"], "endorse")
     /\ Only(tasks[a]["approval"], "approve")
     /\ \E u \in Evaluators, v \in Approvers :
          u # v /\ trail[a] = {Event(u, "forwarded"), Event(u, "endorsed"), Event(v, "approved"),
                               Event(None, "claimed")}

Midway(r) ==
  LET c == call[r]
      a == call[r].app
  IN
  /\ pc[r] = "insert" => status[a] = "none" /\ Untouched(a) /\ GateOpen(Owner[a])
  /\ pc[r] = "answers" =>
       /\ status[a] = c.entity /\ Untouched(a)
       /\ c.entity \in IF c.ep = "update" THEN {"draft"} ELSE {"draft", "submitted"}
  /\ pc[r] = "officeCheck" => status[a] = c.entity /\ AtRest(a)
  /\ pc[r] = "takeTask" => AtRest(a)
  /\ pc[r] = "save" /\ c.ep = "update" => status[a] = c.entity /\ AtRest(a)
  /\ pc[r] = "save" /\ c.ep = "submit" =>
       status[a] = "draft" /\ Untouched(a) /\ c.entity = "in_evaluation"
  /\ pc[r] = "save" /\ c.ep \in {"recommend", "decline"} =>
       /\ status[a] = "in_evaluation" /\ tasks[a]["approval"] = << >> /\ trail[a] = {}
       /\ Only(tasks[a]["evaluation"], "pending") /\ c.task = 1
  /\ pc[r] = "saveTask" /\ c.ep \in {"recommend", "decline"} =>
       /\ status[a] = c.entity /\ tasks[a]["approval"] = << >>
       /\ Only(tasks[a]["evaluation"], "pending") /\ c.task = 1
       /\ trail[a] = {Event(c.actor, IF c.ep = "recommend" THEN "forwarded" ELSE "declined")}
  /\ pc[r] \in {"sodCheck", "save"} /\ c.ep = "decide" =>
       /\ status[a] = "in_approval" /\ Only(tasks[a]["approval"], "pending") /\ c.task = 1
       /\ \E u \in Evaluators : Endorsed(a, u)
       /\ pc[r] = "save" => evaluator[a] # c.actor
  /\ pc[r] = "saveTask" /\ c.ep = "decide" =>
       /\ status[a] = c.entity /\ Only(tasks[a]["approval"], "pending") /\ c.task = 1
       /\ \E u \in Evaluators : Decided(a, u, c.actor, c.entity)
  /\ pc[r] \in {"spawn", "existing", "insertTask"} /\ c.ep \in {"create", "submit"} =>
       /\ Untouched(a)
       /\ status[a] = IF c.ep = "create" THEN "submitted" ELSE "in_evaluation"
  /\ pc[r] = "finalSave" =>
       /\ status[a] = "submitted" /\ Waiting(tasks[a]["evaluation"])
       /\ tasks[a]["approval"] = << >> /\ trail[a] = {}
  /\ pc[r] \in {"spawn", "insertTask"} /\ c.ep = "recommend" =>
       status[a] = "in_approval" /\ tasks[a]["approval"] = << >> /\ Endorsed(a, c.actor)
  /\ pc[r] # "idle" /\ c.ep \in {"recommend", "decline"} => c.actor \in Evaluators
  /\ pc[r] # "idle" /\ c.ep = "decide" => c.actor \in Approvers

Worked(a) == \E r \in Requests : pc[r] # "idle" /\ call[r].app = a

OneOf(a, b) ==
  a # b /\ Owner[a] = Owner[b] =>
    /\ ~ (status[a] \in InProgress /\ (status[b] \in InProgress \/ b \in cooling))
    /\ ~ (a \in cooling /\ b \in cooling)

SerialInv ==
  /\ Isolated /\ ~ reopening.open
  /\ \A a \in Applications : Patched(a) \/ Worked(a) \/ AtRest(a)
  /\ \A r \in Requests : Apart(r) \/ Midway(r)
  /\ \A a, b \in Applications : Patched(a) \/ Patched(b) \/ OneOf(a, b)
  /\ \A a \in cooling : Patched(a) \/ status[a] = "claimed"

LEMMA Resting ==
  ASSUME NEW a \in Applications, AtRest(a), SameCase(a),
         office.status = "archived" => office'.status = "archived"
  PROVE  AtRest(a)'
  BY DEF AtRest, SameCase, Untouched, Waiting, Only, Endorsed, Decided

\* The gate reads the cases of one beneficiary only.
LEMMA SameGate ==
  ASSUME NEW b, GateOpen(b),
         \A a \in Applications : Owner[a] = b =>
           status'[a] = status[a] /\ (a \in cooling' => a \in cooling)
  PROVE  GateOpen(b)'
  BY DEF GateOpen

\* Who does not move stays in its picture.
LEMMA OthersMidway ==
  ASSUME TypeInv, NEW q \in Requests, Midway(q), pc'[q] = pc[q], call'[q] = call[q],
         pc[q] # "idle" => SameCase(call[q].app),
         pc[q] # "idle" => \A a \in Applications : Owner[a] = Owner[call[q].app] =>
           status'[a] = status[a] /\ (a \in cooling' => a \in cooling),
         office.status = "archived" => office'.status = "archived"
  PROVE  Midway(q)'
  <1>1. CASE pc[q] = "idle"
    BY <1>1 DEF Midway
  <1>2. CASE pc[q] # "idle"
    <2>1. PICK a \in Applications : a = call[q].app
      BY <1>2 DEF TypeInv, Wellformed, Shape
    <2>2. GateOpen(Owner[a]) => GateOpen(Owner[a])'
      BY <1>2, <2>1, SameGate
    <2>3. AtRest(a) => AtRest(a)'
      BY <1>2, <2>1, Resting
    <2>4. /\ Untouched(a) => Untouched(a)'
          /\ Waiting(tasks[a]["evaluation"]) => Waiting(tasks[a]["evaluation"])'
          /\ \A u : Endorsed(a, u) => Endorsed(a, u)'
          /\ \A u, v, x : Decided(a, u, v, x) => Decided(a, u, v, x)'
          /\ SameCase(a)
      BY <1>2, <2>1 DEF SameCase, Untouched, Waiting, Only, Endorsed, Decided
    <2>5. /\ \A s, o : Only(tasks[a][s], o) <=> Only(tasks'[a][s], o)
      BY <2>4 DEF SameCase, Only
    <2> QED
      BY <1>2, <2>1, <2>2, <2>3, <2>4, <2>5 DEF Midway, SameCase
  <1> QED
    BY <1>1, <1>2

\* A step of request r on case a that leaves it in a picture, or the case set
\* apart, and every other case and request alone.
LEMMA SerialFrame ==
  ASSUME TypeInv, SerialInv, Isolated', NEW a \in Applications, NEW r \in Requests, OnlyMoves(r),
         pc[r] # "idle" => call[r].app = a, pc'[r] # "idle" => call'[r].app = a,
         \A q \in Requests \ {r} : pc[q] # "idle" => Owner[call[q].app] # Owner[a],
         \A b \in Applications : b # a => SameCase(b), UNCHANGED <<cooling, tenant>>,
         Patched(a) => Patched(a)',
         \/ Patched(a)'
         \/ /\ Midway(r)'
            /\ pc'[r] = "idle" => AtRest(a)'
            /\ status'[a] \in InProgress => status[a] \in InProgress \/ GateOpen(Owner[a])
            /\ a \in cooling => status'[a] = "claimed"
  PROVE  SerialInv'
  <1>1. UNCHANGED <<office, reopening, cooling>>
    BY DEF tenant
  <1>2. ASSUME NEW q \in Requests, q # r PROVE Apart(q)' \/ Midway(q)'
    <2>1. pc'[q] = pc[q] /\ call'[q] = call[q]
      BY <1>2 DEF OnlyMoves
    <2>2. ASSUME pc[q] # "idle"
          PROVE  /\ SameCase(call[q].app)
                 /\ \A b \in Applications : Owner[b] = Owner[call[q].app] => status'[b] = status[b]
      <3>1. call[q].app \in Applications
        BY <2>2 DEF TypeInv, Wellformed, Shape
      <3>2. \A b \in Applications : Owner[b] = Owner[call[q].app] => b # a
        BY <1>2, <2>2
      <3> QED
        BY <3>1, <3>2 DEF SameCase
    <2>3. Apart(q) => Apart(q)'
      BY <2>1, <2>2, SameApart
    <2>4. Midway(q) => Midway(q)'
      BY <1>1, <2>1, <2>2, OthersMidway
    <2> QED
      BY <2>3, <2>4 DEF SerialInv
  <1>6. Apart(r)' \/ Midway(r)'
    <2>1. CASE Patched(a)' /\ pc'[r] # "idle"
      BY <2>1 DEF Apart, Patched, Did
    <2>2. CASE pc'[r] = "idle"
      BY <2>2 DEF Midway
    <2> QED
      BY <2>1, <2>2
  <1>7. \A b \in Applications : b # a => (Patched(b)' <=> Patched(b))
    BY SamePatched
  <1>3. ASSUME NEW b \in Applications, ~ Worked(b)', ~ Patched(b)' PROVE AtRest(b)'
    <2>1. CASE b = a
      BY <1>3, <2>1 DEF Worked
    <2>2. CASE b # a
      <3>1. ~ Worked(b) /\ ~ Patched(b)
        BY <1>3, <1>7, <2>2 DEF Worked, OnlyMoves
      <3> QED
        BY <1>1, <2>2, <3>1, Resting DEF SerialInv
    <2> QED
      BY <2>1, <2>2
  <1>4. ASSUME NEW b \in Applications, NEW c \in Applications, ~ Patched(b)', ~ Patched(c)'
        PROVE  OneOf(b, c)'
    <2>1. \A x \in Applications : x # a => status'[x] = status[x]
      BY DEF SameCase
    <2>0. ~ Patched(b) /\ ~ Patched(c)
      BY <1>4, <1>7
    <2>2. OneOf(b, c) /\ OneOf(c, b)
      BY <2>0 DEF SerialInv
    <2>3. ASSUME GateOpen(Owner[a]), NEW x \in {b, c}, Owner[x] = Owner[a]
          PROVE  status[x] \notin InProgress /\ x \notin cooling
      BY <2>0, <2>3 DEF GateOpen, SerialInv
    <2>4. CASE b # a /\ c # a
      BY <1>1, <2>1, <2>2, <2>4 DEF OneOf
    <2>5. CASE b = a /\ c # a
      <3>1. status'[c] = status[c]
        BY <2>1, <2>5
      <3>2. /\ status'[a] \in InProgress => status[a] \in InProgress \/ GateOpen(Owner[a])
            /\ a \in cooling => status'[a] = "claimed"
        BY <1>4, <2>5
      <3> QED
        BY <1>1, <2>2, <2>3, <2>5, <3>1, <3>2 DEF OneOf
    <2>6. CASE b # a /\ c = a
      <3>1. status'[b] = status[b]
        BY <2>1, <2>6
      <3>2. /\ status'[a] \in InProgress => status[a] \in InProgress \/ GateOpen(Owner[a])
            /\ a \in cooling => status'[a] = "claimed"
        BY <1>4, <2>6
      <3> QED
        BY <1>1, <2>2, <2>3, <2>6, <3>1, <3>2 DEF OneOf
    <2>7. CASE b = a /\ c = a
      BY <2>7 DEF OneOf
    <2> QED
      BY <2>4, <2>5, <2>6, <2>7
  <1>5. ASSUME NEW b \in cooling', ~ Patched(b)' PROVE status'[b] = "claimed"
    <2>1. b \in cooling /\ b \in Applications
      BY <1>1, <1>5 DEF TypeInv, TypeOK
    <2>2. CASE b = a
      BY <1>5, <2>1, <2>2
    <2>3. CASE b # a
      BY <1>5, <1>7, <2>1, <2>3 DEF SerialInv, SameCase
    <2> QED
      BY <2>2, <2>3
  <1>8. \A q \in Requests : Apart(q)' \/ Midway(q)'
    BY <1>2, <1>6
  <1> QED
    BY <1>1, <1>3, <1>4, <1>5, <1>8 DEF SerialInv

\* The first task of a queue, and the decision on it.
LEMMA FirstTask == Only(Append(<< >>, NewTask), "pending")
  BY DEF Only, NewTask

LEMMA DecidedTask ==
  ASSUME NEW t \in Seq(TaskRow), Len(t) = 1, NEW o
  PROVE  Only([t EXCEPT ![1].outcome = o], o)
  <1>1. t[1] \in TaskRow /\ DOMAIN t = 1 .. 1
    OBVIOUS
  <1>2. [t EXCEPT ![1].outcome = o][1].outcome = o
    BY <1>1 DEF TaskRow
  <1>3. Len([t EXCEPT ![1].outcome = o]) = 1
    OBVIOUS
  <1> QED
    BY <1>2, <1>3 DEF Only

LEMMA SerialInFlight ==
  ASSUME TypeInv, SerialInv, Isolated', NEW r \in Requests, Continue(r)
  PROVE  SerialInv'
  <1>0. PICK a \in Applications : a = call[r].app
    BY ContinueFrame
  <1>a. /\ pc[r] # "idle" /\ OnlyMoves(r)
        /\ pc'[r] # "idle" =>
             call'[r].app = a /\ call'[r].ep = call[r].ep /\ call'[r].actor = call[r].actor
        /\ \A b \in Applications : b # a => SameCase(b)
        /\ UNCHANGED <<cooling, tenant>>
    BY <1>0, ContinueFrame
  <1>b. /\ pc \in [Requests -> Labels] /\ call \in [Requests -> Call] /\ Shape(r)
        /\ call[r] \in Call /\ tasks \in [Applications -> [Steps -> Seq(TaskRow)]]
        /\ status \in [Applications -> Statuses \union {"none"}]
        /\ evaluator \in [Applications -> Users \union {None}]
        /\ trail \in [Applications -> SUBSET [by : Users \union {None}, act : Acts]]
        /\ office.status \in {"active", "archived"}
        /\ tasks[a]["evaluation"] \in Seq(TaskRow) /\ tasks[a]["approval"] \in Seq(TaskRow)
        /\ Steps = {"evaluation", "approval"}
    BY DEF TypeInv, TypeOK, Wellformed, Steps
  <1>d. \A q \in Requests \ {r} : pc[q] # "idle" => Owner[call[q].app] # Owner[a]
    BY <1>0, <1>a DEF SerialInv, Isolated
  <1>j. Patched(a) => Patched(a)'
    BY PatchedStays DEF Next
  <1>p. ASSUME Patched(a) PROVE SerialInv'
    BY <1>0, <1>a, <1>d, <1>j, <1>p, SerialFrame
  <1> SUFFICES ASSUME ~ Patched(a) PROVE SerialInv'
    BY <1>p
  <1>c. Midway(r) /\ UNCHANGED office
    BY <1>0, <1>a DEF SerialInv, Apart, tenant
  <1>e. ASSUME Midway(r)', pc'[r] = "idle" => AtRest(a)',
               \/ status'[a] = status[a]
               \/ /\ status[a] # "claimed"
                  /\ status'[a] \in InProgress => status[a] \in InProgress \/ GateOpen(Owner[a])
        PROVE  SerialInv'
    <2>1. a \in cooling => status'[a] = "claimed"
      BY <1>e DEF SerialInv
    <2> QED
      BY <1>0, <1>a, <1>d, <1>e, <1>j, <2>1, SerialFrame
  <1>g. ASSUME pc'[r] = "idle" PROVE Midway(r)'
    BY <1>g DEF Midway
  <1>h. ASSUME UNCHANGED rows, UNCHANGED trail
        PROVE  /\ AtRest(a) => AtRest(a)'
               /\ Untouched(a) => Untouched(a)'
               /\ \A u : Endorsed(a, u) => Endorsed(a, u)'
               /\ UNCHANGED <<status, tasks, evaluator>>
    BY <1>h, <1>c, Resting DEF rows, SameCase, Untouched, Endorsed, Only
  <1>i. ASSUME NEW label, Goto(r, label)
        PROVE  pc'[r] = label /\ (label # "idle" => call'[r] = call[r])
    BY <1>b, <1>i DEF Goto
  <1>1. CASE InsertApplication(r)
    <2>1. /\ pc'[r] = "answers" /\ call'[r] = call[r] /\ UNCHANGED <<tasks, evaluator, trail>>
          /\ call[r].ep = "create" /\ pc[r] = "insert"
          /\ status'[a] = call[r].entity /\ call[r].entity \in {"draft", "submitted"}
      BY <1>1, <1>0, <1>b, <1>i DEF InsertApplication, Shape
    <2>2. status[a] = "none" /\ Untouched(a) /\ GateOpen(Owner[a])
      BY <1>0, <1>c, <2>1 DEF Midway
    <2>3. Midway(r)'
      BY <1>0, <2>1, <2>2 DEF Midway, Untouched
    <2> QED
      BY <1>e, <2>1, <2>2, <2>3
  <1>2. CASE WriteAnswers(r)
    <2>1. /\ pc'[r] = AfterAnswers(call[r]) /\ UNCHANGED <<status, tasks, evaluator, trail>>
          /\ pc[r] = "answers" /\ (pc'[r] # "idle" => call'[r] = call[r])
          /\ call[r].ep \in {"create", "update"}
      BY <1>2, <1>b, <1>i DEF WriteAnswers, Shape
    <2>2. /\ status[a] = call[r].entity /\ Untouched(a) /\ Untouched(a)'
          /\ call[r].entity \in IF call[r].ep = "update" THEN {"draft"} ELSE {"draft", "submitted"}
      BY <1>0, <1>c, <2>1 DEF Midway, Untouched
    <2>3. pc'[r] \in {"idle", "save"} => AtRest(a)'
      BY <2>1, <2>2 DEF AtRest, AfterAnswers
    <2>4. Midway(r)'
      BY <1>0, <2>1, <2>2, <2>3 DEF Midway, AfterAnswers
    <2> QED
      BY <1>e, <2>1, <2>3, <2>4
  <1>3. CASE FinalSave(r)
    <2>1. /\ pc'[r] = "idle" /\ UNCHANGED <<tasks, evaluator, trail>> /\ status'[a] = "in_evaluation"
          /\ pc[r] = "finalSave"
      BY <1>3, <1>0, <1>b, <1>i DEF FinalSave
    <2>2. /\ status[a] = "submitted" /\ Waiting(tasks[a]["evaluation"])
          /\ tasks[a]["approval"] = << >> /\ trail[a] = {}
      BY <1>0, <1>c, <2>1 DEF Midway
    <2>3. AtRest(a)'
      BY <1>c, <2>1, <2>2 DEF AtRest, Waiting, Only
    <2> QED
      BY <1>e, <1>g, <2>1, <2>2, <2>3 DEF InProgress
  <1>4. CASE CheckSubmittable(r)
    <2>1. /\ pc[r] = "officeCheck" /\ call[r].ep = "submit" /\ UNCHANGED <<rows, trail>>
      BY <1>4, <1>b DEF CheckSubmittable, Shape
    <2>2. status[a] = call[r].entity /\ AtRest(a)
      BY <1>0, <1>c, <2>1 DEF Midway
    <2>3. CASE Goto(r, "idle")
      BY <1>e, <1>g, <1>h, <1>i, <2>1, <2>2, <2>3
    <2>4. CASE /\ call[r].entity \in {"draft", "submitted"}
               /\ Begin(r, "save", [call[r] EXCEPT !.entity = "in_evaluation"])
      <3>1. /\ pc'[r] = "save" /\ call'[r].ep = "submit" /\ call'[r].app = a
            /\ call'[r].entity = "in_evaluation"
        BY <1>0, <1>b, <2>1, <2>4 DEF Begin, Call
      <3>2. status[a] = "draft" /\ Untouched(a)
        BY <2>2, <2>4 DEF AtRest
      <3>3. Midway(r)'
        BY <1>h, <2>1, <3>1, <3>2 DEF Midway
      <3> QED
        BY <1>e, <1>h, <2>1, <3>1, <3>3
    <2> QED
      BY <1>4, <2>3, <2>4 DEF CheckSubmittable
  <1>5. CASE TakeTask(r)
    <2>1. PICK n \in DOMAIN tasks[a][StepOf(call[r].ep)] :
            /\ tasks[a][StepOf(call[r].ep)][n].outcome = "pending"
            /\ Begin(r, IF call[r].ep = "decide" THEN "sodCheck" ELSE "save",
                     [call[r] EXCEPT !.task = n, !.since = 0])
      BY <1>5, <1>0 DEF TakeTask, Actionable, Served, PendingTasks
    <2>2. /\ UNCHANGED <<rows, trail>> /\ pc[r] = "takeTask"
          /\ call[r].ep \in {"recommend", "decline", "decide"}
      BY <1>5, <1>b DEF TakeTask, Shape
    <2>3. /\ pc'[r] = (IF call[r].ep = "decide" THEN "sodCheck" ELSE "save") /\ call'[r].task = n
          /\ call'[r].ep = call[r].ep /\ call'[r].app = a /\ call'[r].actor = call[r].actor
          /\ call'[r].entity = call[r].entity
      <3> DEFINE c == [call[r] EXCEPT !.task = n, !.since = 0]
      <3>1. /\ c.task = n /\ c.ep = call[r].ep /\ c.app = a /\ c.actor = call[r].actor
            /\ c.entity = call[r].entity
        BY <1>0, <1>b DEF Call
      <3>2. pc'[r] = (IF call[r].ep = "decide" THEN "sodCheck" ELSE "save") /\ call'[r] = c
        BY <1>b, <2>1 DEF Begin
      <3> QED
        BY <3>1, <3>2
    <2>4. AtRest(a)
      BY <1>0, <1>c, <2>2 DEF Midway
    <2>p. ASSUME NEW t \in Seq(TaskRow), NEW m \in DOMAIN t, t[m].outcome = "pending"
          PROVE  /\ t # << >> /\ \A o : o # "pending" => ~ Only(t, o)
                 /\ Only(t, "pending") => m = 1
      <3>1. ASSUME Len(t) = 1 PROVE m = 1
        BY <2>p, <3>1
      <3> QED
        BY <2>p, <3>1 DEF Only
    <2>5. CASE call[r].ep = "decide"
      <3>1. n \in DOMAIN tasks[a]["approval"] /\ tasks[a]["approval"][n].outcome = "pending"
        BY <2>1, <2>5 DEF StepOf
      <3>2. /\ status[a] = "in_approval" /\ Only(tasks[a]["approval"], "pending") /\ n = 1
            /\ \E u \in Evaluators : Endorsed(a, u)
        BY <1>b, <2>4, <2>p, <3>1 DEF AtRest, Untouched, Waiting
      <3>3. Midway(r)'
        BY <1>0, <1>c, <1>h, <2>2, <2>3, <2>5, <3>2 DEF Midway
      <3> QED
        BY <1>e, <1>h, <2>2, <2>3, <3>3
    <2>6. CASE call[r].ep # "decide"
      <3>1. n \in DOMAIN tasks[a]["evaluation"] /\ tasks[a]["evaluation"][n].outcome = "pending"
        BY <2>1, <2>6 DEF StepOf
      <3>2. /\ status[a] = "in_evaluation" /\ Only(tasks[a]["evaluation"], "pending") /\ n = 1
            /\ tasks[a]["approval"] = << >> /\ trail[a] = {}
        BY <1>b, <2>4, <2>p, <3>1 DEF AtRest, Untouched, Waiting, Endorsed, Decided
      <3>3. Midway(r)'
        BY <1>0, <1>c, <1>h, <2>2, <2>3, <2>6, <3>2 DEF Midway
      <3> QED
        BY <1>e, <1>h, <2>2, <2>3, <3>3
    <2> QED
      BY <2>5, <2>6
  <1>6. CASE RefuseReview(r)
    <2>1. pc[r] = "takeTask" /\ pc'[r] = "idle" /\ UNCHANGED <<rows, trail>>
      BY <1>6, <1>i DEF RefuseReview
    <2>2. AtRest(a)
      BY <1>0, <1>c, <2>1 DEF Midway
    <2> QED
      BY <1>e, <1>g, <1>h, <2>1, <2>2
  <1>7. CASE CheckSeparation(r)
    <2>1. /\ UNCHANGED <<rows, trail>> /\ pc[r] = "sodCheck" /\ call[r].ep = "decide"
          /\ pc'[r] \in {"idle", "save"}
          /\ pc'[r] = "save" => call'[r] = call[r] /\ evaluator[a] # call[r].actor
      BY <1>7, <1>0, <1>b, <1>i DEF CheckSeparation, Shape
    <2>2. /\ status[a] = "in_approval" /\ Only(tasks[a]["approval"], "pending") /\ call[r].task = 1
          /\ \E u \in Evaluators : Endorsed(a, u)
      BY <1>0, <1>c, <2>1 DEF Midway
    <2>3. AtRest(a)'
      BY <1>h, <2>1, <2>2 DEF AtRest, Waiting
    <2>4. Midway(r)'
      BY <1>0, <1>c, <1>h, <2>1, <2>2 DEF Midway
    <2> QED
      BY <1>e, <1>h, <2>1, <2>3, <2>4
  <1>8. CASE SaveApplication(r)
    <2>1. /\ pc[r] = "save" /\ UNCHANGED <<tasks, evaluator>>
          /\ status'[a] = call[r].entity
          /\ call[r].ep \in {"submit", "update", "recommend", "decline", "decide"}
          /\ pc'[r] = AfterSave(call[r].ep) /\ (pc'[r] # "idle" => call'[r] = call[r])
      BY <1>8, <1>0, <1>b, <1>i DEF SaveApplication, Shape, AllEndpoints
    <2>2. ASSUME call[r].ep \in {"recommend", "decline", "decide"}
          PROVE  trail'[a] = trail[a] \union {Event(call[r].actor, ActOf(call[r]))}
      BY <1>8, <1>0, <1>b, <2>2 DEF SaveApplication, Record, Event
    <2>3. CASE call[r].ep = "update"
      <3>1. status[a] = call[r].entity /\ AtRest(a) /\ UNCHANGED trail
        BY <1>8, <1>0, <1>c, <2>1, <2>3 DEF Midway, SaveApplication
      <3>2. AtRest(a)'
        BY <1>8, <1>c, <2>1, <3>1, Resting DEF SameCase, SaveApplication
      <3> QED
        BY <1>e, <1>g, <2>1, <2>3, <3>1, <3>2 DEF AfterSave
    <2>4. CASE call[r].ep = "submit"
      <3>1. status[a] = "draft" /\ Untouched(a) /\ call[r].entity = "in_evaluation" /\ UNCHANGED trail
        BY <1>8, <1>0, <1>c, <2>1, <2>4 DEF Midway, SaveApplication
      <3>2. pc'[r] = "spawn" /\ Midway(r)'
        BY <1>0, <2>1, <2>4, <3>1 DEF Midway, AfterSave, Untouched
      <3> QED
        BY <1>e, <2>1, <3>1, <3>2 DEF InProgress
    <2>5. CASE call[r].ep \in {"recommend", "decline"}
      <3>1. /\ status[a] = "in_evaluation" /\ tasks[a]["approval"] = << >> /\ trail[a] = {}
            /\ Only(tasks[a]["evaluation"], "pending") /\ call[r].task = 1
            /\ call[r].actor \in Evaluators
        BY <1>0, <1>a, <1>c, <2>1, <2>5 DEF Midway
      <3>2. trail'[a] = {Event(call[r].actor, IF call[r].ep = "recommend" THEN "forwarded" ELSE "declined")}
        BY <2>2, <2>5, <3>1 DEF ActOf
      <3>3. pc'[r] = "saveTask" /\ Midway(r)'
        BY <1>0, <2>1, <2>5, <3>1, <3>2 DEF Midway, AfterSave, Only
      <3> QED
        BY <1>e, <2>1, <3>1, <3>3 DEF InProgress
    <2>6. CASE call[r].ep = "decide"
      <3>1. /\ status[a] = "in_approval" /\ Only(tasks[a]["approval"], "pending") /\ call[r].task = 1
            /\ evaluator[a] # call[r].actor /\ call[r].actor \in Approvers
        BY <1>0, <1>a, <1>c, <2>1, <2>6 DEF Midway
      <3>2. PICK u \in Evaluators : Endorsed(a, u)
        BY <1>0, <1>c, <2>1, <2>6 DEF Midway
      <3>3. Decided(a, u, call[r].actor, call[r].entity)'
        <4>1. trail'[a] = trail[a] \union {Event(call[r].actor, call[r].entity)}
          BY <2>2, <2>6 DEF ActOf
        <4>2. call'[r] = call[r]
          BY <2>1, <2>6 DEF AfterSave
        <4>3. trail'[a] = {Event(u, "forwarded"), Event(u, "endorsed"),
                           Event(call[r].actor, call[r].entity)}
          BY <3>2, <4>1 DEF Endorsed
        <4> QED
          BY <2>1, <3>1, <3>2, <4>2, <4>3 DEF Decided, Endorsed, Only
      <3>4. pc'[r] = "saveTask" /\ Midway(r)'
        BY <1>0, <2>1, <2>6, <3>1, <3>3 DEF Midway, AfterSave, Only
      <3> QED
        BY <1>e, <2>1, <3>1, <3>4 DEF InProgress
    <2> QED
      BY <2>1, <2>3, <2>4, <2>5, <2>6
  <1>9. CASE SaveTask(r)
    <2>1. /\ pc[r] = "saveTask" /\ call[r].ep \in {"recommend", "decline", "decide"}
          /\ UNCHANGED status
          /\ tasks' = [tasks EXCEPT ![a][StepOf(call[r].ep)][call[r].task].outcome = TaskOutcome(call[r])]
          /\ evaluator'[a] = IF call[r].ep = "decide" THEN evaluator[a] ELSE call[r].actor
          /\ pc'[r] = (IF call[r].ep = "recommend" THEN "spawn" ELSE "idle")
          /\ pc'[r] # "idle" => call'[r] = call[r]
      BY <1>9, <1>0, <1>b, <1>i DEF SaveTask, Shape
    <2>2. CASE call[r].ep \in {"recommend", "decline"}
      <3>1. /\ status[a] = call[r].entity /\ tasks[a]["approval"] = << >>
            /\ Only(tasks[a]["evaluation"], "pending") /\ call[r].task = 1
            /\ trail[a] = {Event(call[r].actor, IF call[r].ep = "recommend" THEN "forwarded" ELSE "declined")}
            /\ call[r].actor \in Evaluators
        BY <1>0, <1>a, <1>c, <2>1, <2>2 DEF Midway
      <3>2. /\ tasks'[a]["approval"] = << >>
            /\ tasks'[a]["evaluation"] = [tasks[a]["evaluation"] EXCEPT ![1].outcome = TaskOutcome(call[r])]
        BY <1>b, <2>1, <2>2, <3>1 DEF StepOf
      <3>3. Only(tasks'[a]["evaluation"], TaskOutcome(call[r]))
        BY <1>b, <3>1, <3>2, DecidedTask DEF Only
      <3>4. CASE call[r].ep = "recommend"
        <4>1. trail'[a] = {Event(call[r].actor, "forwarded"), Event(call[r].actor, "endorsed")}
          BY <1>9, <1>0, <1>b, <3>1, <3>4 DEF SaveTask, Record, Event
        <4>2. status[a] = "in_approval" /\ call'[r] = call[r] /\ pc'[r] = "spawn"
          BY <1>b, <2>1, <3>1, <3>4 DEF Shape
        <4>3. Endorsed(a, call[r].actor)'
          BY <2>1, <3>1, <3>3, <3>4, <4>1, <4>2 DEF Endorsed, TaskOutcome, Only
        <4>4. Midway(r)'
          BY <1>0, <2>1, <3>1, <3>2, <3>4, <4>2, <4>3 DEF Midway
        <4> QED
          BY <1>e, <2>1, <4>2, <4>4
      <3>5. CASE call[r].ep = "decline"
        <4>1. UNCHANGED trail /\ status[a] = "rejected" /\ TaskOutcome(call[r]) = "reject" /\ pc'[r] = "idle"
          BY <1>9, <1>b, <2>1, <3>1, <3>5 DEF SaveTask, Shape, TaskOutcome
        <4>2. trail[a] = {Event(call[r].actor, "declined")} /\ call[r].actor \in Evaluators
          BY <3>1, <3>5
        <4>3. AtRest(a)'
          <5>1. PICK u \in Evaluators : trail[a] = {Event(u, "declined")}
            BY <4>2
          <5> QED
            BY <2>1, <3>2, <3>3, <4>1, <5>1 DEF AtRest, Only
        <4> QED
          BY <1>e, <1>g, <2>1, <4>1, <4>3
      <3> QED
        BY <2>2, <3>4, <3>5
    <2>3. CASE call[r].ep = "decide"
      <3>1. /\ status[a] = call[r].entity /\ Only(tasks[a]["approval"], "pending") /\ call[r].task = 1
            /\ call[r].actor \in Approvers /\ call[r].entity \in {"approved", "rejected"}
        BY <1>0, <1>a, <1>b, <1>c, <2>1, <2>3 DEF Midway, Shape
      <3>2. PICK u \in Evaluators : Decided(a, u, call[r].actor, call[r].entity)
        BY <1>0, <1>c, <2>1, <2>3 DEF Midway
      <3>3. /\ tasks'[a]["evaluation"] = tasks[a]["evaluation"] /\ pc'[r] = "idle"
            /\ tasks'[a]["approval"] = [tasks[a]["approval"] EXCEPT ![1].outcome = TaskOutcome(call[r])]
            /\ UNCHANGED trail
        <4>1. tasks' = [tasks EXCEPT ![a]["approval"][1].outcome = TaskOutcome(call[r])]
          BY <2>1, <2>3, <3>1 DEF StepOf
        <4>2. UNCHANGED trail
          BY <1>9, <2>3 DEF SaveTask
        <4> QED
          BY <1>b, <2>1, <2>3, <4>1, <4>2
      <3>4. Only(tasks'[a]["approval"], TaskOutcome(call[r]))
        BY <1>b, <3>1, <3>3, DecidedTask DEF Only
      <3>5. PICK v \in Approvers, x \in {"approved", "rejected"} : v = call[r].actor /\ x = call[r].entity
        BY <3>1
      <3>6. Decided(a, u, v, x)'
        BY <3>2, <3>3, <3>5 DEF Decided, Only
      <3>7. Only(tasks'[a]["approval"], IF x = "approved" THEN "approve" ELSE "reject")
        BY <2>3, <3>4, <3>5 DEF TaskOutcome
      <3>8. AtRest(a)'
        BY <2>1, <3>1, <3>5, <3>6, <3>7 DEF AtRest, Only
      <3> QED
        BY <1>e, <1>g, <2>1, <3>3, <3>8
    <2> QED
      BY <2>1, <2>2, <2>3
  <1>10. CASE SpawnCheckOffice(r)
    <2>1. /\ pc[r] = "spawn" /\ UNCHANGED <<rows, trail>> /\ call[r].ep \in {"create", "submit", "recommend"}
          /\ pc'[r] = AfterSpawnCheck(r)
          /\ pc'[r] # "idle" => call'[r] = call[r]
      BY <1>10, <1>b, <1>i DEF SpawnCheckOffice, Shape
    <2>2. CASE call[r].ep = "recommend"
      <3>1. status[a] = "in_approval" /\ tasks[a]["approval"] = << >> /\ Endorsed(a, call[r].actor)
            /\ call[r].actor \in Evaluators
        BY <1>0, <1>a, <1>c, <2>1, <2>2 DEF Midway
      <3>2. PICK u \in Evaluators : u = call[r].actor
        BY <3>1
      <3>3. pc'[r] = "idle" => office.status = "archived"
        BY <1>b, <2>1, <2>2 DEF AfterSpawnCheck
      <3>4. pc'[r] = "idle" => AtRest(a)'
        BY <1>c, <1>h, <2>1, <3>1, <3>2, <3>3 DEF AtRest, Waiting
      <3>5. Midway(r)'
        BY <1>0, <1>g, <1>h, <2>1, <2>2, <3>1, <3>2 DEF Midway, AfterSpawnCheck, AfterSpawn
      <3> QED
        BY <1>e, <1>h, <2>1, <3>4, <3>5
    <2>3. CASE call[r].ep \in {"create", "submit"}
      <3>1. Untouched(a) /\ status[a] = IF call[r].ep = "create" THEN "submitted" ELSE "in_evaluation"
        BY <1>0, <1>c, <2>1, <2>3 DEF Midway
      <3>2. pc'[r] # "existing" => office'.status = "archived"
        BY <1>b, <1>c, <2>1, <2>3 DEF AfterSpawnCheck
      <3>3. pc'[r] = "idle" => AtRest(a)'
        BY <1>h, <2>1, <2>3, <3>1, <3>2 DEF AtRest, Waiting, Untouched, AfterSpawnCheck, AfterSpawn
      <3>4. Midway(r)'
        BY <1>0, <1>g, <1>h, <2>1, <2>3, <3>1, <3>2
           DEF Midway, AfterSpawnCheck, AfterSpawn, Waiting, Untouched
      <3> QED
        BY <1>e, <1>h, <2>1, <3>3, <3>4
    <2> QED
      BY <2>1, <2>2, <2>3
  <1>11. CASE SpawnExisting(r)
    <2>1. /\ pc[r] = "existing" /\ UNCHANGED <<rows, trail>> /\ call[r].ep \in {"create", "submit"}
      BY <1>11, <1>b DEF SpawnExisting, Shape
    <2>2. Untouched(a) /\ status[a] = IF call[r].ep = "create" THEN "submitted" ELSE "in_evaluation"
      BY <1>0, <1>c, <2>1 DEF Midway
    <2>3. PendingTasks(a, "evaluation") = {}
      BY <2>2 DEF Untouched, PendingTasks
    <2>4. pc'[r] = "insertTask" /\ call'[r] = call[r]
      BY <1>11, <1>0, <1>i, <2>3 DEF SpawnExisting
    <2>5. Midway(r)'
      BY <1>0, <1>h, <2>1, <2>2, <2>4 DEF Midway
    <2> QED
      BY <1>e, <1>h, <2>1, <2>4, <2>5
  <1>12. CASE SpawnInsert(r)
    <2>1. /\ pc[r] = "insertTask" /\ UNCHANGED <<status, evaluator, trail>>
          /\ call[r].ep \in {"create", "submit", "recommend"}
          /\ pc'[r] = AfterSpawn(r) /\ (pc'[r] # "idle" => call'[r] = call[r])
          /\ tasks' = [tasks EXCEPT ![a][SpawnedStep(call[r].ep)] = Append(@, NewTask)]
      BY <1>12, <1>0, <1>b, <1>i DEF SpawnInsert, Shape
    <2>2. CASE call[r].ep = "recommend"
      <3>1. /\ status[a] = "in_approval" /\ tasks[a]["approval"] = << >> /\ Endorsed(a, call[r].actor)
            /\ call[r].actor \in Evaluators
        BY <1>0, <1>a, <1>c, <2>1, <2>2 DEF Midway
      <3>2. /\ tasks'[a]["evaluation"] = tasks[a]["evaluation"] /\ pc'[r] = "idle"
            /\ tasks'[a]["approval"] = Append(<< >>, NewTask)
        BY <1>b, <2>1, <2>2, <3>1 DEF SpawnedStep, AfterSpawn
      <3>3. PICK u \in Evaluators : Endorsed(a, u)
        BY <3>1
      <3>4. Endorsed(a, u)' /\ Only(tasks'[a]["approval"], "pending")
        BY <2>1, <3>2, <3>3, FirstTask DEF Endorsed, Only
      <3>5. AtRest(a)'
        BY <2>1, <3>1, <3>4 DEF AtRest, Waiting, Only
      <3> QED
        BY <1>e, <1>g, <2>1, <3>2, <3>5
    <2>3. CASE call[r].ep # "recommend"
      <3>1. Untouched(a) /\ status[a] = IF call[r].ep = "create" THEN "submitted" ELSE "in_evaluation"
        BY <1>0, <1>c, <2>1, <2>3 DEF Midway
      <3>2. /\ tasks'[a]["evaluation"] = Append(<< >>, NewTask) /\ tasks'[a]["approval"] = << >>
            /\ trail'[a] = {}
        BY <1>b, <2>1, <2>3, <3>1 DEF SpawnedStep, Untouched
      <3>3. Only(tasks'[a]["evaluation"], "pending")
        BY <3>2, FirstTask
      <3>4. pc'[r] = "idle" => AtRest(a)'
        BY <2>1, <2>3, <3>1, <3>2, <3>3 DEF AtRest, Waiting, Only, AfterSpawn
      <3>5. Midway(r)'
        BY <1>0, <1>g, <2>1, <2>3, <3>1, <3>2, <3>3 DEF Midway, AfterSpawn, Waiting, Only
      <3> QED
        BY <1>e, <2>1, <3>4, <3>5
    <2> QED
      BY <2>2, <2>3
  <1> QED
    BY <1>1, <1>2, <1>3, <1>4, <1>5, <1>6, <1>7, <1>8, <1>9, <1>10, <1>11, <1>12 DEF Continue

\* Whoever begins finds the case at rest, and only the beginning of a PATCH that
\* carries a status sets it apart.
LEMMA SerialBegin ==
  ASSUME ~ SameOwner, TypeInv, SerialInv, Isolated',
         NEW r \in Requests, NEW a \in Applications,
         \/ Beneficiary(r, a)
         \/ \E u \in Users : Evaluate(r, a, u) \/ Approve(r, a, u)
  PROVE  SerialInv'
  <1>1. /\ pc[r] = "idle" /\ pc'[r] # "idle" /\ call'[r].app = a /\ OnlyMoves(r) /\ Quiet(Owner[a])
        /\ \A b \in Applications : b # a => SameCase(b)
        /\ Patched(a)' \/ (SameCase(a) /\ UNCHANGED trail)
        /\ UNCHANGED <<rows, tenant>>
    BY BeginFrame
  <1>7. \A q \in Requests \ {r} : pc[q] # "idle" => Owner[call[q].app] # Owner[a]
    BY <1>1 DEF Quiet
  <1>9. UNCHANGED <<cooling, status, office>> /\ (Patched(a) => Patched(a)')
    BY <1>1, SamePatched DEF rows, tenant
  <1>p. CASE Patched(a)'
    BY <1>1, <1>7, <1>9, <1>p, SerialFrame
  <1> SUFFICES ASSUME ~ Patched(a)' PROVE SerialInv'
    BY <1>p
  <1>s. SameCase(a) /\ ~ Patched(a) /\ UNCHANGED trail
    BY <1>1, <1>9
  <1>2. AtRest(a)
    BY <1>1, <1>s DEF SerialInv, Worked, Quiet
  <1>3. /\ AtRest(a)' /\ status'[a] = status[a]
        /\ Untouched(a) => Untouched(a)'
        /\ GateOpen(Owner[a]) => GateOpen(Owner[a])'
    BY <1>1, <1>2, <1>9, <1>s, Resting, SameGate DEF rows, tenant, Untouched
  <1>4. status[a] \in {"none", "draft"} => Untouched(a)
    BY <1>2 DEF AtRest
  <1> DEFINE Creates == /\ pc'[r] = "insert" /\ call'[r].ep = "create"
                        /\ status[a] = "none" /\ GateOpen(Owner[a])
             Updates == /\ pc'[r] \in {"answers", "save"} /\ call'[r].ep = "update"
                        /\ call'[r].entity = status[a]
                        /\ pc'[r] = "answers" => status[a] = "draft"
             Submits == /\ pc'[r] = "officeCheck" /\ call'[r].ep = "submit"
                        /\ call'[r].entity = status[a]
             Reviews == /\ pc'[r] = "takeTask"
                        /\ \/ call'[r].ep \in {"recommend", "decline"} /\ call'[r].actor \in Evaluators
                           \/ call'[r].ep = "decide" /\ call'[r].actor \in Approvers
  <1>5. Creates \/ Updates \/ Submits \/ Reviews
    BY BeginKinds
  <1>6. Midway(r)'
    <2>1. CASE Creates
      BY <1>1, <1>3, <1>4, <2>1 DEF Midway
    <2>2. CASE Updates
      BY <1>1, <1>3, <1>4, <2>2 DEF Midway
    <2>3. CASE Submits
      BY <1>1, <1>3, <2>3 DEF Midway
    <2>4. CASE Reviews
      BY <1>1, <1>3, <2>4 DEF Midway
    <2> QED
      BY <1>5, <2>1, <2>2, <2>3, <2>4
  <1>8. a \in cooling => status'[a] = "claimed"
    BY <1>3, <1>s DEF SerialInv
  <1> QED
    BY <1>1, <1>3, <1>6, <1>7, <1>8, <1>9, SerialFrame

\* A payment finds the case approved and at rest; the office and the clock move
\* no case.
LEMMA SerialElsewhere ==
  ASSUME ~ SameOwner, MaxReopenings = 0, TypeInv, SerialInv, Isolated',
         \/ \E a \in Applications : Claim(a) \/ CooldownElapses(a)
         \/ Office
         \/ UNCHANGED vars
  PROVE  SerialInv'
  <1>a. office.reopenings \in Nat
    BY DEF TypeInv, TypeOK
  <1>b. ASSUME UNCHANGED <<status, answers, tasks, evaluator, memory, trail, reopening>>,
               cooling' \subseteq cooling,
               office.status = "archived" => office'.status = "archived"
        PROVE  SerialInv'
    <2>1. /\ UNCHANGED <<pc, call>> /\ \A c \in Applications : SameCase(c)
      BY <1>b DEF memory, SameCase
    <2>5. \A c \in Applications : Patched(c)' <=> Patched(c)
      BY <2>1, SamePatched
    <2>2. ASSUME NEW q \in Requests PROVE Apart(q)' \/ Midway(q)'
      <3>1. pc[q] # "idle" => SameCase(call[q].app)
        BY <2>1 DEF TypeInv, Wellformed, Shape
      <3>2. Apart(q) => Apart(q)'
        BY <2>1, <3>1, SameApart
      <3>3. Midway(q) => Midway(q)'
        BY <1>b, <2>1, <3>1, OthersMidway
      <3> QED
        BY <3>2, <3>3 DEF SerialInv
    <2>3. ASSUME NEW c \in Applications, ~ Worked(c)', ~ Patched(c)' PROVE AtRest(c)'
      BY <1>b, <2>1, <2>3, <2>5, Resting DEF SerialInv, Worked
    <2>4. ASSUME NEW b \in Applications, NEW c \in Applications, ~ Patched(b)', ~ Patched(c)'
          PROVE  OneOf(b, c)'
      BY <1>b, <2>4, <2>5 DEF SerialInv, OneOf
    <2>6. ASSUME NEW c \in cooling', ~ Patched(c)' PROVE status'[c] = "claimed"
      BY <1>b, <2>5, <2>6 DEF SerialInv, TypeInv, TypeOK
    <2> QED
      BY <1>b, <2>2, <2>3, <2>4, <2>6 DEF SerialInv
  <1>1. ASSUME NEW a \in Applications, Claim(a) PROVE SerialInv'
    <2>1. /\ status[a] \in Payable /\ Quiet(Owner[a])
          /\ status' = [status EXCEPT ![a] = "claimed"] /\ cooling' = cooling \union {a}
          /\ trail' = [trail EXCEPT ![a] = @ \union {Event(None, "claimed")}]
          /\ UNCHANGED <<answers, tasks, evaluator, office, reopening, pc, call>>
      BY <1>1 DEF Claim, Record, Event, tenant, memory
    <2>4. \A c \in Applications : c # a => SameCase(c)
      BY <2>1 DEF SameCase, TypeInv, TypeOK
    <2>5. status'[a] = "claimed" /\ trail'[a] = trail[a] \union {Event(None, "claimed")}
      BY <2>1 DEF TypeInv, TypeOK
    <2>p. \A c \in Applications : Patched(c)' <=> Patched(c)
      <3>1. Patched(a)' <=> Patched(a)
        BY <2>5 DEF Patched, Did, Event
      <3> QED
        BY <2>4, <3>1, SamePatched
    <2>2. ASSUME ~ Patched(a) PROVE AtRest(a) /\ status[a] = "approved"
      BY <2>1, <2>2 DEF SerialInv, Worked, Quiet, AtRest, Payable
    <2>6. ASSUME ~ Patched(a) PROVE AtRest(a)'
      <3>0. AtRest(a) /\ status[a] = "approved"
        BY <2>2, <2>6
      <3>1. PICK u \in Evaluators, v \in Approvers : Decided(a, u, v, "approved")
        BY <3>0 DEF AtRest
      <3>2. trail'[a] = {Event(u, "forwarded"), Event(u, "endorsed"), Event(v, "approved"),
                         Event(None, "claimed")}
        BY <2>5, <3>1 DEF Decided
      <3>3. Only(tasks[a]["approval"], "approve")
        BY <3>0 DEF AtRest
      <3> QED
        BY <2>1, <2>5, <3>1, <3>2, <3>3 DEF AtRest, Decided, Only
    <2>7. ASSUME NEW q \in Requests PROVE Apart(q)' \/ Midway(q)'
      <3>1. ASSUME pc[q] # "idle"
            PROVE  /\ SameCase(call[q].app)
                   /\ \A c \in Applications : Owner[c] = Owner[call[q].app] =>
                        status'[c] = status[c] /\ (c \in cooling' => c \in cooling)
        <4>1. call[q].app \in Applications /\ Owner[call[q].app] # Owner[a]
          BY <2>1, <3>1 DEF TypeInv, Wellformed, Shape, Quiet
        <4> QED
          BY <2>1, <2>4, <4>1 DEF SameCase
      <3>2. Apart(q) => Apart(q)'
        BY <2>1, <3>1, SameApart
      <3>3. Midway(q) => Midway(q)'
        BY <2>1, <3>1, OthersMidway
      <3> QED
        BY <3>2, <3>3 DEF SerialInv
    <2>8. ASSUME NEW c \in Applications, ~ Worked(c)', ~ Patched(c)' PROVE AtRest(c)'
      <3>1. CASE c = a
        BY <2>6, <2>8, <2>p, <3>1
      <3>2. CASE c # a
        BY <2>1, <2>4, <2>8, <2>p, <3>2, Resting DEF SerialInv, Worked
      <3> QED
        BY <3>1, <3>2
    <2>9. ASSUME NEW b \in Applications, NEW c \in Applications, ~ Patched(b)', ~ Patched(c)'
          PROVE  OneOf(b, c)'
      <3>1. \A x \in Applications : x # a => status'[x] = status[x]
        BY <2>4 DEF SameCase
      <3>2. OneOf(b, c) /\ OneOf(c, b)
        BY <2>9, <2>p DEF SerialInv
      <3>3. a \in {b, c} => status[a] = "approved"
        BY <2>2, <2>9, <2>p
      <3> QED
        BY <2>1, <2>5, <3>1, <3>2, <3>3 DEF OneOf, InProgress
    <2>10. ASSUME NEW c \in cooling', ~ Patched(c)' PROVE status'[c] = "claimed"
      <3>1. CASE c = a
        BY <2>5, <3>1
      <3>2. CASE c # a
        <4>1. c \in cooling /\ c \in Applications
          BY <2>1, <2>10, <3>2 DEF TypeInv, TypeOK
        <4> QED
          BY <2>4, <2>10, <2>p, <3>2, <4>1 DEF SerialInv, SameCase
      <3> QED
        BY <3>1, <3>2
    <2> QED
      BY <2>1, <2>7, <2>8, <2>9, <2>10 DEF SerialInv
  <1>2. ASSUME NEW a \in Applications, CooldownElapses(a) PROVE SerialInv'
    BY <1>b, <1>2 DEF CooldownElapses, tenant
  <1>3. CASE ArchiveOffice
    BY <1>b, <1>3 DEF ArchiveOffice, rows
  <1>4. ~ ReactivateOffice /\ ~ CommitReactivation /\ ~ RollBackReactivation
    BY <1>a DEF ReactivateOffice, CommitReactivation, RollBackReactivation, SerialInv
  <1>5. CASE UNCHANGED vars
    BY <1>b, <1>5 DEF vars, rows, tenant
  <1> QED
    BY <1>1, <1>2, <1>3, <1>4, <1>5 DEF Office

LEMMA SerialInductive ==
  ASSUME Serial
  PROVE  Spec => [](TypeInv /\ SerialInv)
  <1>1. Init => SerialInv
    BY DEF Init, SerialInv, Isolated, Worked, AtRest, Untouched, Midway, OneOf, Closed,
           InProgress, Steps
  <1>2. TypeInv /\ SerialInv /\ [Next]_vars => SerialInv'
    <2> SUFFICES ASSUME TypeInv, SerialInv, [Next]_vars PROVE SerialInv'
      OBVIOUS
    <2>1. Isolated'
      BY IsolationStep DEF SerialInv, Serial
    <2>2. \A r \in Requests : ~ Drop(r)
      BY DEF Drop, Serial
    <2> QED
      BY <2>1, <2>2, SerialInFlight, SerialBegin, SerialElsewhere DEF Next, Serial
  <1>3. Spec => []TypeInv
    BY TypeInit, TypeStep, PTL DEF Spec
  <1> QED
    BY <1>1, <1>2, <1>3, PTL DEF Spec

\* A beneficiary has one case in progress, or one claim that cools down, never
\* both and never two, of the cases no client sent a status: as long as no two
\* requests work on their cases at once.
THEOREM OneAidAtATimeHolds ==
  ASSUME Serial
  PROVE  Spec => []OneAidAtATime
  <1>1. TypeInv /\ SerialInv => OneAidAtATime
    BY DEF SerialInv, OneOf, OneAidAtATime, Unpatched, TypeInv, TypeOK
  <1> QED
    BY <1>1, SerialInductive, PTL

\* No case is left waiting without a task, if no request dies on it.
THEOREM NoStrandedCaseHolds ==
  ASSUME Serial
  PROVE  Spec => []NoStrandedCase
  <1>1. TypeInv /\ SerialInv => NoStrandedCase
    <2> SUFFICES ASSUME TypeInv, SerialInv, office.status = "active",
                        NEW a \in Applications, ~ Patched(a), NEW s \in Steps,
                        \A q \in Requests : call[q].app # a,
                        status[a] = IF s = "evaluation" THEN "in_evaluation" ELSE "in_approval"
                 PROVE  PendingTasks(a, s) # {}
      BY DEF NoStrandedCase, Unpatched
    <2>1. AtRest(a)
      BY DEF SerialInv, Worked
    <2>2. Only(tasks[a][s], "pending")
      BY <2>1 DEF AtRest, Waiting, Steps
    <2>3. tasks[a][s] \in Seq(TaskRow)
      BY DEF TypeInv, TypeOK
    <2>4. 1 \in DOMAIN tasks[a][s]
      BY <2>2, <2>3 DEF Only
    <2> QED
      BY <2>2, <2>4 DEF PendingTasks, Only
  <1> QED
    BY <1>1, SerialInductive, PTL

(***************************************************************************)
(* What the history tells of a case                                        *)
(***************************************************************************)
Forwarded(u) == {Event(u, "forwarded")}
EndorsedBy(u) == {Event(u, "forwarded"), Event(u, "endorsed")}
DecidedBy(u, v, verdict) == EndorsedBy(u) \union {Event(v, verdict)}

\* The status a history leads to, and the people in it.
History(a) ==
  \/ trail[a] = {} /\ status[a] \in {"none", "draft", "submitted", "in_evaluation"}
  \/ \E u \in Evaluators :
       \/ status[a] = "in_approval" /\ trail[a] \in {Forwarded(u), EndorsedBy(u)}
       \/ status[a] = "rejected" /\ trail[a] = {Event(u, "declined")}
       \/ \E v \in Approvers \ {u} :
            \/ \E x \in {"approved", "rejected"} : status[a] = x /\ trail[a] = DecidedBy(u, v, x)
            \/ /\ status[a] = "claimed"
               /\ trail[a] = DecidedBy(u, v, "approved") \union {Event(None, "claimed")}

LEMMA HistoryTold == TypeInv /\ SerialInv => \A a \in Unpatched : History(a)
  <1> SUFFICES ASSUME TypeInv, SerialInv, NEW a \in Applications, ~ Patched(a) PROVE History(a)
    BY DEF Unpatched
  <1>0. ASSUME NEW u, NEW v, NEW x, Decided(a, u, v, x)
        PROVE  u \in Evaluators /\ v \in Approvers \ {u} /\ trail[a] = DecidedBy(u, v, x)
    BY <1>0 DEF Decided, DecidedBy, EndorsedBy
  <1>1. ASSUME AtRest(a) PROVE History(a)
    <2> USE DEF History
    <2>1. CASE trail[a] = {} /\ status[a] \in {"none", "draft", "in_evaluation"}
      BY <2>1
    <2>2. CASE status[a] = "in_approval" /\ \E u \in Evaluators : Endorsed(a, u)
      BY <2>2 DEF Endorsed, EndorsedBy
    <2>3. CASE status[a] = "rejected" /\ \E u \in Evaluators : trail[a] = {Event(u, "declined")}
      BY <2>3
    <2>4. ASSUME NEW x \in {"approved", "rejected"}, status[a] = x,
                 \E u \in Evaluators, v \in Approvers : Decided(a, u, v, x)
          PROVE  History(a)
      BY <2>4, <1>0
    <2>5. ASSUME status[a] = "claimed",
                 NEW u \in Evaluators, NEW v \in Approvers, u # v,
                 trail[a] = {Event(u, "forwarded"), Event(u, "endorsed"), Event(v, "approved"),
                             Event(None, "claimed")}
          PROVE  History(a)
      <3>1. trail[a] = DecidedBy(u, v, "approved") \union {Event(None, "claimed")}
        BY <2>5 DEF DecidedBy, EndorsedBy
      <3> QED
        BY <2>5, <3>1
    <2> QED
      BY <1>1, <2>1, <2>2, <2>3, <2>4, <2>5 DEF AtRest, Untouched
  <1>2. ASSUME NEW r \in Requests, pc[r] # "idle", call[r].app = a PROVE History(a)
    <2>1. Midway(r) /\ Shape(r)
      BY <1>2 DEF SerialInv, Apart, TypeInv, Wellformed
    <2>2. CASE pc[r] \in {"insert", "answers", "finalSave"}
      BY <1>2, <2>1, <2>2 DEF Midway, History, Untouched
    <2>3. CASE pc[r] \in {"officeCheck", "takeTask"}
      BY <1>1, <1>2, <2>1, <2>3 DEF Midway
    <2>4. CASE pc[r] \in {"spawn", "existing", "insertTask"}
      <3>1. call[r].ep \in {"create", "submit", "recommend"}
        BY <2>1, <2>4 DEF Shape
      <3>2. CASE call[r].ep = "recommend"
        BY <1>2, <2>1, <2>4, <3>2 DEF Midway, History, Endorsed, EndorsedBy, Shape
      <3>3. CASE call[r].ep # "recommend"
        BY <1>2, <2>1, <2>4, <3>1, <3>3 DEF Midway, History, Untouched
      <3> QED
        BY <3>2, <3>3
    <2>5. CASE pc[r] \in {"sodCheck", "save"}
      <3>1. CASE call[r].ep = "decide"
        BY <1>2, <2>1, <2>5, <3>1 DEF Midway, History, Endorsed, EndorsedBy
      <3>2. CASE call[r].ep = "update"
        BY <1>1, <1>2, <2>1, <2>5, <3>2 DEF Midway, Shape
      <3>3. CASE call[r].ep = "submit"
        BY <1>2, <2>1, <2>5, <3>3 DEF Midway, History, Untouched, Shape
      <3>4. CASE call[r].ep \in {"recommend", "decline"}
        BY <1>2, <2>1, <2>5, <3>4 DEF Midway, History, Shape
      <3> QED
        BY <1>2, <2>1, <2>5, <3>1, <3>2, <3>3, <3>4 DEF Shape, AllEndpoints
    <2>6. CASE pc[r] = "saveTask"
      <3>1. PICK u : u = call[r].actor
        OBVIOUS
      <3>2. call[r].ep \in {"recommend", "decline", "decide"}
        BY <2>1, <2>6 DEF Shape
      <3>3. CASE call[r].ep = "recommend"
        BY <1>2, <2>1, <2>6, <3>1, <3>3 DEF Midway, History, Forwarded, Shape
      <3>4. CASE call[r].ep = "decline"
        BY <1>2, <2>1, <2>6, <3>1, <3>4 DEF Midway, History, Shape
      <3>5. CASE call[r].ep = "decide"
        BY <1>0, <1>2, <2>1, <2>6, <3>1, <3>5 DEF Midway, History, Shape
      <3> QED
        BY <3>2, <3>3, <3>4, <3>5
    <2> QED
      BY <1>2, <2>1, <2>2, <2>3, <2>4, <2>5, <2>6 DEF TypeInv, TypeOK, Labels
  <1> QED
    BY <1>1, <1>2 DEF SerialInv, Worked

\* A case an Evaluator declined is rejected and stays so, unless a client sends
\* it another status.
THEOREM DeclineIsTerminalHolds ==
  ASSUME Serial
  PROVE  Spec => DeclineIsTerminal
  <1> DEFINE Ended == \A a \in Unpatched : Did(a, "declined") => status[a] = "rejected"
  <1>1. TypeInv /\ SerialInv => Ended
    BY HistoryTold DEF History, Did, Event, Forwarded, EndorsedBy, DecidedBy
  <1>2. TypeInv /\ Ended' /\ [Next]_vars =>
          [\A a \in Unpatched :
             Did(a, "declined") => status'[a] \notin BeyondEvaluation \/ status'[a] = status[a]]_vars
    <2> SUFFICES ASSUME TypeInv, Ended', [Next]_vars, NEW a \in Applications, ~ Patched(a),
                        Did(a, "declined")
                 PROVE  status'[a] \notin BeyondEvaluation \/ status'[a] = status[a]
      BY DEF Unpatched
    <2>1. CASE Patched(a)'
      BY <2>1, SetApartWritesNothing
    <2>2. CASE ~ Patched(a)'
      <3>1. Did(a, "declined")'
        BY TrailGrows DEF Did
      <3> QED
        BY <2>2, <3>1 DEF Unpatched, BeyondEvaluation
    <2> QED
      BY <2>1, <2>2
  <1> HIDE DEF Ended
  <1> QED
    BY <1>1, <1>2, SerialInductive, PTL DEF Spec, DeclineIsTerminal

(***************************************************************************)
(* The refinement of CaseLifecycle                                         *)
(***************************************************************************)
Untainted(T) == \A e \in T : e.act # "patched"

StageIn(T, s) == IF Untainted(T) THEN StageOf(s) ELSE "aside"

Told(T, acts) ==
  LET events == {e \in T : e.act \in acts}
  IN  IF ~ Untainted(T) \/ events = {} THEN None ELSE (CHOOSE e \in events : TRUE).by

LEMMA ToldNothing ==
  ASSUME NEW T, NEW acts, \A e \in T : e.act \notin acts
  PROVE  Told(T, acts) = None
  BY DEF Told

LEMMA ToldOne ==
  ASSUME NEW T, NEW acts, NEW u, NEW act \in acts, Event(u, act) \in T, Untainted(T),
         \A e \in T : e.act \in acts => e = Event(u, act)
  PROVE  Told(T, acts) = u
  <1> DEFINE events == {e \in T : e.act \in acts}
  <1>1. Event(u, act) \in events
    BY DEF Event
  <1>2. (CHOOSE e \in events : TRUE) \in events
    BY <1>1
  <1>3. \A e \in events : e = Event(u, act)
    OBVIOUS
  <1> HIDE DEF events
  <1>4. (CHOOSE e \in events : TRUE).by = u
    BY <1>2, <1>3 DEF Event
  <1>5. events # {}
    BY <1>1
  <1> QED
    BY <1>4, <1>5 DEF Told, events

Verdicts == {"declined", "approved", "rejected"}
EndorserIn(T) == Told(T, {"forwarded"})
DeciderIn(T) == Told(T, Verdicts)

LEMMA PeopleTold ==
  /\ EndorserIn({}) = None /\ DeciderIn({}) = None
  /\ \A u : /\ EndorserIn(Forwarded(u)) = u /\ DeciderIn(Forwarded(u)) = None
            /\ EndorserIn(EndorsedBy(u)) = u /\ DeciderIn(EndorsedBy(u)) = None
            /\ EndorserIn({Event(u, "declined")}) = None /\ DeciderIn({Event(u, "declined")}) = u
  /\ \A u, v : \A x \in {"approved", "rejected"} :
       EndorserIn(DecidedBy(u, v, x)) = u /\ DeciderIn(DecidedBy(u, v, x)) = v
  /\ \A u, v : \A T : T = DecidedBy(u, v, "approved") \union {Event(None, "claimed")} =>
       EndorserIn(T) = u /\ DeciderIn(T) = v
  <1> USE DEF Verdicts, Event, Forwarded, EndorsedBy, DecidedBy
  <1>1. EndorserIn({}) = None /\ DeciderIn({}) = None
    BY ToldNothing DEF EndorserIn, DeciderIn
  <1>2. ASSUME NEW u
        PROVE  /\ EndorserIn(Forwarded(u)) = u /\ DeciderIn(Forwarded(u)) = None
               /\ EndorserIn(EndorsedBy(u)) = u /\ DeciderIn(EndorsedBy(u)) = None
               /\ EndorserIn({Event(u, "declined")}) = None /\ DeciderIn({Event(u, "declined")}) = u
    <2>1. ASSUME NEW T \in {Forwarded(u), EndorsedBy(u)} PROVE EndorserIn(T) = u
      <3>1. /\ Event(u, "forwarded") \in T /\ Untainted(T)
            /\ \A e \in T : e.act \in {"forwarded"} => e = Event(u, "forwarded")
        BY DEF Untainted
      <3> QED
        BY <3>1, ToldOne DEF EndorserIn
    <2>2. DeciderIn(Forwarded(u)) = None /\ DeciderIn(EndorsedBy(u)) = None
      BY ToldNothing DEF DeciderIn
    <2>3. EndorserIn({Event(u, "declined")}) = None
      BY ToldNothing DEF EndorserIn
    <2>4. DeciderIn({Event(u, "declined")}) = u
      <3> DEFINE T == {Event(u, "declined")}
      <3>1. /\ Event(u, "declined") \in T /\ "declined" \in Verdicts /\ Untainted(T)
            /\ \A e \in T : e.act \in Verdicts => e = Event(u, "declined")
        BY DEF Untainted
      <3> HIDE DEF T
      <3>2. DeciderIn(T) = u
        BY <3>1, ToldOne DEF DeciderIn
      <3> QED
        BY <3>2 DEF T
    <2> QED
      BY <2>1, <2>2, <2>3, <2>4
  <1>3. ASSUME NEW u, NEW v, NEW x \in {"approved", "rejected"},
               NEW T \in {DecidedBy(u, v, x), DecidedBy(u, v, x) \union {Event(None, "claimed")}}
        PROVE  EndorserIn(T) = u /\ DeciderIn(T) = v
    <2>1. /\ Event(u, "forwarded") \in T /\ Untainted(T)
          /\ \A e \in T : e.act \in {"forwarded"} => e = Event(u, "forwarded")
      BY DEF Untainted
    <2>2. /\ Event(v, x) \in T
          /\ \A e \in T : e.act \in Verdicts => e = Event(v, x)
      OBVIOUS
    <2>3. EndorserIn(T) = u
      BY <2>1, ToldOne DEF EndorserIn
    <2>4. DeciderIn(T) = v
      BY <2>1, <2>2, ToldOne DEF DeciderIn
    <2> QED
      BY <2>3, <2>4
  <1> HIDE DEF Verdicts, Event, Forwarded, EndorsedBy, DecidedBy
  <1>4. ASSUME NEW u, NEW v, NEW x \in {"approved", "rejected"}
        PROVE  EndorserIn(DecidedBy(u, v, x)) = u /\ DeciderIn(DecidedBy(u, v, x)) = v
    BY <1>3
  <1>5. ASSUME NEW u, NEW v, NEW T, T = DecidedBy(u, v, "approved") \union {Event(None, "claimed")}
        PROVE  EndorserIn(T) = u /\ DeciderIn(T) = v
    BY <1>3, <1>5
  <1> QED
    BY <1>1, <1>2, <1>4, <1>5

\* One case moves, or none does.
LEMMA PromisedStep ==
  ASSUME TypeInv, NEW a \in Applications,
         \A b \in Applications : b # a => status'[b] = status[b] /\ trail'[b] = trail[b],
         NEW s, s = StageIn(trail[a], status[a]), NEW t, t = StageIn(trail'[a], status'[a]),
         NEW e, e = EndorserIn(trail[a]), NEW f, f = EndorserIn(trail'[a]),
         NEW d, d = DeciderIn(trail[a]), NEW g, g = DeciderIn(trail'[a]),
         \/ t = s /\ f = e /\ g = d
         \/ s = "none" /\ t \in {"draft", "filed"} /\ f = e /\ g = d
         \/ s = "draft" /\ t = "filed" /\ f = e /\ g = d
         \/ s = "filed" /\ t = "endorsed" /\ f \in Evaluators /\ g = d
         \/ s = "filed" /\ t = "refused" /\ f = e /\ g \in Evaluators
         \/ s = "endorsed" /\ t \in {"approved", "refused"} /\ f = e /\ g \in Approvers /\ g # e
         \/ s = "approved" /\ t = "paid" /\ f = e /\ g = d
         \/ s # "none" /\ t = "aside" /\ f = None /\ g = None
  PROVE  [Lifecycle!Next]_(Lifecycle!vars)
  <1> DEFINE stage == [b \in Applications |-> IF Patched(b) THEN "aside" ELSE StageOf(status[b])]
             endorser == [b \in Applications |-> WhoDid(b, {"forwarded"})]
             decider == [b \in Applications |-> WhoDid(b, {"declined", "approved", "rejected"})]
  <1>1. /\ \A b \in Applications : endorser[b] = EndorserIn(trail[b]) /\ decider[b] = DeciderIn(trail[b])
        /\ \A b \in Applications : endorser'[b] = EndorserIn(trail'[b]) /\ decider'[b] = DeciderIn(trail'[b])
    BY DEF WhoDid, EndorserIn, DeciderIn, Told, Verdicts, Patched, Did, Untainted
  <1>2. \A b \in Applications : /\ stage[b] = StageIn(trail[b], status[b])
                               /\ stage'[b] = StageIn(trail'[b], status'[b])
    BY DEF StageIn, Patched, Did, Untainted
  <1>3. /\ stage = [b \in Applications |-> stage[b]] /\ stage' = [b \in Applications |-> stage'[b]]
        /\ endorser = [b \in Applications |-> endorser[b]] /\ endorser' = [b \in Applications |-> endorser'[b]]
        /\ decider = [b \in Applications |-> decider[b]] /\ decider' = [b \in Applications |-> decider'[b]]
    OBVIOUS
  <1>4. /\ stage[a] = s /\ endorser[a] = e /\ decider[a] = d
        /\ stage'[a] = t /\ endorser'[a] = f /\ decider'[a] = g
        /\ \A b \in Applications : b # a =>
             stage'[b] = stage[b] /\ endorser'[b] = endorser[b] /\ decider'[b] = decider[b]
    BY <1>1, <1>2
  <1> HIDE DEF stage, endorser, decider
  <1>5. /\ stage' = [stage EXCEPT ![a] = t]
        /\ endorser' = [endorser EXCEPT ![a] = f]
        /\ decider' = [decider EXCEPT ![a] = g]
        /\ f = e => endorser' = endorser
        /\ g = d => decider' = decider
        /\ t = s => stage' = stage
    BY <1>3, <1>4
  <1>6. \/ UNCHANGED <<stage, endorser, decider>>
        \/ /\ \/ stage[a] = "none" /\ stage' = [stage EXCEPT ![a] = "draft"]
              \/ stage[a] = "none" /\ stage' = [stage EXCEPT ![a] = "filed"]
              \/ stage[a] = "draft" /\ stage' = [stage EXCEPT ![a] = "filed"]
              \/ stage[a] = "approved" /\ stage' = [stage EXCEPT ![a] = "paid"]
           /\ UNCHANGED <<endorser, decider>>
        \/ \E u \in Evaluators :
             /\ stage[a] = "filed" /\ stage' = [stage EXCEPT ![a] = "endorsed"]
             /\ endorser' = [endorser EXCEPT ![a] = u] /\ UNCHANGED decider
        \/ \E u \in Evaluators :
             /\ stage[a] = "filed" /\ stage' = [stage EXCEPT ![a] = "refused"]
             /\ decider' = [decider EXCEPT ![a] = u] /\ UNCHANGED endorser
        \/ \E u \in Approvers :
             /\ u # endorser[a]
             /\ \/ stage[a] = "endorsed" /\ stage' = [stage EXCEPT ![a] = "approved"]
                \/ stage[a] = "endorsed" /\ stage' = [stage EXCEPT ![a] = "refused"]
             /\ decider' = [decider EXCEPT ![a] = u] /\ UNCHANGED endorser
        \/ /\ stage[a] # "none" /\ stage' = [stage EXCEPT ![a] = "aside"]
           /\ endorser' = [endorser EXCEPT ![a] = None] /\ decider' = [decider EXCEPT ![a] = None]
    BY <1>4, <1>5
  <1> QED
    BY <1>6 DEF Lifecycle!Next, Lifecycle!SetAside, Lifecycle!vars, Lifecycle!Open, Lifecycle!File, Lifecycle!Endorse,
       Lifecycle!Decline, Lifecycle!Decide, Lifecycle!Pay, Lifecycle!Move, stage, endorser, decider

\* A case no client sent a status, before the step and after it.
LEMMA UnpatchedStep ==
  ASSUME TypeInv, NEW a \in Applications, ~ Patched(a), ~ Patched(a)',
         \A b \in Applications : b # a => status'[b] = status[b] /\ trail'[b] = trail[b],
         NEW s, s = StageOf(status[a]), NEW t, t = StageOf(status'[a]),
         NEW e, e = EndorserIn(trail[a]), NEW f, f = EndorserIn(trail'[a]),
         NEW d, d = DeciderIn(trail[a]), NEW g, g = DeciderIn(trail'[a]),
         \/ t = s /\ f = e /\ g = d
         \/ s = "none" /\ t \in {"draft", "filed"} /\ f = e /\ g = d
         \/ s = "draft" /\ t = "filed" /\ f = e /\ g = d
         \/ s = "filed" /\ t = "endorsed" /\ f \in Evaluators /\ g = d
         \/ s = "filed" /\ t = "refused" /\ f = e /\ g \in Evaluators
         \/ s = "endorsed" /\ t \in {"approved", "refused"} /\ f = e /\ g \in Approvers /\ g # e
         \/ s = "approved" /\ t = "paid" /\ f = e /\ g = d
  PROVE  [Lifecycle!Next]_(Lifecycle!vars)
  <1>1. Untainted(trail[a]) /\ Untainted(trail'[a])
    BY DEF Patched, Did, Untainted
  <1>2. s = StageIn(trail[a], status[a]) /\ t = StageIn(trail'[a], status'[a])
    BY <1>1 DEF StageIn
  <1> QED
    BY <1>2, PromisedStep

\* A client's status sets a case aside, if it was not aside before.
LEMMA AsideStep ==
  ASSUME TypeInv, NEW a \in Applications, Patched(a)', Patched(a) \/ status[a] # "none",
         \A b \in Applications : b # a => status'[b] = status[b] /\ trail'[b] = trail[b]
  PROVE  [Lifecycle!Next]_(Lifecycle!vars)
  <1>1. ~ Untainted(trail'[a])
    BY DEF Patched, Did, Untainted
  <1>2. /\ StageIn(trail'[a], status'[a]) = "aside"
        /\ EndorserIn(trail'[a]) = None /\ DeciderIn(trail'[a]) = None
    BY <1>1 DEF StageIn, EndorserIn, DeciderIn, Told
  <1>3. StageIn(trail[a], status[a]) # "none"
    <2>1. CASE Patched(a)
      <3>1. ~ Untainted(trail[a])
        BY <2>1 DEF Patched, Did, Untainted
      <3> QED
        BY <3>1 DEF StageIn
    <2>2. CASE status[a] # "none"
      <3>1. StageOf(status[a]) # "none"
        BY <2>2 DEF StageOf
      <3> QED
        BY <3>1 DEF StageIn
    <2> QED
      BY <2>1, <2>2
  <1> QED
    BY <1>2, <1>3, PromisedStep

\* Each step of a request moves its case on the promised way, or not at all.
LEMMA LifecycleStep ==
  ASSUME Serial, TypeInv, SerialInv, [Next]_vars
  PROVE  [Lifecycle!Next]_(Lifecycle!vars)
  <1> DEFINE Goal == [Lifecycle!Next]_(Lifecycle!vars)
  <1>a. /\ status \in [Applications -> Statuses \union {"none"}]
        /\ trail \in [Applications -> SUBSET [by : Users \union {None}, act : Acts]]
        /\ pc \in [Requests -> Labels] /\ call \in [Requests -> Call]
    BY DEF TypeInv, TypeOK
  <1>b. ASSUME NEW a \in Applications,
               \A b \in Applications : b # a => status'[b] = status[b] /\ trail'[b] = trail[b],
               StageOf(status'[a]) = StageOf(status[a]), trail'[a] = trail[a]
        PROVE  Goal
    <2>1. /\ EndorserIn(trail'[a]) = EndorserIn(trail[a]) /\ DeciderIn(trail'[a]) = DeciderIn(trail[a])
          /\ StageIn(trail'[a], status'[a]) = StageIn(trail[a], status[a])
      BY <1>b DEF StageIn
    <2> QED
      BY <1>b, <2>1, PromisedStep
  <1>c. ASSUME UNCHANGED <<status, trail>> PROVE Goal
    BY <1>c DEF Lifecycle!vars, WhoDid, Patched, Did
  <1> HIDE DEF Goal
  <1>1. ASSUME NEW r \in Requests, NEW a \in Applications,
               \/ Beneficiary(r, a)
               \/ \E u \in Users : Evaluate(r, a, u) \/ Approve(r, a, u)
        PROVE  Goal
    <2>1. /\ UNCHANGED rows /\ \A b \in Applications : b # a => SameCase(b)
          /\ UNCHANGED trail \/ (Record(a, None, "patched") /\ status[a] # "none")
      BY <1>1, BeginFrame
    <2>2. CASE UNCHANGED trail
      BY <1>c, <2>1, <2>2 DEF rows
    <2>3. CASE Record(a, None, "patched") /\ status[a] # "none"
      <3>1. Patched(a)'
        <4>1. "patched" \in Acts
          BY DEF Acts
        <4> QED
          BY <1>a, <2>3, <4>1, RecordFacts DEF Patched
      <3> QED
        BY <2>1, <2>3, <3>1, AsideStep DEF SameCase, Goal
    <2> QED
      BY <2>1, <2>2, <2>3
  <1>2. ASSUME NEW r \in Requests, Continue(r) PROVE Goal
    <2>0. PICK a \in Applications : a = call[r].app
      BY <1>2, ContinueFrame
    <2>a. \A b \in Applications : b # a => status'[b] = status[b] /\ trail'[b] = trail[b]
      BY <1>2, <2>0, ContinueFrame DEF SameCase
    <2>p. CASE Patched(a)
      BY <1>2, <2>a, <2>p, PatchedStays, AsideStep DEF Goal
    <2> SUFFICES ASSUME ~ Patched(a) PROVE Goal
      BY <2>p
    <2>q. ~ Patched(a)'
      BY <1>2, NotPatchedOnTheWay
    <2>b. Midway(r) /\ Shape(r)
      BY <1>2, <2>0, ContinueFrame DEF SerialInv, Apart, TypeInv, Wellformed
    <2>1. CASE InsertApplication(r)
      <3>1. /\ status[a] = "none" /\ status'[a] \in {"draft", "submitted"} /\ UNCHANGED trail
        BY <2>0, <2>1, <2>b, <1>a DEF InsertApplication, Shape, Midway
      <3>2. StageOf(status[a]) = "none" /\ StageOf(status'[a]) \in {"draft", "filed"}
        BY <3>1 DEF StageOf
      <3> QED
        BY <2>a, <3>1, <3>2, <2>q, UnpatchedStep DEF Goal
    <2>2. CASE FinalSave(r)
      <3>1. status[a] = "submitted" /\ status'[a] = "in_evaluation" /\ UNCHANGED trail
        BY <2>0, <2>2, <2>b, <1>a DEF FinalSave, Midway
      <3>2. StageOf(status[a]) = StageOf(status'[a])
        BY <3>1 DEF StageOf
      <3> QED
        BY <1>b, <2>a, <3>1, <3>2
    <2>3. CASE SaveApplication(r)
      <3>1. /\ pc[r] = "save" /\ status'[a] = call[r].entity
            /\ call[r].ep \in {"update", "submit", "recommend", "decline", "decide"}
        BY <2>0, <2>3, <2>b, <1>a, <1>2, ContinueFrame
           DEF SaveApplication, Shape, AllEndpoints
      <3>2. call[r].ep \in {"recommend", "decline", "decide"} =>
              trail'[a] = trail[a] \union {Event(call[r].actor, ActOf(call[r]))}
        BY <2>0, <2>3, <1>a DEF SaveApplication, Record, Event
      <3>3. CASE call[r].ep = "update"
        <4>1. status'[a] = status[a] /\ UNCHANGED trail
          BY <2>0, <2>3, <2>b, <3>1, <3>3 DEF SaveApplication, Midway
        <4> QED
          BY <1>b, <2>a, <4>1
      <3>4. CASE call[r].ep = "submit"
        <4>1. status[a] = "draft" /\ status'[a] = "in_evaluation" /\ UNCHANGED trail
          BY <2>0, <2>3, <2>b, <3>1, <3>4 DEF SaveApplication, Midway
        <4>2. StageOf(status[a]) = "draft" /\ StageOf(status'[a]) = "filed"
          BY <4>1 DEF StageOf
        <4> QED
          BY <2>a, <4>1, <4>2, <2>q, UnpatchedStep DEF Goal
      <3>5. CASE call[r].ep = "recommend"
        <4>1. PICK u \in Evaluators : u = call[r].actor
          BY <2>b, <3>1, <3>5 DEF Midway
        <4>2. /\ status[a] = "in_evaluation" /\ status'[a] = "in_approval"
              /\ trail[a] = {} /\ trail'[a] = Forwarded(u)
          BY <2>0, <2>b, <3>1, <3>2, <3>5, <4>1 DEF Midway, Shape, ActOf, Forwarded
        <4>3. StageOf(status[a]) = "filed" /\ StageOf(status'[a]) = "endorsed"
          BY <4>2 DEF StageOf
        <4>4. /\ EndorserIn(trail'[a]) = u
              /\ DeciderIn(trail'[a]) = None /\ DeciderIn(trail[a]) = None
          BY <4>2, PeopleTold
        <4> QED
          BY <2>a, <4>3, <4>4, <2>q, UnpatchedStep DEF Goal
      <3>6. CASE call[r].ep = "decline"
        <4>1. PICK u \in Evaluators : u = call[r].actor
          BY <2>b, <3>1, <3>6 DEF Midway
        <4>2. /\ status[a] = "in_evaluation" /\ status'[a] = "rejected"
              /\ trail[a] = {} /\ trail'[a] = {Event(u, "declined")}
          BY <2>0, <2>b, <3>1, <3>2, <3>6, <4>1 DEF Midway, Shape, ActOf
        <4>3. StageOf(status[a]) = "filed" /\ StageOf(status'[a]) = "refused"
          BY <4>2 DEF StageOf
        <4>4. /\ EndorserIn(trail'[a]) = None /\ EndorserIn(trail[a]) = None
              /\ DeciderIn(trail'[a]) = u
          BY <4>2, PeopleTold
        <4> QED
          BY <2>a, <4>3, <4>4, <2>q, UnpatchedStep DEF Goal
      <3>7. CASE call[r].ep = "decide"
        <4>1. PICK v \in Approvers, x \in {"approved", "rejected"} : v = call[r].actor /\ x = call[r].entity
          BY <2>b, <3>1, <3>7 DEF Midway, Shape
        <4>2. PICK u \in Evaluators : Endorsed(a, u)
          BY <2>0, <2>b, <3>1, <3>7 DEF Midway
        <4>3. status[a] = "in_approval" /\ status'[a] = x /\ u # v
          BY <2>0, <2>b, <3>1, <3>7, <4>1, <4>2 DEF Midway, Endorsed
        <4>4. trail[a] = EndorsedBy(u) /\ trail'[a] = DecidedBy(u, v, x)
          BY <3>2, <3>7, <4>1, <4>2 DEF ActOf, Endorsed, EndorsedBy, DecidedBy
        <4>5. StageOf(status[a]) = "endorsed" /\ StageOf(status'[a]) \in {"approved", "refused"}
          BY <4>3 DEF StageOf
        <4>6. EndorserIn(trail[a]) = u
          BY <4>4, PeopleTold
        <4>7. EndorserIn(trail'[a]) = u /\ DeciderIn(trail'[a]) = v
          BY <4>4, PeopleTold
        <4> QED
          BY <2>a, <4>3, <4>5, <4>6, <4>7, <2>q, UnpatchedStep DEF Goal
      <3> QED
        BY <3>1, <3>3, <3>4, <3>5, <3>6, <3>7
    <2>4. CASE SaveTask(r)
      <3>1. CASE call[r].ep = "recommend"
        <4>1. PICK u : u = call[r].actor
          OBVIOUS
        <4>2. trail[a] = Forwarded(u) /\ trail'[a] = EndorsedBy(u) /\ UNCHANGED status
          BY <2>0, <2>4, <2>b, <1>a, <3>1, <4>1
             DEF SaveTask, Record, Midway, Event, Forwarded, EndorsedBy
        <4>3. /\ EndorserIn(trail[a]) = u /\ EndorserIn(trail'[a]) = u
              /\ DeciderIn(trail[a]) = None /\ DeciderIn(trail'[a]) = None
          BY <4>2, PeopleTold
        <4>4. StageOf(status'[a]) = StageOf(status[a])
          BY <4>2
        <4> QED
          BY <2>a, <4>3, <4>4, <2>q, UnpatchedStep DEF Goal
      <3>2. CASE call[r].ep # "recommend"
        <4>1. UNCHANGED status /\ UNCHANGED trail
          BY <2>4, <3>2 DEF SaveTask
        <4> QED
          BY <4>1, <1>c
      <3> QED
        BY <3>1, <3>2
    <2>5. CASE \/ WriteAnswers(r) \/ CheckSubmittable(r) \/ TakeTask(r) \/ RefuseReview(r)
               \/ CheckSeparation(r) \/ SpawnCheckOffice(r) \/ SpawnExisting(r) \/ SpawnInsert(r)
      BY <2>5, <1>c DEF WriteAnswers, CheckSubmittable, TakeTask, RefuseReview, CheckSeparation,
           SpawnCheckOffice, SpawnExisting, SpawnInsert, rows
    <2> QED
      BY <1>2, <2>1, <2>2, <2>3, <2>4, <2>5 DEF Continue
  <1>3. ASSUME NEW r \in Requests, Drop(r) PROVE Goal
    BY <1>3 DEF Drop, Serial
  <1>4. ASSUME NEW a \in Applications, Claim(a) PROVE Goal
    <2>1. /\ status[a] \in Payable /\ Quiet(Owner[a]) /\ status'[a] = "claimed"
          /\ trail'[a] = trail[a] \union {Event(None, "claimed")}
          /\ \A b \in Applications : b # a => status'[b] = status[b] /\ trail'[b] = trail[b]
      BY <1>4, <1>a DEF Claim, Record, Event, Serial
    <2>p. CASE Patched(a)
      BY <2>1, <2>p, PatchedStays, AsideStep DEF Goal
    <2> SUFFICES ASSUME ~ Patched(a) PROVE Goal
      BY <2>p
    <2>q. ~ Patched(a)'
      BY <2>1 DEF Patched, Did, Event
    <2>2. AtRest(a) /\ status[a] = "approved"
      BY <2>1 DEF SerialInv, Worked, Quiet, AtRest, Payable
    <2>3. PICK u \in Evaluators, v \in Approvers : trail[a] = DecidedBy(u, v, "approved")
      BY <2>2 DEF AtRest, Decided, DecidedBy, EndorsedBy
    <2>4. StageOf(status[a]) = "approved" /\ StageOf(status'[a]) = "paid"
      BY <2>1, <2>2 DEF StageOf
    <2>5. /\ EndorserIn(trail[a]) = u /\ DeciderIn(trail[a]) = v
          /\ EndorserIn(trail'[a]) = u /\ DeciderIn(trail'[a]) = v
      <3>1. EndorserIn(trail[a]) = u /\ DeciderIn(trail[a]) = v
        BY <2>3, PeopleTold
      <3>2. trail'[a] = DecidedBy(u, v, "approved") \union {Event(None, "claimed")}
        BY <2>1, <2>3
      <3>3. EndorserIn(trail'[a]) = u /\ DeciderIn(trail'[a]) = v
        BY <3>2, PeopleTold
      <3> QED
        BY <3>1, <3>3
    <2> QED
      BY <2>1, <2>4, <2>5, <2>q, UnpatchedStep DEF Goal
  <1>5. ASSUME NEW a \in Applications, CooldownElapses(a) PROVE Goal
    BY <1>5, <1>c DEF CooldownElapses
  <1>6. ASSUME Office PROVE Goal
    BY <1>6, <1>c DEF Office, ArchiveOffice, ReactivateOffice, CommitReactivation,
         RollBackReactivation, rows
  <1>7. ASSUME UNCHANGED vars PROVE Goal
    BY <1>7, <1>c DEF vars, rows
  <1>8. Goal
    BY <1>1, <1>2, <1>3, <1>4, <1>5, <1>6, <1>7 DEF Next
  <1> QED
    BY <1>8 DEF Goal

\* The handlers, without a transaction, keep the promised life of a case where
\* no two requests work on one beneficiary's cases, none dies and no archived
\* office is reactivated: the stages in order, each by the person its step
\* belongs to, and two people on one case, until a client sends it a status.
THEOREM LifecycleImplemented ==
  ASSUME Serial
  PROVE  Spec => ImplementsLifecycle
  <1>1. Init => Lifecycle!Init
    <2> SUFFICES ASSUME Init PROVE Lifecycle!Init
      OBVIOUS
    <2>1. \A a \in Applications : status[a] = "none" /\ trail[a] = {}
      BY DEF Init
    <2>2. \A a \in Applications : \A acts : WhoDid(a, acts) = None
      BY <2>1 DEF WhoDid
    <2>3. \A a \in Applications : ~ Patched(a)
      BY <2>1 DEF Patched, Did
    <2> QED
      BY <2>1, <2>2, <2>3 DEF Lifecycle!Init, StageOf
  <1>2. TypeInv /\ SerialInv /\ [Next]_vars => [Lifecycle!Next]_(Lifecycle!vars)
    BY LifecycleStep
  <1> QED
    BY <1>1, <1>2, SerialInductive, PTL DEF Spec, ImplementsLifecycle, Lifecycle!Spec

\* In the promised life the endorser of a case is known once it is endorsed, and
\* the decider once it is approved, and they are two people.
TwoPeople ==
  LET stage    == [a \in Applications |-> IF Patched(a) THEN "aside" ELSE StageOf(status[a])]
      endorser == [a \in Applications |-> WhoDid(a, {"forwarded"})]
      decider  == [a \in Applications |-> WhoDid(a, {"declined", "approved", "rejected"})] IN
  \A c \in Applications :
    /\ stage[c] = "endorsed" => endorser[c] \in Evaluators
    /\ stage[c] \in {"approved", "paid"} =>
         /\ endorser[c] \in Evaluators
         /\ decider[c] \in Approvers
         /\ endorser[c] # decider[c]

LEMMA TwoPeopleFirst == Lifecycle!Init => TwoPeople
  BY DEF Lifecycle!Init, TwoPeople

LEMMA TwoPeopleStay == TwoPeople /\ [Lifecycle!Next]_(Lifecycle!vars) => TwoPeople'
  <1> SUFFICES ASSUME TwoPeople, [Lifecycle!Next]_(Lifecycle!vars) PROVE TwoPeople'
    OBVIOUS
  <1> USE DEF TwoPeople, Lifecycle!Move
  <1>1. ASSUME NEW c \in Applications, Lifecycle!Open(c) PROVE TwoPeople'
    BY <1>1 DEF Lifecycle!Open
  <1>2. ASSUME NEW c \in Applications, Lifecycle!File(c) PROVE TwoPeople'
    BY <1>2 DEF Lifecycle!File
  <1>3. ASSUME NEW c \in Applications, NEW u \in Evaluators, Lifecycle!Endorse(c, u)
        PROVE  TwoPeople'
    BY <1>3 DEF Lifecycle!Endorse
  <1>4. ASSUME NEW c \in Applications, NEW u \in Evaluators, Lifecycle!Decline(c, u)
        PROVE  TwoPeople'
    BY <1>4 DEF Lifecycle!Decline
  <1>5. ASSUME NEW c \in Applications, NEW u \in Approvers, Lifecycle!Decide(c, u)
        PROVE  TwoPeople'
    BY <1>5 DEF Lifecycle!Decide
  <1>6. ASSUME NEW c \in Applications, Lifecycle!Pay(c) PROVE TwoPeople'
    BY <1>6 DEF Lifecycle!Pay
  <1>8. ASSUME NEW c \in Applications, Lifecycle!SetAside(c) PROVE TwoPeople'
    BY <1>8 DEF Lifecycle!SetAside
  <1>7. CASE UNCHANGED Lifecycle!vars
    BY <1>7 DEF Lifecycle!vars
  <1> QED
    BY <1>1, <1>2, <1>3, <1>4, <1>5, <1>6, <1>7, <1>8 DEF Lifecycle!Next

\* The separation of duties of rbac.policy.ts, read off the promise: a case that
\* is approved or paid was endorsed by one person and approved by another, if no
\* client sent it a status; where no two requests work on one beneficiary's
\* cases, none dies and no archived office is reactivated.
THEOREM FourEyesHold ==
  ASSUME Serial
  PROVE  Spec => []Lifecycle!FourEyes
  <1>1. TwoPeople => Lifecycle!FourEyes
    BY DEF TwoPeople, Lifecycle!FourEyes
  <1>2. Spec => Lifecycle!Spec
    BY LifecycleImplemented DEF ImplementsLifecycle
  <1> QED
    BY <1>1, <1>2, TwoPeopleFirst, TwoPeopleStay, PTL DEF Lifecycle!Spec

=============================================================================
