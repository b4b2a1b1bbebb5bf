--------------------------- MODULE ServicesProofs ---------------------------
(***************************************************************************)
(* The links between beneficiaries, for any number of people and requests: *)
(* an active link has its documents in every interleaving, and as long as  *)
(* requests do not overlap the limit of active links, the uniqueness of    *)
(* open links where none was rejected and the reviews are right, although  *)
(* requests may die between any two statements. Then a program's templates and versions, and last   *)
(* the applicant portal: any number of tabs, each with a store of its own. *)
(***************************************************************************)
EXTENDS Services, Sequences, FiniteSetTheorems, WellFoundedInduction, TLAPS

\* What a request under way knows: a registration has a fresh id, a decision a
\* row; once checked, the row has its documents.
Request(r) ==
  pc[r] # "idle" =>
    /\ call[r] \in Call
    /\ call[r].row \in Link
    /\ pc[r] = "insert" => /\ link[call[r].link] = None
                           /\ call[r].row.status = "requested"
                           /\ call[r].approve = FALSE
    /\ pc[r] # "insert" => link[call[r].link] # None
    /\ pc[r] \in {"update", "commit"} => link[call[r].link].proof

\* No two registrations have the same id.
Fresh ==
  \A r, q \in Requests :
     pc[r] = "insert" /\ pc[q] = "insert" /\ r # q => call[r].link # call[q].link

\* an approved or rejected link has its documents
Documented == \A l \in Made : link[l].status # "requested" => link[l].proof

Reviewed == \A v \in reviews : link[v[1]] # None

\* What a request knows that runs alone.
AloneKnows(r) ==
  /\ pc[r] = "insert" => Registrable(call[r].row)
  /\ pc[r] \in {"proof", "update", "commit"} =>
         link[call[r].link].status = "requested"
  /\ pc[r] = "commit" /\ call[r].approve => WithinLimit(call[r].link)
  /\ pc[r] = "review" => link[call[r].link].status = Verdict(call[r])

\* one open link of a kind for a pair, or one of the kind was rejected
OneOpen ==
  \A l \in Made : \A m \in Alike(link[l]) \ {l} :
     {link[l].status, link[m].status} \subseteq Open
     => \E x \in Alike(link[l]) : link[x].status = "rejected"

AsReviewed ==
  \A v \in reviews : link[v[1]].status = IF v[2] THEN "approved" ELSE "rejected"

Sequential ==
  mode # "overlap" =>
    /\ \A r, q \in Busy : r = q
    /\ \A r \in Busy : AloneKnows(r)
    /\ MaxActivePerBeneficiary
    /\ OneOpen
    /\ AsReviewed

Inv ==
  /\ TypeOK
  /\ \A r \in Requests : Request(r)
  /\ Fresh
  /\ Documented
  /\ Reviewed
  /\ Sequential

\* A row is no null: it has a status.
LEMMA RowIsNotNone == ASSUME NEW l \in Links, TypeOK, link[l] # None
                      PROVE  link[l] \in Link
  BY DEF TypeOK

LEMMA InvInit == Init => Inv
  <1> SUFFICES ASSUME Init PROVE Inv
    OBVIOUS
  <1>1. TypeOK /\ Made = {} /\ Busy = {} /\ reviews = {}
    BY BoundsAssumption, ModesAssumption DEF Init, TypeOK, Made, Busy
  <1>2. ActiveOf(None) = {} /\ \A p : ActiveOf(p) = {}
    BY <1>1 DEF ActiveOf
  <1>3. MaxActivePerBeneficiary
    BY <1>2, FS_EmptySet, BoundsAssumption DEF MaxActivePerBeneficiary
  <1> QED
    BY <1>1, <1>3 DEF Init, Inv, Request, Fresh, Documented, Reviewed, Sequential,
                      OneOpen, AsReviewed

\* A request that begins runs alone, or in the mode that promises little.
LEMMA InvBeginRegister ==
  ASSUME Inv, NEW r \in Requests, BeginRegister(r)
  PROVE  Inv'
  <1> USE NoneIsNoLink DEF Inv
  <1>1. PICK l \in Links \ Made, p \in People, d \in People, k \in Kinds :
          LET row == [principal |-> p, dependent |-> d, kind |-> k,
                      status |-> "requested", proof |-> FALSE] IN
          /\ Registrable(row)
          /\ \A q \in Busy : call[q].link # l
          /\ Begin(r, "insert", l, row, FALSE)
    BY DEF BeginRegister
  <1> DEFINE row == [principal |-> p, dependent |-> d, kind |-> k,
                     status |-> "requested", proof |-> FALSE]
  <1>2. row \in Link /\ row.status = "requested" /\ link[l] = None
    BY DEF Link, Made, Open
  <1>3. /\ pc[r] = "idle" /\ pc' = [pc EXCEPT ![r] = "insert"]
        /\ call' = [call EXCEPT ![r] = [link |-> l, row |-> row, approve |-> FALSE]]
        /\ ops' = ops + 1 /\ (mode # "overlap" => Busy = {})
        /\ UNCHANGED <<link, reviews, mode>>
    BY <1>1 DEF Begin
  <1>4. TypeOK'
    BY <1>2, <1>3 DEF TypeOK, Call
  <1>5. call'[r] = [link |-> l, row |-> row, approve |-> FALSE] /\ pc'[r] = "insert"
    BY <1>3 DEF TypeOK
  <1>6. \A q \in Requests \ {r} : pc'[q] = pc[q] /\ call'[q] = call[q]
    BY <1>3 DEF TypeOK
  <1>7. \A q \in Requests : Request(q)'
    <2>1. /\ call'[r] \in Call /\ call'[r].row \in Link /\ call'[r].row.status = "requested"
          /\ call'[r].approve = FALSE /\ link[call'[r].link] = None
      BY <1>2, <1>5 DEF Call
    <2>2. Request(r)'
      BY <1>3, <1>5, <2>1 DEF Request
    <2>3. \A q \in Requests \ {r} : Request(q)'
      BY <1>3, <1>6 DEF Request
    <2> QED
      BY <2>2, <2>3
  <1>8. Fresh'
    BY <1>1, <1>5, <1>6 DEF Fresh, Busy
  <1>9. Documented' /\ Reviewed'
    BY <1>3 DEF Documented, Reviewed, Made
  <1>10. Sequential'
    <2> SUFFICES ASSUME mode # "overlap" PROVE Sequential'
      BY <1>3 DEF Sequential
    <2>1. Busy' = {r}
      BY <1>3, <1>5, <1>6 DEF Busy
    <2>2. AloneKnows(r)'
      BY <1>1, <1>3, <1>5 DEF AloneKnows, Registrable, Alike, Made
    <2>3. MaxActivePerBeneficiary' /\ OneOpen' /\ AsReviewed'
      BY <1>3 DEF Sequential, MaxActivePerBeneficiary, ActiveOf, OneOpen, Alike, AsReviewed, Made
    <2> QED
      BY <2>1, <2>2, <2>3 DEF Sequential
  <1> QED
    BY <1>4, <1>7, <1>8, <1>9, <1>10

LEMMA InvBeginDecide ==
  ASSUME Inv, NEW r \in Requests, BeginDecide(r)
  PROVE  Inv'
  <1> USE NoneIsNoLink DEF Inv
  <1>1. PICK l \in Made, approve \in BOOLEAN :
          Awaits(link[l]) /\ Begin(r, "proof", l, link[l], approve)
    BY DEF BeginDecide
  <1>2. l \in Links /\ link[l] # None /\ link[l] \in Link /\ link[l].status = "requested"
    BY <1>1 DEF Made, Awaits, TypeOK
  <1>3. /\ pc[r] = "idle" /\ pc' = [pc EXCEPT ![r] = "proof"]
        /\ call' = [call EXCEPT ![r] = [link |-> l, row |-> link[l], approve |-> approve]]
        /\ ops' = ops + 1 /\ (mode # "overlap" => Busy = {})
        /\ UNCHANGED <<link, reviews, mode>>
    BY <1>1 DEF Begin
  <1>4. TypeOK'
    BY <1>2, <1>3 DEF TypeOK, Call
  <1>5. call'[r] = [link |-> l, row |-> link[l], approve |-> approve] /\ pc'[r] = "proof"
    BY <1>3 DEF TypeOK
  <1>6. \A q \in Requests \ {r} : pc'[q] = pc[q] /\ call'[q] = call[q]
    BY <1>3 DEF TypeOK
  <1>7. \A q \in Requests : Request(q)'
    BY <1>2, <1>3, <1>5, <1>6 DEF Request, Call
  <1>8. Fresh'
    BY <1>5, <1>6 DEF Fresh
  <1>9. Documented' /\ Reviewed'
    BY <1>3 DEF Documented, Reviewed, Made
  <1>10. Sequential'
    <2> SUFFICES ASSUME mode # "overlap" PROVE Sequential'
      BY <1>3 DEF Sequential
    <2>1. Busy' = {r}
      BY <1>3, <1>5, <1>6 DEF Busy
    <2>2. AloneKnows(r)'
      BY <1>2, <1>3, <1>5 DEF AloneKnows
    <2>3. MaxActivePerBeneficiary' /\ OneOpen' /\ AsReviewed'
      BY <1>3 DEF Sequential, MaxActivePerBeneficiary, ActiveOf, OneOpen, Alike, AsReviewed, Made
    <2> QED
      BY <2>1, <2>2, <2>3 DEF Sequential
  <1> QED
    BY <1>4, <1>7, <1>8, <1>9, <1>10

\* An answer, a death, and a statement that only reads.
LEMMA InvGoto ==
  ASSUME Inv, NEW r \in Requests, pc[r] # "idle", UNCHANGED <<link, reviews>>,
         \/ Goto(r, "idle")
         \/ /\ pc[r] = "proof" /\ Proven(call[r].link) /\ Goto(r, "update")
         \/ /\ pc[r] = "update"
            /\ call[r].approve => WithinLimit(call[r].link)
            /\ Goto(r, "commit")
  PROVE  Inv'
  <1> USE NoneIsNoLink DEF Inv
  <1>1. TypeOK'
    BY DEF Goto, TypeOK
  <1>2. \A q \in Requests \ {r} : pc'[q] = pc[q] /\ call'[q] = call[q]
    BY DEF Goto, TypeOK
  <1>3. \/ pc'[r] = "idle"
        \/ /\ pc[r] \in {"proof", "update"} /\ pc'[r] \in {"update", "commit"}
           /\ call'[r] = call[r]
           /\ pc[r] = "proof" => pc'[r] = "update" /\ Proven(call[r].link)
           /\ pc[r] = "update" =>
                pc'[r] = "commit" /\ (call[r].approve => WithinLimit(call[r].link))
    BY DEF Goto, TypeOK
  <1>4. \A q \in Requests : Request(q)'
    BY <1>2, <1>3 DEF Request, Proven
  <1>5. Fresh'
    BY <1>2, <1>3 DEF Fresh
  <1>6. Documented' /\ Reviewed'
    BY DEF Documented, Reviewed, Made
  <1>7. Sequential'
    <2> SUFFICES ASSUME mode # "overlap" PROVE Sequential'
      BY DEF Sequential, Goto
    <2>1. Busy' \subseteq Busy
      BY <1>2, <1>3 DEF Busy
    <2>2. Busy = {r}
      BY DEF Sequential, Busy
    <2>3. AloneKnows(r) /\ (pc'[r] # "idle" => AloneKnows(r)')
      BY <1>3, <2>2 DEF Sequential, AloneKnows, WithinLimit, Active, Made
    <2>4. MaxActivePerBeneficiary' /\ OneOpen' /\ AsReviewed'
      BY DEF Sequential, MaxActivePerBeneficiary, ActiveOf, OneOpen, Alike, AsReviewed, Made
    <2> QED
      BY <2>1, <2>2, <2>3, <2>4 DEF Sequential, Busy
  <1> QED
    BY <1>1, <1>4, <1>5, <1>6, <1>7

LEMMA InvInsertLink ==
  ASSUME Inv, NEW r \in Requests, InsertLink(r)
  PROVE  Inv'
  <1> USE NoneIsNoLink DEF Inv
  <1> DEFINE l == call[r].link
             row == call[r].row
  <1>1. /\ pc[r] = "insert" /\ l \in Links /\ link[l] = None
        /\ row \in Link /\ row.status = "requested" /\ call[r] \in Call
    BY DEF InsertLink, Request, Call
  <1>2. /\ link' = [link EXCEPT ![l] = row]
        /\ pc' = [pc EXCEPT ![r] = "documents"] /\ UNCHANGED <<call, reviews, ops, mode>>
    BY DEF InsertLink, Goto
  <1>3. TypeOK'
    BY <1>1, <1>2 DEF TypeOK
  <1>4. link'[l] = row /\ \A m \in Links \ {l} : link'[m] = link[m]
    BY <1>1, <1>2 DEF TypeOK
  <1>5. pc'[r] = "documents" /\ \A q \in Requests \ {r} : pc'[q] = pc[q]
    BY <1>2 DEF TypeOK
  <1>6. \A q \in Requests : Request(q)'
    <2>1. \A q \in Requests : pc[q] = "insert" /\ q # r => call[q].link # l
      BY <1>1 DEF Fresh
    <2>2. \A q \in Requests : pc[q] # "idle" => call[q].link \in Links
      BY DEF Request, Call
    <2>3. Request(r)'
      BY <1>1, <1>2, <1>4, <1>5 DEF Request
    <2>4. ASSUME NEW q \in Requests \ {r} PROVE Request(q)'
      <3>1. CASE pc[q] = "idle"
        BY <1>5, <3>1 DEF Request
      <3>2. CASE pc[q] # "idle" /\ call[q].link # l
        BY <1>2, <1>4, <1>5, <2>2, <3>2 DEF Request
      <3>3. CASE pc[q] # "idle" /\ call[q].link = l
        BY <1>1, <2>1, <3>3 DEF Request
      <3> QED
        BY <3>1, <3>2, <3>3
    <2> QED
      BY <2>3, <2>4
  <1>7. Fresh'
    BY <1>2, <1>5 DEF Fresh
  <1>8. Made' = Made \cup {l} /\ l \notin Made
    BY <1>1, <1>4 DEF Made
  <1>9. Documented'
    BY <1>1, <1>4, <1>8 DEF Documented, Made
  <1>10. \A v \in reviews : v[1] \in Links /\ v[1] # l /\ link'[v[1]] = link[v[1]]
    <2>1. \A v \in reviews : v[1] \in Links
      BY DEF TypeOK
    <2> QED
      BY <1>1, <1>4, <2>1 DEF Reviewed
  <1>11. Reviewed'
    BY <1>2, <1>10 DEF Reviewed
  <1>12. Sequential'
    <2> SUFFICES ASSUME mode # "overlap" PROVE Sequential'
      BY <1>2 DEF Sequential
    <2>1. Busy' = {r} /\ AloneKnows(r)
      BY <1>1, <1>2, <1>5 DEF Sequential, Busy
    <2>2. AloneKnows(r)'
      BY <1>5 DEF AloneKnows
    <2>3. ActiveOf(None)' = ActiveOf(None) /\ \A p \in People : ActiveOf(p)' = ActiveOf(p)
      BY <1>1, <1>4, <1>8 DEF ActiveOf, Made
    <2>4. MaxActivePerBeneficiary'
      BY <2>3 DEF Sequential, MaxActivePerBeneficiary
    <2>5. OneOpen'
      <3>1. Registrable(row)
        BY <1>1, <2>1 DEF AloneKnows
      <3>2. \A m \in Made : link[m].status \notin Open => link[m].status = "rejected"
        BY DEF TypeOK, Made, Link
      <3>3. Alike(row) \subseteq Made /\ \A m \in Made : Alike(link[m]) \subseteq Made
        BY DEF Alike
      <3> SUFFICES ASSUME NEW m \in Made', NEW n \in Alike(link[m])' \ {m},
                          {link'[m].status, link'[n].status} \subseteq Open
                   PROVE  \E x \in Alike(link[m])' : link'[x].status = "rejected"
        BY DEF OneOpen
      <3>4. Alike(link[m])' = {x \in Made' : /\ link'[x].principal = link'[m].principal
                                             /\ link'[x].dependent = link'[m].dependent
                                             /\ link'[x].kind = link'[m].kind}
        BY DEF Alike
      <3>5. \A x \in Made : link'[x] = link[x]
        BY <1>4, <1>8 DEF Made
      <3>6. n \in Made' /\ m # n
        BY <3>4
      <3>7. CASE m = l
        <4>1. n \in Alike(row)
          BY <1>4, <1>8, <3>4, <3>5, <3>6, <3>7 DEF Alike
        <4>2. PICK x \in Alike(row) : link[x].status = "rejected"
          BY <3>1, <3>2, <3>3, <4>1 DEF Registrable
        <4> QED
          BY <1>4, <1>8, <3>4, <3>5, <3>7, <4>2 DEF Alike
      <3>8. CASE n = l
        <4>1. m \in Alike(row)
          BY <1>4, <1>8, <3>4, <3>5, <3>6, <3>8 DEF Alike
        <4>2. PICK x \in Alike(row) : link[x].status = "rejected"
          BY <3>1, <3>2, <3>3, <4>1 DEF Registrable
        <4> QED
          BY <1>4, <1>8, <3>4, <3>5, <3>8, <4>1, <4>2 DEF Alike
      <3>9. CASE m # l /\ n # l
        <4>1. m \in Made /\ n \in Alike(link[m]) \ {m}
          BY <1>8, <3>4, <3>5, <3>6, <3>9 DEF Alike
        <4>2. {link[m].status, link[n].status} \subseteq Open
          BY <3>3, <3>5, <4>1
        <4>3. PICK x \in Alike(link[m]) : link[x].status = "rejected"
          BY <4>1, <4>2 DEF Sequential, OneOpen
        <4> QED
          BY <1>8, <3>3, <3>4, <3>5, <4>1, <4>3 DEF Alike
      <3> QED
        BY <3>7, <3>8, <3>9
    <2>6. AsReviewed'
      BY <1>2, <1>10 DEF Sequential, AsReviewed
    <2> QED
      BY <2>1, <2>2, <2>4, <2>5, <2>6 DEF Sequential
  <1> QED
    BY <1>3, <1>6, <1>7, <1>9, <1>11, <1>12

LEMMA InvInsertDocuments ==
  ASSUME Inv, NEW r \in Requests, InsertDocuments(r)
  PROVE  Inv'
  <1> USE NoneIsNoLink DEF Inv
  <1> DEFINE l == call[r].link
  <1>1. /\ pc[r] = "documents" /\ l \in Links /\ link[l] # None /\ link[l] \in Link
    BY DEF InsertDocuments, Request, Call, TypeOK
  <1>2. /\ link' = [link EXCEPT ![l].proof = TRUE]
        /\ pc' = [pc EXCEPT ![r] = "idle"] /\ call' = [call EXCEPT ![r] = None]
        /\ UNCHANGED <<reviews, ops, mode>>
    BY DEF InsertDocuments, Goto
  <1>3. [link[l] EXCEPT !.proof = TRUE] \in Link
    BY <1>1 DEF Link
  <1>4. /\ link'[l] = [link[l] EXCEPT !.proof = TRUE]
        /\ \A m \in Links \ {l} : link'[m] = link[m]
    BY <1>1, <1>2 DEF TypeOK
  <1>5. TypeOK'
    BY <1>1, <1>2, <1>3 DEF TypeOK
  <1>6. Made' = Made
    BY <1>1, <1>3, <1>4 DEF Made
  <1>7. \A m \in Made : /\ link'[m].principal = link[m].principal
                        /\ link'[m].dependent = link[m].dependent
                        /\ link'[m].kind = link[m].kind
                        /\ link'[m].status = link[m].status
                        /\ link[m].proof => link'[m].proof
    BY <1>1, <1>4 DEF Made, Link
  <1>8. pc'[r] = "idle" /\ \A q \in Requests \ {r} : pc'[q] = pc[q] /\ call'[q] = call[q]
    BY <1>2 DEF TypeOK
  <1>9. \A q \in Requests : Request(q)'
    <2> SUFFICES ASSUME NEW q \in Requests \ {r}, pc[q] # "idle" PROVE Request(q)'
      BY <1>8 DEF Request
    <2>1. call[q].link \in Links
      BY DEF Request, Call
    <2> QED
      BY <1>6, <1>7, <1>8, <2>1 DEF Request, Made
  <1>10. Fresh'
    BY <1>8 DEF Fresh
  <1>11. Documented'
    BY <1>6, <1>7 DEF Documented
  <1>12. \A v \in reviews : v[1] \in Made
    BY DEF TypeOK, Reviewed, Made
  <1>13. Reviewed'
    BY <1>2, <1>6, <1>12 DEF Reviewed, Made
  <1>14. Sequential'
    <2> SUFFICES ASSUME mode # "overlap" PROVE Sequential'
      BY <1>2 DEF Sequential
    <2>1. Busy' = {}
      BY <1>1, <1>8 DEF Sequential, Busy
    <2>2. \A p \in People : ActiveOf(p)' = ActiveOf(p)
      BY <1>6, <1>7 DEF ActiveOf
    <2>3. MaxActivePerBeneficiary'
      BY <2>2 DEF Sequential, MaxActivePerBeneficiary
    <2>4. OneOpen'
      <3>1. \A m \in Made : Alike(link[m])' = Alike(link[m]) /\ Alike(link[m]) \subseteq Made
        BY <1>6, <1>7 DEF Alike
      <3> QED
        BY <1>6, <1>7, <3>1 DEF Sequential, OneOpen
    <2>5. AsReviewed'
      BY <1>2, <1>7, <1>12 DEF Sequential, AsReviewed
    <2> QED
      BY <2>1, <2>3, <2>4, <2>5 DEF Sequential
  <1> QED
    BY <1>5, <1>9, <1>10, <1>11, <1>13, <1>14

\* The verdict that others see: the trigger counted, and nobody came between.
LEMMA InvCommitLink ==
  ASSUME Inv, NEW r \in Requests, CommitLink(r)
  PROVE  Inv'
  <1> USE NoneIsNoLink DEF Inv
  <1> DEFINE l == call[r].link
             verdict == Verdict(call[r])
  <1>1. /\ pc[r] = "commit" /\ l \in Links /\ link[l] # None /\ link[l] \in Link
        /\ link[l].proof /\ call[r].approve \in BOOLEAN
    BY DEF CommitLink, Request, Call, TypeOK
  <1>2. /\ link' = [link EXCEPT ![l].status = verdict]
        /\ pc' = [pc EXCEPT ![r] = "review"] /\ UNCHANGED <<call, reviews, ops, mode>>
    BY DEF CommitLink, Goto
  <1>3. verdict \in {"approved", "rejected"} /\ (verdict = "approved" <=> call[r].approve)
    BY <1>1 DEF Verdict
  <1>4. [link[l] EXCEPT !.status = verdict] \in Link
    BY <1>1, <1>3 DEF Link, Open
  <1>5. /\ link'[l] = [link[l] EXCEPT !.status = verdict]
        /\ \A m \in Links \ {l} : link'[m] = link[m]
    BY <1>1, <1>2 DEF TypeOK
  <1>6. TypeOK'
    BY <1>1, <1>2, <1>4 DEF TypeOK
  <1>7. Made' = Made /\ l \in Made
    BY <1>1, <1>4, <1>5 DEF Made
  <1>8. /\ link'[l].status = verdict
        /\ \A m \in Made : /\ link'[m].principal = link[m].principal
                           /\ link'[m].dependent = link[m].dependent
                           /\ link'[m].kind = link[m].kind
                           /\ link'[m].proof = link[m].proof
                           /\ m # l => link'[m].status = link[m].status
    BY <1>1, <1>5 DEF Made, Link
  <1>9. pc'[r] = "review" /\ \A q \in Requests \ {r} : pc'[q] = pc[q]
    BY <1>2 DEF TypeOK
  <1>10. \A q \in Requests : Request(q)'
    <2> SUFFICES ASSUME NEW q \in Requests, pc'[q] # "idle" PROVE Request(q)'
      BY DEF Request
    <2>0. pc[q] # "idle"
      BY <1>1, <1>9
    <2>1. call[q].link \in Links
      BY <2>0 DEF Request, Call
    <2>2. pc'[q] = "insert" <=> pc[q] = "insert"
      BY <1>1, <1>9
    <2>3. pc'[q] \in {"update", "commit"} => pc[q] \in {"update", "commit"}
      BY <1>1, <1>9
    <2> QED
      BY <1>2, <1>7, <1>8, <2>0, <2>1, <2>2, <2>3 DEF Request, Made
  <1>11. Fresh'
    BY <1>1, <1>2, <1>9 DEF Fresh
  <1>12. Documented'
    BY <1>1, <1>7, <1>8 DEF Documented
  <1>13. \A v \in reviews : v[1] \in Made
    BY DEF TypeOK, Reviewed, Made
  <1>14. Reviewed'
    BY <1>2, <1>7, <1>13 DEF Reviewed, Made
  <1>15. Sequential'
    <2> SUFFICES ASSUME mode # "overlap" PROVE Sequential'
      BY <1>2 DEF Sequential
    <2>1. Busy' = {r} /\ AloneKnows(r)
      BY <1>1, <1>9 DEF Sequential, Busy
    <2>2. AloneKnows(r)'
      BY <1>2, <1>8, <1>9 DEF AloneKnows, Verdict
    <2>3. link[l].status = "requested"
      BY <1>1, <2>1 DEF AloneKnows
    <2>4. MaxActivePerBeneficiary'
      <3> SUFFICES ASSUME NEW p \in People
                   PROVE  Cardinality(ActiveOf(p)') <= MaxActive
        BY DEF MaxActivePerBeneficiary
      <3>1. CASE verdict = "approved" /\ link[l].principal = p
        <4>1. WithinLimit(l)
          BY <1>1, <1>3, <2>1, <3>1 DEF AloneKnows
        <4>2. ActiveOf(p)' = Active(l) \cup {l}
          BY <1>7, <1>8, <3>1 DEF ActiveOf, Active, Made
        <4>3. IsFiniteSet(Active(l)) /\ l \notin Active(l)
          <5>1. Active(l) \in SUBSET Links /\ l \notin Active(l)
            BY DEF Active, Made
          <5> QED
            BY <5>1, LinksAssumption, FS_Subset
        <4>4. Cardinality(ActiveOf(p)') = Cardinality(Active(l)) + 1
          BY <4>2, <4>3, FS_AddElement
        <4>5. Cardinality(Active(l)) \in Nat
          BY <4>3, FS_CardinalityType
        <4> QED
          BY <4>1, <4>4, <4>5, BoundsAssumption DEF WithinLimit
      <3>2. CASE ~(verdict = "approved" /\ link[l].principal = p)
        <4>1. ActiveOf(p)' \subseteq ActiveOf(p)
          BY <1>3, <1>7, <1>8, <3>2 DEF ActiveOf
        <4>2. IsFiniteSet(ActiveOf(p))
          <5>1. ActiveOf(p) \in SUBSET Links
            BY DEF ActiveOf, Made
          <5> QED
            BY <5>1, LinksAssumption, FS_Subset
        <4>3. /\ Cardinality(ActiveOf(p)') <= Cardinality(ActiveOf(p))
              /\ IsFiniteSet(ActiveOf(p)')
          BY <4>1, <4>2, FS_Subset
        <4>4. Cardinality(ActiveOf(p)) \in Nat /\ Cardinality(ActiveOf(p)') \in Nat
          BY <4>2, <4>3, FS_CardinalityType
        <4>5. Cardinality(ActiveOf(p)) <= MaxActive
          BY DEF Sequential, MaxActivePerBeneficiary
        <4> QED
          BY <4>3, <4>4, <4>5, BoundsAssumption
      <3> QED
        BY <3>1, <3>2
    <2>5. OneOpen'
      <3>1. \A m \in Made : link'[m].status \in Open => link[m].status \in Open
        BY <1>8, <2>3 DEF Open
      <3>2. \A m \in Made : Alike(link[m])' = Alike(link[m]) /\ Alike(link[m]) \subseteq Made
        BY <1>7, <1>8 DEF Alike
      <3>3. \A m \in Made : link[m].status = "rejected" => link'[m].status = "rejected"
        BY <1>8, <2>3
      <3> QED
        BY <1>7, <3>1, <3>2, <3>3 DEF Sequential, OneOpen
    <2>6. AsReviewed'
      <3>1. \A v \in reviews : v[1] # l
        BY <2>3 DEF Sequential, AsReviewed
      <3> QED
        BY <1>2, <1>8, <1>13, <3>1 DEF Sequential, AsReviewed
    <2> QED
      BY <2>1, <2>2, <2>4, <2>5, <2>6 DEF Sequential
  <1> QED
    BY <1>6, <1>10, <1>11, <1>12, <1>14, <1>15

LEMMA InvInsertReview ==
  ASSUME Inv, NEW r \in Requests, InsertReview(r)
  PROVE  Inv'
  <1> USE NoneIsNoLink DEF Inv
  <1> DEFINE v == <<call[r].link, call[r].approve>>
  <1>1. /\ pc[r] = "review" /\ link[call[r].link] # None
        /\ call[r].link \in Links /\ call[r].approve \in BOOLEAN
    BY DEF InsertReview, Request, Call
  <1>2. /\ reviews' = reviews \cup {v}
        /\ pc' = [pc EXCEPT ![r] = "idle"] /\ call' = [call EXCEPT ![r] = None]
        /\ UNCHANGED <<link, ops, mode>>
    BY DEF InsertReview, Goto
  <1>3. TypeOK'
    BY <1>1, <1>2 DEF TypeOK
  <1>4. pc'[r] = "idle" /\ \A q \in Requests \ {r} : pc'[q] = pc[q] /\ call'[q] = call[q]
    BY <1>2 DEF TypeOK
  <1>5. (\A q \in Requests : Request(q)') /\ Fresh'
    BY <1>2, <1>4 DEF Request, Fresh
  <1>6. Documented'
    BY <1>2 DEF Documented, Made
  <1>7. Reviewed'
    BY <1>1, <1>2 DEF Reviewed
  <1>8. Sequential'
    <2> SUFFICES ASSUME mode # "overlap" PROVE Sequential'
      BY <1>2 DEF Sequential
    <2>1. Busy' = {} /\ AloneKnows(r)
      BY <1>1, <1>4 DEF Sequential, Busy
    <2>2. MaxActivePerBeneficiary' /\ OneOpen'
      BY <1>2 DEF Sequential, MaxActivePerBeneficiary, ActiveOf, OneOpen, Alike, Made
    <2>3. link[v[1]].status = IF v[2] THEN "approved" ELSE "rejected"
      BY <1>1, <2>1 DEF AloneKnows, Verdict
    <2>4. AsReviewed'
      BY <1>2, <2>3 DEF Sequential, AsReviewed
    <2> QED
      BY <2>1, <2>2, <2>4 DEF Sequential
  <1> QED
    BY <1>3, <1>5, <1>6, <1>7, <1>8

LEMMA InvStutter == Inv /\ UNCHANGED vars => Inv'
  <1> SUFFICES ASSUME Inv, UNCHANGED vars PROVE Inv'
    OBVIOUS
  <1> USE DEF Inv, vars
  <1>1. TypeOK'
    BY DEF TypeOK
  <1>2. Made' = Made /\ Busy' = Busy
    BY DEF Made, Busy
  <1>3. (\A r \in Requests : Request(r)') /\ Fresh'
    BY DEF Request, Fresh
  <1>4. Documented' /\ Reviewed'
    BY <1>2 DEF Documented, Reviewed
  <1>5. Sequential'
    <2>1. \A r \in Requests : AloneKnows(r) => AloneKnows(r)'
      BY <1>2 DEF AloneKnows, Registrable, Alike, WithinLimit, Active
    <2>2. MaxActivePerBeneficiary => MaxActivePerBeneficiary'
      BY <1>2 DEF MaxActivePerBeneficiary, ActiveOf
    <2>3. (OneOpen => OneOpen') /\ (AsReviewed => AsReviewed')
      BY <1>2 DEF OneOpen, Alike, AsReviewed
    <2>4. Busy \subseteq Requests
      BY DEF Busy
    <2> QED
      BY <1>2, <2>1, <2>2, <2>3, <2>4 DEF Sequential
  <1> QED
    BY <1>1, <1>3, <1>4, <1>5

LEMMA InvStep == Inv /\ [Next]_vars => Inv'
  <1> SUFFICES ASSUME Inv, [Next]_vars PROVE Inv'
    OBVIOUS
  <1>1. ASSUME NEW r \in Requests, BeginRegister(r) PROVE Inv'
    BY <1>1, InvBeginRegister
  <1>2. ASSUME NEW r \in Requests, InsertLink(r) PROVE Inv'
    BY <1>2, InvInsertLink
  <1>3. ASSUME NEW r \in Requests, InsertDocuments(r) PROVE Inv'
    BY <1>3, InvInsertDocuments
  <1>4. ASSUME NEW r \in Requests, BeginDecide(r) PROVE Inv'
    BY <1>4, InvBeginDecide
  <1>5. ASSUME NEW r \in Requests, CheckProof(r) PROVE Inv'
    BY <1>5, InvGoto DEF CheckProof, Answer
  <1>6. ASSUME NEW r \in Requests, UpdateLink(r) PROVE Inv'
    BY <1>6, InvGoto DEF UpdateLink, Answer
  <1>7. ASSUME NEW r \in Requests, CommitLink(r) PROVE Inv'
    BY <1>7, InvCommitLink
  <1>8. ASSUME NEW r \in Requests, InsertReview(r) PROVE Inv'
    BY <1>8, InvInsertReview
  <1>9. ASSUME NEW r \in Requests, Drop(r) PROVE Inv'
    BY <1>9, InvGoto DEF Drop, Answer
  <1>10. CASE UNCHANGED vars
    BY <1>10, InvStutter
  <1> QED
    BY <1>1, <1>2, <1>3, <1>4, <1>5, <1>6, <1>7, <1>8, <1>9, <1>10 DEF Next

\* Whatever overlaps or dies, a link that is decided has its documents; and one
\* request at a time keeps the limit of the trigger, one open link of a kind
\* for a pair unless one of the kind was rejected, and a review that says what
\* the link is (registerDependent and approveRelationship of domain.service.ts).
THEOREM LinksSoundHolds == Spec => []LinksSound
  <1>1. Inv => LinksSound
    BY DEF Inv, LinksSound, Documented, Sequential, OneOpen, AsReviewed
  <1> QED
    BY <1>1, InvInit, InvStep, PTL DEF Spec

\* The rows and the requests of the relationships are of their types.
THEOREM TypeCorrect == Spec => []TypeOK
  <1>1. Inv => TypeOK
    BY DEF Inv
  <1> QED
    BY <1>1, InvInit, InvStep, PTL DEF Spec

----------------------------------------------------------------------------
(***************************************************************************)
(* The setup of programs: no task and no answer refers to a step or a      *)
(* field that is gone, however requests overlap or die; and as long as     *)
(* they do not overlap, no setting that was saved is lost and the engine   *)
(* of a case in evaluation can bring it to a decision.                     *)
(***************************************************************************)

\* What a request in flight carries, by the statement it is at.
Shape(r) ==
  /\ setupCall[r] \in Setup!Call
  /\ setupPc[r] \in {"findEngine", "count", "deleteEngine", "copy"}
       => setupCall[r].template \in SetupTemplates
  /\ setupPc[r] = "copySteps" => setupCall[r].toInsert \subseteq Setup!Step
  /\ setupPc[r] \in {"insertFields", "answer"} => setupCall[r].toInsert \subseteq Setup!Field
  /\ setupPc[r] \in {"types", "evaluation", "approval"} => setupCall[r].engine # 0
  /\ setupPc[r] \in {"case", "readFields", "answer", "findStep", "task", "status"}
       => setupCall[r].op = "submit"
  /\ setupCall[r].op = "submit" => setupCall[r].case \in Cases
  /\ setupPc[r] = "task" => setupCall[r].step \in Setup!Step

Wellformed == \A r \in SetupRequests : setupPc[r] # "idle" => Shape(r)

TypeInv == Setup!TypeOK /\ Wellformed

\* the foreign keys
Referenced ==
  /\ \A a \in Cases : task[a] # None => task[a] \in steps
  /\ answered \subseteq fields

\* one request at a time
OneAtATime == \A r, q \in SetupRequests : setupPc[r] # "idle" /\ setupPc[q] # "idle" => r = q

\* What a request that runs alone has read of the settings is what they are, a
\* program that is being made has no journey, and the others have a program.
SettingsRead(r) ==
  /\ setupPc[r] \in {"template", "writeRules"} /\ setupCall[r].op # "create"
       => setupCall[r].read = config
  /\ setupPc[r] \in {"template", "version", "writeRules"} /\ setupCall[r].op = "create"
       => config["workflow"] = 0 /\ setupCall[r].part = "windows"
  /\ setupPc[r] = "readRules" => setupCall[r].op # "create"
  /\ setupPc[r] \in {"version", "readRules", "writeRules"} => program # "none"
  /\ setupPc[r] = "template" /\ setupCall[r].op # "create" => program # "none"

SettingsInv ==
  /\ config = saved
  /\ program = "none" => config["workflow"] = 0
  /\ \A r \in SetupRequests : SettingsRead(r)

Has(type) == \E s \in Setup!StepsOn(engine) : s.type = type

\* A case that can be evaluated and approved on the program's engine.
Served(a) ==
  /\ task[a] # None /\ task[a].type = "evaluation" /\ task[a].engine = engine
  /\ Has("approval")

\* What a request that runs alone knows of the engine: that of the version while
\* it makes up the steps that are missing, those it has found or inserted, and
\* that no case is on the one it replaces.
EngineKnown(r) ==
  /\ setupPc[r] \in {"types", "evaluation", "approval"} => setupCall[r].engine = engine
  /\ setupPc[r] = "evaluation" => setupCall[r].types = {s.type : s \in Setup!StepsOn(engine)}
  /\ setupPc[r] = "approval" =>
       Has("evaluation") /\ ("approval" \in setupCall[r].types => Has("approval"))
  /\ setupPc[r] = "findStep" => Has("evaluation") /\ Has("approval")
  /\ setupPc[r] = "task" =>
       /\ setupCall[r].step.engine = engine /\ setupCall[r].step.type = "evaluation"
       /\ Has("approval")
  /\ setupPc[r] = "status" => Served(setupCall[r].case)
  /\ setupPc[r] = "deleteEngine" => \A a \in Cases : case[a] = "none"

EngineInv ==
  /\ \A a \in Cases : case[a] = "in_evaluation" => Served(a)
  /\ \A r \in SetupRequests : EngineKnown(r)

SetupInv ==
  /\ TypeInv /\ Referenced
  /\ setupMode # "overlap" => OneAtATime /\ SettingsInv /\ EngineInv

----------------------------------------------------------------------------
(* What the statements are built from *)

\* What the memory of a request is made of, and what it may come to hold.
LEMMA CallFacts ==
  ASSUME NEW c \in Setup!Call
  PROVE  /\ c.op \in Setup!Ops /\ c.n \in 1 .. SetupMaxOps /\ c.part \in Setup!Parts
         /\ c.read \in Setup!Config /\ c.template \in SetupTemplates \cup {None}
         /\ c.engine \in 0 .. SetupMaxOps /\ c.types \in SUBSET Setup!Types
         /\ c.step \in Setup!Step \cup {None}
         /\ c.toInsert \in SUBSET (Setup!Step \cup Setup!Field) /\ c.case \in Cases \cup {None}
         /\ \A v \in Setup!Config : [c EXCEPT !.read = v] \in Setup!Call
         /\ \A v \in 0 .. SetupMaxOps : [c EXCEPT !.engine = v] \in Setup!Call
         /\ \A v \in SUBSET Setup!Types : [c EXCEPT !.types = v] \in Setup!Call
         /\ \A v \in Setup!Step : [c EXCEPT !.step = v] \in Setup!Call
         /\ \A v \in SUBSET (Setup!Step \cup Setup!Field) : [c EXCEPT !.toInsert = v] \in Setup!Call
  BY DEF Setup!Call

\* A request moves on: it alone, to a label, with what it now carries.
LEMMA TypeMoves ==
  ASSUME TypeInv, NEW r \in SetupRequests, NEW l \in Setup!Labels, NEW c,
         setupPc' = [setupPc EXCEPT ![r] = l], setupCall' = [setupCall EXCEPT ![r] = c],
         l = "idle" => c \in Setup!Call \cup {None},
         l # "idle" => c \in Setup!Call /\ Shape(r)'
  PROVE  /\ setupPc' \in [SetupRequests -> Setup!Labels] /\ setupCall' \in [SetupRequests -> Setup!Call \cup {None}]
         /\ Wellformed'
         /\ setupPc'[r] = l /\ setupCall'[r] = c
         /\ \A q \in SetupRequests \ {r} : setupPc'[q] = setupPc[q] /\ setupCall'[q] = setupCall[q]
  <1>1. setupPc \in [SetupRequests -> Setup!Labels] /\ setupCall \in [SetupRequests -> Setup!Call \cup {None}]
    BY DEF TypeInv, Setup!TypeOK
  <1>2. /\ setupPc'[r] = l /\ setupCall'[r] = c
        /\ \A q \in SetupRequests \ {r} : setupPc'[q] = setupPc[q] /\ setupCall'[q] = setupCall[q]
    BY <1>1
  <1>3. ASSUME NEW q \in SetupRequests, setupPc'[q] # "idle" PROVE Shape(q)'
    <2>1. CASE q = r
      BY <1>2, <1>3, <2>1
    <2>2. CASE q # r
      BY <1>2, <1>3, <2>2 DEF TypeInv, Wellformed, Shape
    <2> QED
      BY <2>1, <2>2
  <1> QED
    BY <1>1, <1>2, <1>3 DEF Wellformed

\* The part of the type invariant that is about requests.
Requested ==
  /\ setupPc \in [SetupRequests -> Setup!Labels] /\ setupCall \in [SetupRequests -> Setup!Call \cup {None}]
  /\ Wellformed

\* A request that goes on with what it carries, or ends
LEMMA TypeGoto ==
  ASSUME TypeInv, NEW r \in SetupRequests, NEW l \in Setup!Labels, setupPc[r] # "idle", Setup!Goto(r, l),
         l \in {"findEngine", "count", "deleteEngine", "copy"}
           => setupCall[r].template \in SetupTemplates,
         l \notin {"copySteps", "insertFields", "task"},
         l = "answer" => setupCall[r].toInsert \subseteq Setup!Field,
         l \in {"types", "evaluation", "approval"} => setupCall[r].engine # 0,
         l \in {"case", "readFields", "answer", "findStep", "status"}
           => setupCall[r].op = "submit"
  PROVE  Requested' /\ setupOps' = setupOps /\ setupMode' = setupMode
  <1>1. Shape(r) /\ setupPc \in [SetupRequests -> Setup!Labels]
        /\ setupCall \in [SetupRequests -> Setup!Call \cup {None}]
    BY DEF TypeInv, Setup!TypeOK, Wellformed
  <1>2. /\ setupPc' = [setupPc EXCEPT ![r] = l]
        /\ setupCall' = [setupCall EXCEPT ![r] = IF l = "idle" THEN None ELSE setupCall[r]]
    BY <1>1 DEF Setup!Goto
  <1>3. l # "idle" => Shape(r)'
    <2> SUFFICES ASSUME l # "idle" PROVE Shape(r)'
      OBVIOUS
    <2>1. setupPc'[r] = l /\ setupCall'[r] = setupCall[r]
      BY <1>1, <1>2
    <2> QED
      BY <1>1, <2>1 DEF Shape
  <1>4. l # "idle" => setupCall[r] \in Setup!Call
    BY <1>1 DEF Shape
  <1>5. Requested'
    BY <1>2, <1>3, <1>4, TypeMoves DEF Requested
  <1> QED
    BY <1>5 DEF Setup!Goto

\* A request that goes on with more than it carried
LEMMA TypeCarry ==
  ASSUME TypeInv, NEW r \in SetupRequests, NEW l \in Setup!Labels \ {"idle"}, NEW c,
         setupPc' = [setupPc EXCEPT ![r] = l], setupCall' = [setupCall EXCEPT ![r] = c],
         c \in Setup!Call,
         l \in {"findEngine", "count", "deleteEngine", "copy"} => c.template \in SetupTemplates,
         l = "copySteps" => c.toInsert \subseteq Setup!Step,
         l \in {"insertFields", "answer"} => c.toInsert \subseteq Setup!Field,
         l \in {"types", "evaluation", "approval"} => c.engine # 0,
         l \in {"case", "readFields", "answer", "findStep", "task", "status"}
           => c.op = "submit",
         c.op = "submit" => c.case \in Cases,
         l = "task" => c.step \in Setup!Step
  PROVE  Requested'
  <1>1. setupPc'[r] = l /\ setupCall'[r] = c
    BY DEF TypeInv, Setup!TypeOK
  <1>2. Shape(r)'
    BY <1>1 DEF Shape
  <1> QED
    BY <1>2, TypeMoves DEF Requested

LEMMA TypeBegin ==
  ASSUME TypeInv, NEW r \in SetupRequests, NEW op \in Setup!Ops, NEW l \in Setup!Labels \ {"idle"},
         NEW piece \in Setup!Parts, NEW t \in SetupTemplates \cup {None},
         NEW a \in Cases \cup {None}, Setup!Begin(r, op, l, piece, t, a), SetupMaxOps \in Nat,
         l \in {"template", "readRules", "findEngine", "case"},
         l = "findEngine" => t \in SetupTemplates,
         l = "case" => op = "submit",
         op = "submit" => a \in Cases
  PROVE  TypeInv'
  <1> DEFINE c == [op |-> op, n |-> setupOps + 1, part |-> piece, read |-> config,
                   template |-> t, engine |-> 0, types |-> {}, step |-> None,
                   toInsert |-> {}, case |-> a]
  <1>1. c \in Setup!Call
    BY DEF TypeInv, Setup!TypeOK, Setup!Call, Setup!Begin
  <1>2. /\ c.op = op /\ c.template = t /\ c.case = a /\ c.toInsert = {}
        /\ setupPc' = [setupPc EXCEPT ![r] = l] /\ setupCall' = [setupCall EXCEPT ![r] = c]
    BY DEF Setup!Begin
  <1> HIDE DEF c
  <1>3. Requested'
    BY <1>1, <1>2, TypeCarry
  <1>4. setupOps' \in 0 .. SetupMaxOps /\ setupMode' = setupMode /\ UNCHANGED <<Setup!rows, Setup!settings>>
    BY DEF Setup!Begin, TypeInv, Setup!TypeOK
  <1> QED
    BY <1>3, <1>4 DEF TypeInv, Setup!TypeOK, Requested, Setup!rows, Setup!settings

LEMMA TypeBegins ==
  ASSUME Setup!Assumptions, TypeInv, NEW r \in SetupRequests,
         Setup!BeginCreate(r) \/ Setup!BeginUpdate(r) \/ Setup!BeginSync(r) \/ Setup!BeginApply(r) \/ Setup!BeginSubmit(r)
  PROVE  TypeInv'
  <1> USE TypeBegin DEF Setup!Ops, Setup!Labels, Setup!Parts, Setup!Assumptions
  <1>1. CASE Setup!BeginCreate(r)
    BY <1>1 DEF Setup!BeginCreate
  <1>2. CASE Setup!BeginUpdate(r)
    BY <1>2 DEF Setup!BeginUpdate
  <1>3. CASE Setup!BeginSync(r)
    BY <1>3 DEF Setup!BeginSync
  <1>4. CASE Setup!BeginApply(r)
    BY <1>4 DEF Setup!BeginApply
  <1>5. CASE Setup!BeginSubmit(r)
    BY <1>5 DEF Setup!BeginSubmit
  <1> QED
    BY <1>1, <1>2, <1>3, <1>4, <1>5

\* A request that ends where it is
LEMMA TypeFail ==
  ASSUME TypeInv, NEW r \in SetupRequests, setupPc[r] # "idle", Setup!Fail(r)
  PROVE  TypeInv'
  <1>1. Requested' /\ setupOps' = setupOps /\ setupMode' = setupMode
    BY TypeGoto DEF Setup!Fail, Setup!Labels
  <1> QED
    BY <1>1 DEF Setup!Fail, Setup!rows, Setup!settings, TypeInv, Setup!TypeOK, Requested

\* The template, the version and the rules
LEMMA TypeSettings ==
  ASSUME Setup!Assumptions, TypeInv, NEW r \in SetupRequests,
         Setup!SaveTemplate(r) \/ Setup!SaveVersion(r) \/ Setup!ReadRules(r) \/ Setup!WriteRules(r)
  PROVE  TypeInv'
  <1>0. setupPc[r] # "idle"
    BY DEF Setup!SaveTemplate, Setup!SaveVersion, Setup!ReadRules, Setup!WriteRules
  <1>1. setupCall[r] \in Setup!Call
    BY <1>0 DEF TypeInv, Wellformed, Shape
  <1>2. setupCall[r].n \in 0 .. SetupMaxOps /\ setupCall[r].read \in Setup!Config /\ setupCall[r].part \in Setup!Parts
        /\ setupCall[r].template \in SetupTemplates \cup {None} /\ setupCall[r].op \in Setup!Ops
    BY <1>1, CallFacts DEF Setup!Assumptions
  <1>3. CASE Setup!SaveTemplate(r)
    <2>1. Requested' /\ setupOps' = setupOps /\ setupMode' = setupMode
      BY <1>0, <1>3, TypeGoto DEF Setup!SaveTemplate, Setup!Labels
    <2>2. config' \in Setup!Config /\ saved' \in Setup!Config
      BY <1>2, <1>3 DEF Setup!SaveTemplate, Setup!Config, TypeInv, Setup!TypeOK,
         Setup!Parts
    <2> QED
      BY <1>3, <2>1, <2>2 DEF Setup!SaveTemplate, TypeInv, Setup!TypeOK, Requested
  <1>4. CASE Setup!SaveVersion(r)
    <2>1. Requested' /\ setupOps' = setupOps /\ setupMode' = setupMode
      BY <1>0, <1>4, TypeGoto DEF Setup!SaveVersion, Setup!Labels
    <2> QED
      BY <1>4, <2>1 DEF Setup!SaveVersion, TypeInv, Setup!TypeOK, Requested,
         Setup!settings
  <1>5. CASE Setup!ReadRules(r)
    <2> DEFINE c == [setupCall[r] EXCEPT !.read = config]
    <2>1. c \in Setup!Call /\ c.op = setupCall[r].op /\ c.case = setupCall[r].case
      BY <1>1, CallFacts DEF TypeInv, Setup!TypeOK, Setup!Call
    <2>2. setupPc' = [setupPc EXCEPT ![r] = "writeRules"] /\ setupCall' = [setupCall EXCEPT ![r] = c]
          /\ UNCHANGED <<Setup!rows, Setup!settings, setupOps, setupMode>>
      BY <1>5 DEF Setup!ReadRules, Setup!Read
    <2>3. c.op = "submit" => c.case \in Cases
      BY <1>0, <2>1 DEF TypeInv, Wellformed, Shape
    <2> HIDE DEF c
    <2>4. Requested'
      BY <2>1, <2>2, <2>3, TypeCarry DEF Setup!Labels
    <2> QED
      BY <2>2, <2>4 DEF TypeInv, Setup!TypeOK, Requested, Setup!rows, Setup!settings
  <1>6. CASE Setup!WriteRules(r)
    <2>1. Requested' /\ setupOps' = setupOps /\ setupMode' = setupMode
      BY <1>0, <1>2, <1>6, TypeGoto DEF Setup!WriteRules, Setup!Labels
    <2>2. Setup!NextRules(setupCall[r]) \in [{"windows", "workflow"} -> 0 .. SetupMaxOps]
      BY <1>2 DEF Setup!NextRules, Setup!Config, Setup!Parts, Setup!Assumptions
    <2>3. config' \in Setup!Config /\ saved' \in Setup!Config
      BY <1>2, <1>6, <2>2 DEF Setup!WriteRules, Setup!Config, TypeInv, Setup!TypeOK,
         Setup!Parts
    <2> QED
      BY <1>6, <2>1, <2>3 DEF Setup!WriteRules, TypeInv, Setup!TypeOK, Requested,
         Setup!rows
  <1> QED
    BY <1>3, <1>4, <1>5, <1>6

\* The form and its fields, and the answers to them
LEMMA TypeForm ==
  ASSUME Setup!Assumptions, TypeInv, NEW r \in SetupRequests,
         Setup!FindForm(r) \/ Setup!InsertForm(r) \/ Setup!DeleteFields(r) \/ Setup!InsertField(r)
         \/ Setup!ReadFields(r) \/ Setup!SaveAnswer(r)
  PROVE  TypeInv'
  <1>0. setupPc[r] # "idle"
    BY DEF Setup!FindForm, Setup!InsertForm, Setup!DeleteFields, Setup!InsertField,
       Setup!ReadFields, Setup!SaveAnswer
  <1>1. setupCall[r] \in Setup!Call /\ Shape(r)
    BY <1>0 DEF TypeInv, Wellformed, Shape
  <1>2. CASE Setup!FindForm(r)
    <2>1. Requested' /\ setupOps' = setupOps /\ setupMode' = setupMode
      BY <1>0, <1>2, TypeGoto DEF Setup!FindForm, Setup!Labels
    <2> QED
      BY <1>2, <2>1 DEF Setup!FindForm, TypeInv, Setup!TypeOK, Requested, Setup!rows,
         Setup!settings
  <1>3. CASE Setup!InsertForm(r)
    <2>1. CASE form
      BY <1>0, <1>3, <2>1, TypeFail DEF Setup!InsertForm
    <2>2. CASE ~form
      <3>1. Requested' /\ setupOps' = setupOps /\ setupMode' = setupMode
        BY <1>0, <1>3, <2>2, TypeGoto DEF Setup!InsertForm, Setup!Labels
      <3> QED
        BY <1>3, <2>2, <3>1 DEF Setup!InsertForm, TypeInv, Setup!TypeOK, Requested,
           Setup!settings
    <2> QED
      BY <2>1, <2>2
  \* the memory of r with other things to insert, at l
  <1>4. ASSUME NEW S \in SUBSET Setup!Field, NEW l \in {"insertFields", "answer"},
               l = "answer" => setupCall[r].op = "submit",
               setupPc' = [setupPc EXCEPT ![r] = l],
               setupCall' = [setupCall EXCEPT ![r] = [setupCall[r] EXCEPT !.toInsert = S]]
        PROVE  Requested'
    <2> DEFINE c == [setupCall[r] EXCEPT !.toInsert = S]
    <2>1. c \in Setup!Call /\ c.op = setupCall[r].op /\ c.case = setupCall[r].case /\ c.toInsert = S
      BY <1>1, CallFacts DEF Setup!Call
    <2>2. c.op = "submit" => c.case \in Cases
      BY <1>1, <2>1 DEF Shape
    <2>3. setupPc' = [setupPc EXCEPT ![r] = l] /\ setupCall' = [setupCall EXCEPT ![r] = c]
      BY <1>4
    <2> HIDE DEF c
    <2>4. CASE l = "insertFields"
      BY <2>1, <2>2, <2>3, <2>4, TypeCarry DEF Setup!Labels
    <2>5. CASE l = "answer"
      <3>1. c.op = "submit" /\ c.case \in Cases
        BY <1>4, <2>1, <2>2, <2>5
      <3>2. setupPc' = [setupPc EXCEPT ![r] = "answer"]
        BY <2>3, <2>5
      <3> QED
        BY <2>1, <2>3, <3>1, <3>2, TypeCarry DEF Setup!Labels
    <2> QED
      BY <2>4, <2>5
  <1>5. setupCall \in [SetupRequests -> Setup!Call \cup {None}] /\ setupPc \in [SetupRequests -> Setup!Labels]
        /\ fields \subseteq Setup!Field
    BY DEF TypeInv, Setup!TypeOK
  <1>6. CASE Setup!DeleteFields(r)
    <2>1. CASE Setup!FieldsFreeOfAnswers
      <3> DEFINE S == {[sync |-> setupCall[r].n, key |-> k] : k \in SetupKeys}
      <3>1. S \in SUBSET Setup!Field
        BY <1>1, CallFacts DEF Setup!Field
      <3>2. /\ setupPc' = [setupPc EXCEPT ![r] = "insertFields"]
            /\ setupCall' = [setupCall EXCEPT ![r] = [setupCall[r] EXCEPT !.toInsert = S]]
        BY <1>5, <1>6, <2>1 DEF Setup!DeleteFields
      <3> HIDE DEF S
      <3>3. Requested'
        BY <1>4, <3>1, <3>2
      <3> QED
        BY <1>6, <2>1, <3>3 DEF Setup!DeleteFields, TypeInv, Setup!TypeOK, Requested,
           Setup!settings
    <2>2. CASE ~Setup!FieldsFreeOfAnswers
      BY <1>0, <1>6, <2>2, TypeFail DEF Setup!DeleteFields
    <2> QED
      BY <2>1, <2>2
  <1>7. CASE Setup!InsertField(r)
    <2>1. CASE Setup!Fail(r)
      BY <1>0, <2>1, TypeFail
    <2>2. CASE ~Setup!Fail(r)
      <3>1. PICK f \in setupCall[r].toInsert :
                 /\ fields' = fields \cup {f}
                 /\ setupCall' = [setupCall EXCEPT ![r].toInsert = @ \ {f}]
                 /\ UNCHANGED <<Setup!settings, program, engine, steps, form, answered,
                                case, task, setupPc, setupOps, setupMode>>
        BY <1>7, <2>2 DEF Setup!InsertField
      <3>2. setupCall[r].toInsert \subseteq Setup!Field /\ setupPc[r] = "insertFields"
        BY <1>1, <1>7 DEF Shape, Setup!InsertField
      <3>3. /\ setupPc' = [setupPc EXCEPT ![r] = "insertFields"]
            /\ setupCall' = [setupCall EXCEPT ![r] = [setupCall[r] EXCEPT !.toInsert = setupCall[r].toInsert \ {f}]]
        BY <1>5, <3>1, <3>2
      <3>4. Requested'
        BY <1>4, <3>2, <3>3
      <3> QED
        BY <3>1, <3>2, <3>4 DEF TypeInv, Setup!TypeOK, Requested, Setup!settings
    <2> QED
      BY <2>1, <2>2
  <1>8. CASE Setup!ReadFields(r)
    <2>1. PICK filled \in SUBSET fields :
               Setup!Read(r, "answer", [setupCall[r] EXCEPT !.toInsert = filled])
      BY <1>8 DEF Setup!ReadFields
    <2>2. filled \in SUBSET Setup!Field /\ setupCall[r].op = "submit"
      BY <1>1, <1>5, <1>8 DEF Shape, Setup!ReadFields
    <2>3. Requested'
      BY <1>4, <2>1, <2>2 DEF Setup!Read
    <2> QED
      BY <2>1, <2>3 DEF Setup!Read, TypeInv, Setup!TypeOK, Requested, Setup!rows,
         Setup!settings
  <1>9. CASE Setup!SaveAnswer(r)
    <2>0. setupCall[r].op = "submit" /\ setupCall[r].toInsert \subseteq Setup!Field /\ setupPc[r] = "answer"
      BY <1>1, <1>9 DEF Shape, Setup!SaveAnswer
    <2>1. CASE Setup!Fail(r)
      BY <1>0, <2>1, TypeFail
    <2>2. CASE Setup!Goto(r, "engine") /\ UNCHANGED <<Setup!rows, Setup!settings>>
      <3>1. Requested' /\ setupOps' = setupOps /\ setupMode' = setupMode
        BY <1>0, <2>2, TypeGoto DEF Setup!Labels
      <3> QED
        BY <2>2, <3>1 DEF TypeInv, Setup!TypeOK, Requested, Setup!rows, Setup!settings
    <2>3. ASSUME NEW f \in setupCall[r].toInsert,
                 f \in fields,
                 answered' = answered \cup {f},
                 setupCall' = [setupCall EXCEPT ![r].toInsert = @ \ {f}],
                 UNCHANGED <<Setup!settings, program, engine, steps, form, fields, case,
                             task, setupPc, setupOps, setupMode>>
          PROVE  TypeInv'
      <3>1. /\ setupPc' = [setupPc EXCEPT ![r] = "answer"]
            /\ setupCall' = [setupCall EXCEPT ![r] = [setupCall[r] EXCEPT !.toInsert = setupCall[r].toInsert \ {f}]]
        BY <1>5, <2>0, <2>3
      <3>2. Requested'
        BY <1>4, <2>0, <3>1
      <3> QED
        BY <2>0, <2>3, <3>2 DEF TypeInv, Setup!TypeOK, Requested, Setup!settings
    <2> QED
      BY <1>9, <2>1, <2>2, <2>3 DEF Setup!SaveAnswer
  <1> QED
    BY <1>2, <1>3, <1>6, <1>7, <1>8, <1>9

\* What each of these requests carries on with
LEMMA TypeCarried ==
  ASSUME TypeInv, NEW r \in SetupRequests, NEW l \in Setup!Labels \ {"idle"}, NEW c \in Setup!Call,
         setupPc[r] # "idle", setupPc' = [setupPc EXCEPT ![r] = l], setupCall' = [setupCall EXCEPT ![r] = c],
         c.op = setupCall[r].op, c.case = setupCall[r].case, c.template = setupCall[r].template,
         l \in {"count", "deleteEngine", "copy"} => setupCall[r].template \in SetupTemplates,
         l \in {"task"} => setupCall[r].op = "submit" /\ c.step \in Setup!Step,
         l = "copySteps" => c.toInsert \subseteq Setup!Step,
         l \in {"types", "evaluation", "approval"} => c.engine # 0,
         l \notin {"findEngine", "insertFields", "answer", "case", "readFields",
                   "findStep", "status"}
  PROVE  Requested'
  <1>1. setupCall[r].op = "submit" => setupCall[r].case \in Cases
    BY DEF TypeInv, Wellformed, Shape
  <1> QED
    BY <1>1, TypeCarry

LEMMA TypeCopy ==
  ASSUME Setup!Assumptions, TypeInv, NEW r \in SetupRequests,
         Setup!FindEngine(r) \/ Setup!CountCases(r) \/ Setup!DeleteEngine(r) \/ Setup!CopyEngine(r) \/ Setup!CopyStep(r)
  PROVE  TypeInv'
  <1>0. setupPc[r] # "idle"
    BY DEF Setup!FindEngine, Setup!CountCases, Setup!DeleteEngine, Setup!CopyEngine,
       Setup!CopyStep
  <1>1. setupCall[r] \in Setup!Call /\ Shape(r)
    BY <1>0 DEF TypeInv, Wellformed, Shape
  <1>2. setupCall \in [SetupRequests -> Setup!Call \cup {None}] /\ setupPc \in [SetupRequests -> Setup!Labels]
        /\ engine \in 0 .. SetupMaxOps /\ steps \subseteq Setup!Step /\ SetupMaxOps \in Nat
        /\ setupCall[r].n \in 1 .. SetupMaxOps
    BY <1>1, CallFacts DEF TypeInv, Setup!TypeOK, Setup!Assumptions
  <1>3. CASE Setup!FindEngine(r)
    <2> DEFINE c == [setupCall[r] EXCEPT !.engine = engine]
    <2>1. /\ c \in Setup!Call /\ c.op = setupCall[r].op /\ c.case = setupCall[r].case
          /\ c.template = setupCall[r].template /\ setupCall[r].template \in SetupTemplates
      BY <1>1, <1>2, <1>3, CallFacts DEF Setup!Call, Shape, Setup!FindEngine
    <2>2. setupCall' = [setupCall EXCEPT ![r] = c] /\ UNCHANGED <<Setup!rows, Setup!settings, setupOps, setupMode>>
      BY <1>3 DEF Setup!FindEngine, Setup!Read
    <2> HIDE DEF c
    <2>3. \E l \in {"copy", "count"} : setupPc' = [setupPc EXCEPT ![r] = l]
      BY <1>3 DEF Setup!FindEngine, Setup!Read
    <2>4. Requested'
      BY <1>0, <2>1, <2>2, <2>3, TypeCarried DEF Setup!Labels
    <2> QED
      BY <2>2, <2>4 DEF TypeInv, Setup!TypeOK, Requested, Setup!rows, Setup!settings
  <1>4. CASE Setup!CountCases(r)
    <2>1. CASE Setup!Fail(r)
      BY <1>0, <2>1, TypeFail
    <2>2. CASE ~Setup!Fail(r)
      <3>1. Requested' /\ setupOps' = setupOps /\ setupMode' = setupMode
        BY <1>0, <1>1, <1>4, <2>2, TypeGoto DEF Setup!CountCases, Setup!Labels, Shape
      <3> QED
        BY <1>4, <2>2, <3>1 DEF Setup!CountCases, TypeInv, Setup!TypeOK, Requested,
           Setup!rows, Setup!settings
    <2> QED
      BY <2>1, <2>2
  <1>5. CASE Setup!DeleteEngine(r)
    <2>1. CASE Setup!Fail(r)
      BY <1>0, <2>1, TypeFail
    <2>2. CASE ~Setup!Fail(r)
      <3>1. Requested' /\ setupOps' = setupOps /\ setupMode' = setupMode
        BY <1>0, <1>1, <1>5, <2>2, TypeGoto DEF Setup!DeleteEngine, Setup!Labels, Shape
      <3>2. engine' \in 0 .. SetupMaxOps /\ steps' \subseteq Setup!Step
        BY <1>2, <1>5, <2>2 DEF Setup!DeleteEngine
      <3> QED
        BY <1>5, <2>2, <3>1, <3>2 DEF Setup!DeleteEngine, TypeInv, Setup!TypeOK,
           Requested, Setup!settings
    <2> QED
      BY <2>1, <2>2
  <1>6. CASE Setup!CopyEngine(r)
    <2>1. CASE Setup!Fail(r)
      BY <1>0, <2>1, TypeFail
    <2>2. CASE ~Setup!Fail(r)
      <3> DEFINE S == {[engine |-> setupCall[r].n, key |-> s.key, type |-> s.type] :
                          s \in TemplateSteps[setupCall[r].template]}
                 c == [setupCall[r] EXCEPT !.toInsert = S]
      <3>1. setupCall[r].template \in SetupTemplates
        BY <1>1, <1>6 DEF Shape, Setup!CopyEngine
      <3>2. S \subseteq Setup!Step
        BY <1>2, <3>1 DEF Setup!Step, Setup!StepKeys, Setup!Assumptions
      <3>3. /\ c \in Setup!Call /\ c.op = setupCall[r].op /\ c.case = setupCall[r].case
            /\ c.template = setupCall[r].template /\ c.toInsert \subseteq Setup!Step
        BY <1>1, <3>2, CallFacts DEF Setup!Call
      <3>4. /\ setupPc' = [setupPc EXCEPT ![r] = "copySteps"] /\ setupCall' = [setupCall EXCEPT ![r] = c]
            /\ engine' = setupCall[r].n
            /\ UNCHANGED <<Setup!settings, program, steps, form, fields, answered, case,
                           task, setupOps, setupMode>>
        BY <1>2, <1>6, <2>2 DEF Setup!CopyEngine
      <3> HIDE DEF c, S
      <3>5. Requested'
        BY <1>0, <3>3, <3>4, TypeCarried DEF Setup!Labels
      <3> QED
        BY <1>2, <3>4, <3>5 DEF TypeInv, Setup!TypeOK, Requested, Setup!settings
    <2> QED
      BY <2>1, <2>2
  <1>7. CASE Setup!CopyStep(r)
    <2>1. CASE Setup!Fail(r)
      BY <1>0, <2>1, TypeFail
    <2>2. CASE ~Setup!Fail(r)
      <3>1. PICK s \in setupCall[r].toInsert :
                 /\ steps' = steps \cup {s}
                 /\ setupCall' = [setupCall EXCEPT ![r].toInsert = @ \ {s}]
                 /\ UNCHANGED <<Setup!settings, program, engine, form, fields, answered,
                                case, task, setupPc, setupOps, setupMode>>
        BY <1>7, <2>2 DEF Setup!CopyStep
      <3>2. setupCall[r].toInsert \subseteq Setup!Step /\ setupPc[r] = "copySteps"
        BY <1>1, <1>7 DEF Shape, Setup!CopyStep
      <3> DEFINE c == [setupCall[r] EXCEPT !.toInsert = setupCall[r].toInsert \ {s}]
      <3>3. /\ c \in Setup!Call /\ c.op = setupCall[r].op /\ c.case = setupCall[r].case
            /\ c.template = setupCall[r].template /\ c.toInsert \subseteq Setup!Step
        BY <1>1, <3>2, CallFacts DEF Setup!Call
      <3>4. setupPc' = [setupPc EXCEPT ![r] = "copySteps"] /\ setupCall' = [setupCall EXCEPT ![r] = c]
        BY <1>2, <3>1, <3>2
      <3> HIDE DEF c
      <3>5. Requested'
        BY <1>0, <3>3, <3>4, TypeCarried DEF Setup!Labels
      <3> QED
        BY <1>2, <3>1, <3>2, <3>5 DEF TypeInv, Setup!TypeOK, Requested, Setup!settings
    <2> QED
      BY <2>1, <2>2
  <1> QED
    BY <1>3, <1>4, <1>5, <1>6, <1>7

\* The default engine
LEMMA TypeDefault ==
  ASSUME Setup!Assumptions, TypeInv, NEW r \in SetupRequests,
         Setup!EnsureEngine(r) \/ Setup!DefineEngine(r) \/ Setup!ReadTypes(r)
  PROVE  TypeInv'
  <1>0. setupPc[r] # "idle"
    BY DEF Setup!EnsureEngine, Setup!DefineEngine, Setup!ReadTypes
  <1>1. setupCall[r] \in Setup!Call /\ Shape(r)
    BY <1>0 DEF TypeInv, Wellformed, Shape
  <1>2. setupCall \in [SetupRequests -> Setup!Call \cup {None}] /\ setupPc \in [SetupRequests -> Setup!Labels]
        /\ engine \in 0 .. SetupMaxOps /\ steps \subseteq Setup!Step /\ SetupMaxOps \in Nat
        /\ setupCall[r].n \in 1 .. SetupMaxOps
    BY <1>1, CallFacts DEF TypeInv, Setup!TypeOK, Setup!Assumptions
  <1>3. CASE Setup!EnsureEngine(r)
    <2> DEFINE c == [setupCall[r] EXCEPT !.engine = engine]
    <2>1. /\ c \in Setup!Call /\ c.op = setupCall[r].op /\ c.case = setupCall[r].case
          /\ c.template = setupCall[r].template /\ c.engine = engine
      BY <1>1, <1>2, CallFacts DEF Setup!Call
    <2>2. setupCall' = [setupCall EXCEPT ![r] = c] /\ UNCHANGED <<Setup!rows, Setup!settings, setupOps, setupMode>>
          /\ setupPc' = [setupPc EXCEPT ![r] = IF engine = 0 THEN "define" ELSE "types"]
      BY <1>3 DEF Setup!EnsureEngine, Setup!Read
    <2> HIDE DEF c
    <2>3. CASE engine = 0
      <3>1. Requested'
        BY <1>0, <2>1, <2>2, <2>3, TypeCarried DEF Setup!Labels
      <3> QED
        BY <2>2, <3>1 DEF TypeInv, Setup!TypeOK, Requested, Setup!rows, Setup!settings
    <2>4. CASE engine # 0
      <3>1. Requested'
        BY <1>0, <2>1, <2>2, <2>4, TypeCarried DEF Setup!Labels
      <3> QED
        BY <2>2, <3>1 DEF TypeInv, Setup!TypeOK, Requested, Setup!rows, Setup!settings
    <2> QED
      BY <2>3, <2>4
  <1>4. CASE Setup!DefineEngine(r)
    <2>1. CASE Setup!Fail(r)
      BY <1>0, <2>1, TypeFail
    <2>2. CASE ~Setup!Fail(r)
      <3> DEFINE c == [setupCall[r] EXCEPT !.engine = setupCall[r].n]
      <3>1. /\ c \in Setup!Call /\ c.op = setupCall[r].op /\ c.case = setupCall[r].case
            /\ c.template = setupCall[r].template /\ c.engine # 0
        BY <1>1, <1>2, CallFacts DEF Setup!Call
      <3>2. /\ setupPc' = [setupPc EXCEPT ![r] = "types"] /\ setupCall' = [setupCall EXCEPT ![r] = c]
            /\ engine' = setupCall[r].n
            /\ UNCHANGED <<Setup!settings, program, steps, form, fields, answered, case,
                           task, setupOps, setupMode>>
        BY <1>2, <1>4, <2>2 DEF Setup!DefineEngine
      <3> HIDE DEF c
      <3>3. Requested'
        BY <1>0, <3>1, <3>2, TypeCarried DEF Setup!Labels
      <3> QED
        BY <1>2, <3>2, <3>3 DEF TypeInv, Setup!TypeOK, Requested, Setup!settings
    <2> QED
      BY <2>1, <2>2
  <1>5. CASE Setup!ReadTypes(r)
    <2> DEFINE S == {s.type : s \in Setup!StepsOn(setupCall[r].engine)}
               c == [setupCall[r] EXCEPT !.types = S]
    <2>1. S \subseteq Setup!Types
      BY <1>2 DEF Setup!StepsOn, Setup!Step
    <2>2. /\ c \in Setup!Call /\ c.op = setupCall[r].op /\ c.case = setupCall[r].case
          /\ c.template = setupCall[r].template /\ c.engine # 0
      BY <1>1, <1>5, <2>1, CallFacts DEF Setup!Call, Shape, Setup!ReadTypes
    <2>3. /\ setupPc' = [setupPc EXCEPT ![r] = "evaluation"] /\ setupCall' = [setupCall EXCEPT ![r] = c]
          /\ UNCHANGED <<Setup!rows, Setup!settings, setupOps, setupMode>>
      BY <1>5 DEF Setup!ReadTypes, Setup!Read
    <2> HIDE DEF c, S
    <2>4. Requested'
      BY <1>0, <2>2, <2>3, TypeCarried DEF Setup!Labels
    <2> QED
      BY <2>3, <2>4 DEF TypeInv, Setup!TypeOK, Requested, Setup!rows, Setup!settings
  <1> QED
    BY <1>3, <1>4, <1>5

LEMMA TypeInsertDefault ==
  ASSUME Setup!Assumptions, TypeInv, NEW r \in SetupRequests,
         Setup!EnsureEvaluation(r) \/ Setup!EnsureApproval(r)
  PROVE  TypeInv'
  <1>1. PICK type \in {"evaluation", "approval"}, next \in {"approval", "findStep", "idle"} :
             /\ Setup!InsertDefault(r, type, next)
             /\ next = "findStep" => setupCall[r].op = "submit"
    BY DEF Setup!EnsureEvaluation, Setup!EnsureApproval
  <1>0. setupPc[r] = type
    BY <1>1 DEF Setup!InsertDefault
  <1>2. setupCall[r] \in Setup!Call /\ Shape(r) /\ setupCall[r].engine # 0 /\ setupCall[r].engine \in 0 .. SetupMaxOps
    BY <1>0, CallFacts DEF TypeInv, Wellformed, Shape
  <1>3. CASE Setup!Fail(r)
    BY <1>0, <1>3, TypeFail
  <1>4. CASE ~Setup!Fail(r)
    <2>1. Setup!Goto(r, next)
      BY <1>1, <1>4 DEF Setup!InsertDefault
    <2>2. next \in Setup!Labels
      BY DEF Setup!Labels
    <2>3. Requested' /\ setupOps' = setupOps /\ setupMode' = setupMode
      BY <1>0, <1>1, <1>2, <2>1, <2>2, TypeGoto
    <2> DEFINE s == [engine |-> setupCall[r].engine, key |-> type, type |-> type]
    <2>4. s \in Setup!Step
      BY <1>2 DEF Setup!Step, Setup!StepKeys, Setup!Types, Setup!Assumptions
    <2>5. /\ steps' \in {steps, steps \cup {s}}
          /\ UNCHANGED <<Setup!settings, program, engine, form, fields, answered, case, task>>
      BY <1>1, <1>4 DEF Setup!InsertDefault, Setup!rows
    <2> HIDE DEF s
    <2> QED
      BY <2>3, <2>4, <2>5 DEF TypeInv, Setup!TypeOK, Requested, Setup!settings
  <1> QED
    BY <1>3, <1>4

LEMMA TypeSubmission ==
  ASSUME Setup!Assumptions, TypeInv, NEW r \in SetupRequests,
         Setup!InsertCase(r) \/ Setup!FindStep(r) \/ Setup!InsertTask(r) \/ Setup!SetStatus(r)
  PROVE  TypeInv'
  <1>0. setupPc[r] # "idle"
    BY DEF Setup!InsertCase, Setup!FindStep, Setup!InsertTask, Setup!SetStatus
  <1>1. setupCall[r] \in Setup!Call /\ Shape(r) /\ setupCall[r].op = "submit" /\ setupCall[r].case \in Cases
    BY <1>0 DEF TypeInv, Wellformed, Shape, Setup!InsertCase, Setup!FindStep,
       Setup!InsertTask, Setup!SetStatus
  <1>2. CASE Setup!InsertCase(r)
    <2>1. Requested' /\ setupOps' = setupOps /\ setupMode' = setupMode
      BY <1>0, <1>1, <1>2, TypeGoto DEF Setup!InsertCase, Setup!Labels
    <2> QED
      BY <1>1, <1>2, <2>1 DEF Setup!InsertCase, TypeInv, Setup!TypeOK, Requested,
         Setup!settings
  <1>3. CASE Setup!FindStep(r)
    <2>1. CASE Setup!Goto(r, "status") /\ UNCHANGED <<Setup!rows, Setup!settings>>
      <3>1. Requested' /\ setupOps' = setupOps /\ setupMode' = setupMode
        BY <1>0, <1>1, <2>1, TypeGoto DEF Setup!Labels
      <3> QED
        BY <2>1, <3>1 DEF TypeInv, Setup!TypeOK, Requested, Setup!rows, Setup!settings
    <2>2. ASSUME NEW s \in Setup!StepsOn(engine), Setup!Read(r, "task", [setupCall[r] EXCEPT !.step = s])
          PROVE  TypeInv'
      <3> DEFINE c == [setupCall[r] EXCEPT !.step = s]
      <3>1. s \in Setup!Step
        BY DEF Setup!StepsOn, TypeInv, Setup!TypeOK
      <3>2. /\ c \in Setup!Call /\ c.op = setupCall[r].op /\ c.case = setupCall[r].case
            /\ c.template = setupCall[r].template /\ c.step \in Setup!Step
        BY <1>1, <3>1, CallFacts DEF Setup!Call
      <3>3. /\ setupPc' = [setupPc EXCEPT ![r] = "task"] /\ setupCall' = [setupCall EXCEPT ![r] = c]
            /\ UNCHANGED <<Setup!rows, Setup!settings, setupOps, setupMode>>
        BY <2>2 DEF Setup!Read
      <3> HIDE DEF c
      <3>4. Requested'
        BY <1>0, <1>1, <3>2, <3>3, TypeCarried DEF Setup!Labels
      <3> QED
        BY <3>3, <3>4 DEF TypeInv, Setup!TypeOK, Requested, Setup!rows, Setup!settings
    <2> QED
      BY <1>3, <2>1, <2>2 DEF Setup!FindStep
  <1>4. CASE Setup!InsertTask(r)
    <2>1. CASE Setup!Fail(r)
      BY <1>0, <2>1, TypeFail
    <2>2. CASE ~Setup!Fail(r)
      <3>1. Requested' /\ setupOps' = setupOps /\ setupMode' = setupMode
        BY <1>0, <1>1, <1>4, <2>2, TypeGoto DEF Setup!InsertTask, Setup!Labels
      <3>2. setupCall[r].step \in Setup!Step
        BY <1>1, <1>4 DEF Shape, Setup!InsertTask
      <3> QED
        BY <1>1, <1>4, <2>2, <3>1, <3>2 DEF Setup!InsertTask, TypeInv, Setup!TypeOK,
           Requested, Setup!settings
    <2> QED
      BY <2>1, <2>2
  <1>5. CASE Setup!SetStatus(r)
    <2>1. Requested' /\ setupOps' = setupOps /\ setupMode' = setupMode
      BY <1>0, <1>1, <1>5, TypeGoto DEF Setup!SetStatus, Setup!Labels
    <2> QED
      BY <1>1, <1>5, <2>1 DEF Setup!SetStatus, TypeInv, Setup!TypeOK, Requested,
         Setup!settings
  <1> QED
    BY <1>2, <1>3, <1>4, <1>5

LEMMA TypeStep == ASSUME Setup!Assumptions, TypeInv, [Setup!Next]_(Setup!vars) PROVE TypeInv'
  <1>1. ASSUME NEW r \in SetupRequests, Setup!Drop(r) PROVE TypeInv'
    BY <1>1, TypeFail DEF Setup!Drop
  <1>2. CASE UNCHANGED Setup!vars
    BY <1>2 DEF Setup!vars, TypeInv, Setup!TypeOK, Wellformed, Shape
  <1> QED
    BY <1>1, <1>2, TypeBegins, TypeSettings, TypeForm, TypeCopy, TypeDefault,
       TypeInsertDefault, TypeSubmission DEF Setup!Next

LEMMA TypeInit == ASSUME Setup!Assumptions, Setup!Init PROVE TypeInv
  <1>1. SetupMaxOps \in Nat
    BY DEF Setup!Assumptions
  <1>2. config \in Setup!Config /\ saved \in Setup!Config
    BY <1>1 DEF Setup!Init, Setup!Config
  <1>3. case \in [Cases -> {"none", "submitted", "in_evaluation"}]
        /\ task \in [Cases -> Setup!Step \cup {None}]
    BY DEF Setup!Init
  <1>4. setupPc \in [SetupRequests -> Setup!Labels] /\ setupCall \in [SetupRequests -> Setup!Call \cup {None}]
        /\ Wellformed
    BY DEF Setup!Init, Setup!Labels, Wellformed
  <1>5. engine \in 0 .. SetupMaxOps /\ setupOps \in 0 .. SetupMaxOps
    BY <1>1 DEF Setup!Init
  <1> QED
    BY <1>2, <1>3, <1>4, <1>5 DEF Setup!Init, TypeInv, Setup!TypeOK

\* Every setting, engine, form and request in flight is well formed in every
\* interleaving of the configuration and of submissions (domain.service.ts).
THEOREM SetupTypeCorrect == ASSUME Setup!Assumptions PROVE Setup!Spec => []Setup!TypeOK
  <1>1. Setup!Spec => []TypeInv
    BY TypeInit, TypeStep, PTL DEF Setup!Spec
  <1>2. TypeInv => Setup!TypeOK
    BY DEF TypeInv
  <1> QED
    BY <1>1, <1>2, PTL

----------------------------------------------------------------------------
(* The foreign keys *)

\* What one request does next
Acts(r) ==
  \/ Setup!BeginCreate(r) \/ Setup!BeginUpdate(r) \/ Setup!BeginSync(r) \/ Setup!BeginApply(r) \/ Setup!BeginSubmit(r)
  \/ Setup!SaveTemplate(r) \/ Setup!SaveVersion(r) \/ Setup!ReadRules(r) \/ Setup!WriteRules(r)
  \/ Setup!FindForm(r) \/ Setup!InsertForm(r) \/ Setup!DeleteFields(r) \/ Setup!InsertField(r)
  \/ Setup!FindEngine(r) \/ Setup!CountCases(r) \/ Setup!DeleteEngine(r) \/ Setup!CopyEngine(r) \/ Setup!CopyStep(r)
  \/ Setup!EnsureEngine(r) \/ Setup!DefineEngine(r) \/ Setup!ReadTypes(r)
  \/ Setup!EnsureEvaluation(r) \/ Setup!EnsureApproval(r)
  \/ Setup!InsertCase(r) \/ Setup!ReadFields(r) \/ Setup!SaveAnswer(r)
  \/ Setup!FindStep(r) \/ Setup!InsertTask(r) \/ Setup!SetStatus(r) \/ Setup!Drop(r)

\* The statements that leave every row alone, and those that fail
LEMMA Beginning ==
  ASSUME NEW r \in SetupRequests,
         Setup!BeginCreate(r) \/ Setup!BeginUpdate(r) \/ Setup!BeginSync(r) \/ Setup!BeginApply(r) \/ Setup!BeginSubmit(r)
  PROVE  /\ UNCHANGED <<Setup!rows, Setup!settings, setupMode>>
         /\ setupPc[r] = "idle"
         /\ setupMode # "overlap" => Setup!Busy = {}
         /\ \E l \in {"template", "readRules", "findEngine", "case"} : setupPc' = [setupPc EXCEPT ![r] = l]
  BY DEF Setup!Begin, Setup!BeginCreate, Setup!BeginUpdate, Setup!BeginSync,
     Setup!BeginApply, Setup!BeginSubmit

LEMMA ReferencedStep ==
  ASSUME TypeInv, Referenced, [Setup!Next]_(Setup!vars)
  PROVE  Referenced'
  <1>1. ASSUME UNCHANGED Setup!rows PROVE Referenced'
    BY <1>1 DEF Referenced, Setup!rows
  <1>2. ASSUME UNCHANGED <<steps, task, fields, answered>> PROVE Referenced'
    BY <1>2 DEF Referenced
  <1>3. ASSUME steps \subseteq steps', fields \subseteq fields', UNCHANGED <<task, answered>>
        PROVE  Referenced'
    BY <1>3 DEF Referenced
  <1>4. ASSUME NEW r \in SetupRequests, Acts(r) PROVE Referenced'
    <2>1. CASE Setup!BeginCreate(r) \/ Setup!BeginUpdate(r) \/ Setup!BeginSync(r) \/ Setup!BeginApply(r) \/ Setup!BeginSubmit(r)
      BY <1>1, <2>1, Beginning
    <2>2. CASE Setup!SaveTemplate(r) \/ Setup!SaveVersion(r) \/ Setup!ReadRules(r) \/ Setup!WriteRules(r)
               \/ Setup!FindForm(r) \/ Setup!FindEngine(r) \/ Setup!CountCases(r) \/ Setup!EnsureEngine(r)
               \/ Setup!ReadTypes(r) \/ Setup!ReadFields(r) \/ Setup!FindStep(r) \/ Setup!Drop(r)
      BY <1>1, <1>2, <2>2 DEF Setup!SaveTemplate, Setup!SaveVersion, Setup!ReadRules,
         Setup!WriteRules, Setup!FindForm,
         Setup!FindEngine, Setup!CountCases, Setup!EnsureEngine, Setup!ReadTypes,
         Setup!ReadFields, Setup!FindStep, Setup!Drop, Setup!Read, Setup!Fail
    <2>3. CASE Setup!InsertForm(r) \/ Setup!CopyEngine(r) \/ Setup!DefineEngine(r) \/ Setup!InsertCase(r) \/ Setup!SetStatus(r)
      BY <1>1, <1>2, <2>3 DEF Setup!InsertForm, Setup!CopyEngine, Setup!DefineEngine,
         Setup!InsertCase, Setup!SetStatus, Setup!Fail
    <2>4. CASE Setup!InsertField(r) \/ Setup!CopyStep(r)
      BY <1>1, <1>3, <2>4 DEF Setup!InsertField, Setup!CopyStep, Setup!Fail
    <2>5. CASE Setup!EnsureEvaluation(r) \/ Setup!EnsureApproval(r)
      BY <1>1, <1>3, <2>5 DEF Setup!EnsureEvaluation, Setup!EnsureApproval,
         Setup!InsertDefault, Setup!Fail, Setup!rows
    <2>6. CASE Setup!DeleteFields(r)
      <3>1. CASE Setup!FieldsFreeOfAnswers
        BY <2>6, <3>1 DEF Setup!DeleteFields, Setup!FieldsFreeOfAnswers, Referenced
      <3>2. CASE ~Setup!FieldsFreeOfAnswers
        BY <1>1, <2>6, <3>2 DEF Setup!DeleteFields, Setup!Fail
      <3> QED
        BY <3>1, <3>2
    <2>7. CASE Setup!DeleteEngine(r)
      <3>1. CASE Setup!StepsFreeOfTasks(setupCall[r].engine)
        BY <2>7, <3>1 DEF Setup!DeleteEngine, Setup!StepsFreeOfTasks, Referenced
      <3>2. CASE ~Setup!StepsFreeOfTasks(setupCall[r].engine)
        BY <1>1, <2>7, <3>2 DEF Setup!DeleteEngine, Setup!Fail
      <3> QED
        BY <3>1, <3>2
    <2>8. CASE Setup!SaveAnswer(r)
      BY <1>1, <2>8 DEF Setup!SaveAnswer, Setup!Fail, Referenced
    <2>9. CASE Setup!InsertTask(r)
      <3>1. CASE setupCall[r].step \in steps
        BY <2>9, <3>1 DEF Setup!InsertTask, Referenced, TypeInv, Setup!TypeOK
      <3>2. CASE setupCall[r].step \notin steps
        BY <1>1, <2>9, <3>2 DEF Setup!InsertTask, Setup!Fail
      <3> QED
        BY <3>1, <3>2
    <2> QED
      BY <1>4, <2>1, <2>2, <2>3, <2>4, <2>5, <2>6, <2>7, <2>8, <2>9 DEF Acts
  <1>5. CASE UNCHANGED Setup!vars
    BY <1>1, <1>5 DEF Setup!vars, Setup!rows
  <1> QED
    BY <1>4, <1>5 DEF Setup!Next, Acts

----------------------------------------------------------------------------
(* One request at a time *)

\* One request moves, and what may happen to requests stays as it is.
LEMMA ModeStays ==
  ASSUME NEW r \in SetupRequests, Acts(r)
  PROVE  /\ setupMode' = setupMode
         /\ setupPc' = setupPc \/ \E l \in Setup!Labels : setupPc' = [setupPc EXCEPT ![r] = l]
  <1>1. CASE Setup!BeginCreate(r) \/ Setup!BeginUpdate(r) \/ Setup!BeginSync(r) \/ Setup!BeginApply(r) \/ Setup!BeginSubmit(r)
    BY <1>1, Beginning DEF Setup!Labels
  <1>2. CASE Setup!SaveTemplate(r) \/ Setup!SaveVersion(r) \/ Setup!ReadRules(r) \/ Setup!FindForm(r) \/ Setup!WriteRules(r)
    <2> USE DEF Setup!Goto, Setup!Read, Setup!Labels
    <2> QED
      BY <1>2 DEF Setup!SaveTemplate, Setup!SaveVersion, Setup!ReadRules,
         Setup!WriteRules, Setup!FindForm
  <1>3. CASE Setup!FindEngine(r) \/ Setup!CountCases(r) \/ Setup!EnsureEngine(r) \/ Setup!ReadTypes(r) \/ Setup!ReadFields(r)
             \/ Setup!FindStep(r) \/ Setup!Drop(r)
    BY <1>3 DEF Setup!FindEngine, Setup!CountCases, Setup!EnsureEngine, Setup!ReadTypes,
       Setup!ReadFields, Setup!FindStep, Setup!Drop,
       Setup!Read, Setup!Fail, Setup!Goto, Setup!Labels
  <1>4. CASE Setup!InsertForm(r) \/ Setup!CopyEngine(r) \/ Setup!DefineEngine(r) \/ Setup!InsertCase(r) \/ Setup!SetStatus(r)
    BY <1>4 DEF Setup!InsertForm, Setup!CopyEngine, Setup!DefineEngine, Setup!InsertCase,
       Setup!SetStatus, Setup!Fail, Setup!Goto, Setup!Labels
  <1>5. CASE Setup!InsertField(r) \/ Setup!CopyStep(r) \/ Setup!SaveAnswer(r)
    BY <1>5 DEF Setup!InsertField, Setup!CopyStep, Setup!SaveAnswer, Setup!Fail,
       Setup!Goto, Setup!Labels
  <1>6. CASE Setup!EnsureEvaluation(r) \/ Setup!EnsureApproval(r)
    BY <1>6 DEF Setup!EnsureEvaluation, Setup!EnsureApproval, Setup!InsertDefault,
       Setup!Fail, Setup!Goto, Setup!Labels
  <1>7. CASE Setup!DeleteFields(r) \/ Setup!DeleteEngine(r) \/ Setup!InsertTask(r)
    BY <1>7 DEF Setup!DeleteFields, Setup!DeleteEngine, Setup!InsertTask, Setup!Fail,
       Setup!Goto, Setup!Labels
  <1> QED
    BY <1>1, <1>2, <1>3, <1>4, <1>5, <1>6, <1>7 DEF Acts

\* In the modes in which requests do not overlap, the others are at rest.
LEMMA OthersIdle ==
  ASSUME TypeInv, setupMode # "overlap", OneAtATime, NEW r \in SetupRequests, Acts(r)
  PROVE  /\ setupMode' = setupMode
         /\ \A q \in SetupRequests \ {r} : setupPc[q] = "idle" /\ setupPc'[q] = "idle"
         /\ OneAtATime'
  <1>1. setupMode' = setupMode /\ (setupPc' = setupPc \/ \E l \in Setup!Labels : setupPc' = [setupPc EXCEPT ![r] = l])
    BY ModeStays
  <1>2. \A q \in SetupRequests \ {r} : setupPc'[q] = setupPc[q]
    BY <1>1 DEF TypeInv, Setup!TypeOK
  <1>3. setupPc[r] # "idle" \/ Setup!Busy = {}
    <2>1. CASE Setup!BeginCreate(r) \/ Setup!BeginUpdate(r) \/ Setup!BeginSync(r) \/ Setup!BeginApply(r) \/ Setup!BeginSubmit(r)
      BY <2>1, Beginning
    <2>2. CASE setupPc[r] # "idle"
      BY <2>2
    <2> QED
      BY <2>1, <2>2 DEF Acts, Setup!SaveTemplate, Setup!SaveVersion, Setup!ReadRules,
         Setup!WriteRules, Setup!FindForm,
         Setup!InsertForm, Setup!DeleteFields, Setup!InsertField, Setup!FindEngine,
         Setup!CountCases, Setup!DeleteEngine, Setup!CopyEngine,
         Setup!CopyStep, Setup!EnsureEngine, Setup!DefineEngine, Setup!ReadTypes,
         Setup!EnsureEvaluation, Setup!EnsureApproval,
         Setup!InsertDefault, Setup!InsertCase, Setup!ReadFields, Setup!SaveAnswer,
         Setup!FindStep, Setup!InsertTask, Setup!SetStatus, Setup!Drop
  <1>4. \A q \in SetupRequests \ {r} : setupPc[q] = "idle"
    BY <1>3 DEF Setup!Busy, OneAtATime
  <1> QED
    BY <1>1, <1>2, <1>4 DEF OneAtATime

\* The statements after which a request has nothing to do with the settings
LEMMA SettingsQuiet ==
  ASSUME TypeInv, NEW r \in SetupRequests,
         \/ Setup!FindForm(r) \/ Setup!InsertForm(r) \/ Setup!DeleteFields(r) \/ Setup!InsertField(r)
         \/ Setup!FindEngine(r) \/ Setup!CountCases(r) \/ Setup!DeleteEngine(r) \/ Setup!CopyEngine(r) \/ Setup!CopyStep(r)
         \/ Setup!EnsureEngine(r) \/ Setup!DefineEngine(r) \/ Setup!ReadTypes(r)
         \/ Setup!EnsureEvaluation(r) \/ Setup!EnsureApproval(r)
         \/ Setup!InsertCase(r) \/ Setup!ReadFields(r) \/ Setup!SaveAnswer(r)
         \/ Setup!FindStep(r) \/ Setup!InsertTask(r) \/ Setup!SetStatus(r) \/ Setup!Drop(r)
  PROVE  /\ UNCHANGED <<Setup!settings, program>>
         /\ setupPc'[r] \notin {"template", "version", "readRules", "writeRules"}
  <1> USE DEF Setup!Goto, Setup!Read, Setup!Fail, Setup!rows, Setup!settings
  <1>0. setupPc \in [SetupRequests -> Setup!Labels]
    BY DEF TypeInv, Setup!TypeOK
  <1>1. CASE Setup!FindForm(r) \/ Setup!InsertForm(r) \/ Setup!FindEngine(r) \/ Setup!CountCases(r) \/ Setup!EnsureEngine(r)
    BY <1>0, <1>1 DEF Setup!FindForm, Setup!InsertForm, Setup!FindEngine,
       Setup!CountCases, Setup!EnsureEngine
  <1>2. CASE Setup!DeleteFields(r) \/ Setup!DeleteEngine(r) \/ Setup!CopyEngine(r) \/ Setup!DefineEngine(r)
    BY <1>0, <1>2 DEF Setup!DeleteFields, Setup!DeleteEngine, Setup!CopyEngine,
       Setup!DefineEngine
  <1>3. CASE Setup!InsertField(r) \/ Setup!CopyStep(r) \/ Setup!SaveAnswer(r)
    BY <1>0, <1>3 DEF Setup!InsertField, Setup!CopyStep, Setup!SaveAnswer
  <1>4. CASE Setup!EnsureEvaluation(r) \/ Setup!EnsureApproval(r)
    BY <1>0, <1>4 DEF Setup!EnsureEvaluation, Setup!EnsureApproval, Setup!InsertDefault
  <1>5. CASE Setup!ReadTypes(r) \/ Setup!InsertCase(r) \/ Setup!ReadFields(r) \/ Setup!FindStep(r) \/ Setup!InsertTask(r)
             \/ Setup!SetStatus(r) \/ Setup!Drop(r)
    BY <1>0, <1>5 DEF Setup!ReadTypes, Setup!InsertCase, Setup!ReadFields,
       Setup!FindStep, Setup!InsertTask, Setup!SetStatus, Setup!Drop
  <1> QED
    BY <1>1, <1>2, <1>3, <1>4, <1>5

LEMMA SettingsStep ==
  ASSUME Setup!Assumptions, TypeInv, setupMode # "overlap", OneAtATime, SettingsInv,
         NEW r \in SetupRequests, Acts(r)
  PROVE  SettingsInv'
  <1>1. \A q \in SetupRequests \ {r} : SettingsRead(q)'
    BY OthersIdle DEF SettingsRead
  <1>2. SUFFICES /\ (config = saved)'
                 /\ (program = "none" => config["workflow"] = 0)'
                 /\ SettingsRead(r)'
    BY <1>1 DEF SettingsInv
  <1>3. /\ setupPc \in [SetupRequests -> Setup!Labels] /\ setupCall \in [SetupRequests -> Setup!Call \cup {None}]
        /\ config \in Setup!Config /\ saved = config /\ SettingsRead(r)
        /\ program = "none" => config["workflow"] = 0
    BY DEF TypeInv, Setup!TypeOK, SettingsInv
  <1>4. setupPc[r] # "idle" => setupCall[r] \in Setup!Call
    BY DEF TypeInv, Wellformed, Shape
  <1>5. CASE Setup!BeginCreate(r) \/ Setup!BeginUpdate(r) \/ Setup!BeginSync(r) \/ Setup!BeginApply(r) \/ Setup!BeginSubmit(r)
    <2>1. PICK op \in Setup!Ops, l \in {"template", "readRules", "findEngine", "case"},
               piece \in Setup!Parts, t \in SetupTemplates \cup {None}, a \in Cases \cup {None} :
               /\ Setup!Begin(r, op, l, piece, t, a)
               /\ op = "create" => program = "none" /\ piece = "windows" /\ l = "template"
               /\ op # "create" => program # "none"
      BY <1>5 DEF Setup!BeginCreate, Setup!BeginUpdate, Setup!BeginSync,
         Setup!BeginApply, Setup!BeginSubmit, Setup!Ops, Setup!Parts
    <2>2. /\ setupPc'[r] = l /\ setupCall'[r].op = op /\ setupCall'[r].part = piece /\ setupCall'[r].read = config
          /\ UNCHANGED <<config, saved, program>>
      BY <1>3, <2>1 DEF Setup!Begin, Setup!rows, Setup!settings
    <2> QED
      BY <1>3, <2>1, <2>2 DEF SettingsRead
  <1>6. CASE Setup!SaveTemplate(r)
    <2>1. /\ setupPc'[r] = "version" /\ setupCall'[r] = setupCall[r]
          /\ program' = IF setupCall[r].op = "create" THEN "template" ELSE program
      BY <1>3, <1>6 DEF Setup!SaveTemplate, Setup!Goto
    <2>2. config'["workflow"] = config["workflow"]
      BY <1>3, <1>6 DEF Setup!SaveTemplate, Setup!Config, Setup!Parts
    <2>3. setupCall[r].op # "create" => setupCall[r].read = config /\ program # "none"
      BY <1>3, <1>6 DEF Setup!SaveTemplate, SettingsRead
    <2>4. config' = saved'
      <3>1. CASE setupCall[r].op = "create" \/ setupCall[r].part = "status"
        BY <1>3, <1>6, <3>1 DEF Setup!SaveTemplate
      <3>2. CASE ~(setupCall[r].op = "create" \/ setupCall[r].part = "status")
        BY <1>3, <1>6, <2>3, <3>2 DEF Setup!SaveTemplate, Setup!Config
      <3> QED
        BY <3>1, <3>2
    <2>5. setupCall[r].op = "create" => config["workflow"] = 0 /\ setupCall[r].part = "windows"
      BY <1>3, <1>6 DEF Setup!SaveTemplate, SettingsRead
    <2> QED
      BY <2>1, <2>2, <2>3, <2>4, <2>5 DEF SettingsRead
  <1>7. CASE Setup!SaveVersion(r)
    <2>1. /\ setupPc'[r] = (IF setupCall[r].op = "create" THEN "writeRules" ELSE "readRules")
          /\ setupCall'[r] = setupCall[r] /\ program' = "version" /\ UNCHANGED <<config, saved>>
      BY <1>3, <1>7 DEF Setup!SaveVersion, Setup!Goto, Setup!settings
    <2> QED
      BY <1>3, <1>7, <2>1 DEF SettingsRead, Setup!SaveVersion
  <1>8. CASE Setup!ReadRules(r)
    <2>1. /\ setupPc'[r] = "writeRules" /\ setupCall'[r].op = setupCall[r].op /\ setupCall'[r].read = config
          /\ UNCHANGED <<config, saved, program>>
      BY <1>3, <1>4, <1>8 DEF Setup!ReadRules, Setup!Read, Setup!rows, Setup!settings,
         Setup!Call
    <2> QED
      BY <1>3, <1>8, <2>1 DEF SettingsRead, Setup!ReadRules
  <1>9. CASE Setup!WriteRules(r)
    <2>1. /\ setupPc'[r] \in {"idle", "form", "findEngine", "engine"}
          /\ program' = program /\ program # "none"
      BY <1>3, <1>9 DEF Setup!WriteRules, Setup!Goto, Setup!rows, SettingsRead
    <2>2. setupCall[r].part \in Setup!Parts
      BY <1>4, <1>9, CallFacts DEF Setup!WriteRules
    <2>3. config' = saved'
      <3>1. ASSUME NEW p \in Setup!Parts PROVE config'[p] = saved'[p]
        <4>1. CASE p = "status"
          BY <1>3, <1>9, <4>1 DEF Setup!WriteRules, Setup!Config
        <4>2. CASE p # "status" /\ p = setupCall[r].part
          BY <1>3, <1>9, <4>2 DEF Setup!WriteRules, Setup!NextRules, Setup!Config,
             Setup!Parts
        <4>3. CASE p # "status" /\ p # setupCall[r].part
          <5>1. saved'[p] = config[p]
            BY <1>3, <1>9, <4>3 DEF Setup!WriteRules, Setup!Config
          <5>2. config'[p] = IF setupCall[r].op = "create" THEN 0 ELSE setupCall[r].read[p]
            BY <1>9, <4>3 DEF Setup!WriteRules, Setup!NextRules, Setup!Parts
          <5>3. CASE setupCall[r].op = "create"
            BY <1>3, <1>9, <4>3, <5>1, <5>2, <5>3 DEF SettingsRead, Setup!Parts,
               Setup!WriteRules
          <5>4. CASE setupCall[r].op # "create"
            BY <1>3, <1>9, <5>1, <5>2, <5>4 DEF SettingsRead, Setup!WriteRules
          <5> QED
            BY <5>3, <5>4
        <4> QED
          BY <4>1, <4>2, <4>3
      <3>2. DOMAIN config' = Setup!Parts /\ DOMAIN saved' = Setup!Parts
            /\ config' = [p \in Setup!Parts |-> config'[p]] /\ saved' = [p \in Setup!Parts |-> saved'[p]]
        BY <1>3, <1>9 DEF Setup!WriteRules, Setup!Config
      <3> QED
        BY <3>1, <3>2
    <2> QED
      BY <2>1, <2>3 DEF SettingsRead
  <1>10. CASE /\ UNCHANGED <<Setup!settings, program>>
              /\ setupPc'[r] \notin {"template", "version", "readRules", "writeRules"}
    BY <1>3, <1>10 DEF SettingsRead, Setup!settings
  <1> QED
    BY <1>5, <1>6, <1>7, <1>8, <1>9, <1>10, SettingsQuiet DEF Acts

----------------------------------------------------------------------------
(* The engine of the cases *)

\* A request that stays clear of the engine and of the cases, at a statement that
\* takes nothing of them for granted
LEMMA EngineQuiet ==
  ASSUME TypeInv, NEW r \in SetupRequests,
         \/ Setup!BeginCreate(r) \/ Setup!BeginUpdate(r) \/ Setup!BeginSync(r) \/ Setup!BeginApply(r) \/ Setup!BeginSubmit(r)
         \/ Setup!SaveTemplate(r) \/ Setup!SaveVersion(r) \/ Setup!ReadRules(r) \/ Setup!WriteRules(r)
         \/ Setup!FindForm(r) \/ Setup!InsertForm(r) \/ Setup!DeleteFields(r) \/ Setup!InsertField(r)
         \/ Setup!FindEngine(r) \/ Setup!ReadFields(r) \/ Setup!SaveAnswer(r) \/ Setup!Fail(r)
  PROVE  /\ UNCHANGED <<engine, steps, case, task>>
         /\ setupPc'[r] \notin {"types", "evaluation", "approval", "findStep", "task", "status",
                           "deleteEngine"}
  <1> USE DEF Setup!Goto, Setup!Read, Setup!Fail, Setup!rows
  <1>0. setupPc \in [SetupRequests -> Setup!Labels]
    BY DEF TypeInv, Setup!TypeOK
  <1>1. CASE Setup!BeginCreate(r) \/ Setup!BeginUpdate(r) \/ Setup!BeginSync(r) \/ Setup!BeginApply(r) \/ Setup!BeginSubmit(r)
    BY <1>0, <1>1, Beginning
  <1>2. CASE Setup!SaveTemplate(r) \/ Setup!SaveVersion(r) \/ Setup!ReadRules(r) \/ Setup!WriteRules(r)
    BY <1>0, <1>2 DEF Setup!SaveTemplate, Setup!SaveVersion, Setup!ReadRules,
       Setup!WriteRules
  <1>3. CASE Setup!FindForm(r) \/ Setup!InsertForm(r) \/ Setup!DeleteFields(r) \/ Setup!InsertField(r)
    BY <1>0, <1>3 DEF Setup!FindForm, Setup!InsertForm, Setup!DeleteFields,
       Setup!InsertField
  <1>4. CASE Setup!FindEngine(r) \/ Setup!ReadFields(r) \/ Setup!SaveAnswer(r) \/ Setup!Fail(r)
    BY <1>0, <1>4 DEF Setup!FindEngine, Setup!ReadFields, Setup!SaveAnswer
  <1> QED
    BY <1>1, <1>2, <1>3, <1>4

\* A case is served as before by an engine that keeps its steps.
LEMMA ServedStays ==
  ASSUME NEW a, Served(a), task'[a] = task[a], engine' = engine, steps \subseteq steps'
  PROVE  Served(a)'
  BY DEF Served, Has, Setup!StepsOn

\* Without an engine no case is served.
LEMMA NoEngineNoCase ==
  ASSUME Setup!Assumptions, TypeInv, EngineInv, engine = 0
  PROVE  \A a \in Cases : case[a] # "in_evaluation"
  <1> SUFFICES ASSUME NEW a \in Cases, case[a] = "in_evaluation" PROVE FALSE
    OBVIOUS
  <1>1. task[a] \in Setup!Step /\ task[a].engine = 0
    BY DEF EngineInv, Served, TypeInv, Setup!TypeOK
  <1> QED
    BY <1>1 DEF Setup!Step, Setup!Assumptions

\* The part of EngineStep that is about the default engine
LEMMA EngineDefault ==
  ASSUME Setup!Assumptions, TypeInv, EngineInv, NEW r \in SetupRequests,
         ~Setup!Fail(r), Setup!EnsureEngine(r) \/ Setup!DefineEngine(r) \/ Setup!ReadTypes(r)
                   \/ Setup!EnsureEvaluation(r) \/ Setup!EnsureApproval(r)
  PROVE  /\ EngineKnown(r)'
         /\ \A a \in Cases : case'[a] = "in_evaluation" => Served(a)'
  <1>1. /\ setupPc \in [SetupRequests -> Setup!Labels] /\ setupCall \in [SetupRequests -> Setup!Call \cup {None}]
        /\ EngineKnown(r)
        /\ \A a \in Cases : case[a] = "in_evaluation" => Served(a)
    BY DEF TypeInv, Setup!TypeOK, EngineInv
  <1>2. setupCall[r] \in Setup!Call
    BY DEF TypeInv, Wellformed, Shape, Setup!EnsureEngine, Setup!DefineEngine,
       Setup!ReadTypes, Setup!EnsureEvaluation,
       Setup!EnsureApproval, Setup!InsertDefault
  <1>3. ASSUME UNCHANGED <<case, task, engine>>, steps \subseteq steps'
        PROVE  \A a \in Cases : case'[a] = "in_evaluation" => Served(a)'
    BY <1>1, <1>3, ServedStays
  <1>4. CASE Setup!EnsureEngine(r)
    <2>1. /\ setupPc'[r] = (IF engine = 0 THEN "define" ELSE "types")
          /\ setupCall'[r].engine = engine /\ UNCHANGED <<engine, steps, case, task>>
      BY <1>1, <1>2, <1>4 DEF Setup!EnsureEngine, Setup!Read, Setup!rows, Setup!Call
    <2> QED
      BY <1>3, <2>1 DEF EngineKnown
  <1>5. CASE Setup!DefineEngine(r)
    <2>1. /\ engine = 0 /\ setupPc'[r] = "types" /\ engine' = setupCall[r].n
          /\ setupCall'[r].engine = setupCall[r].n /\ UNCHANGED case
      BY <1>1, <1>2, <1>5 DEF Setup!DefineEngine, Setup!Call
    <2>2. EngineKnown(r)'
      BY <2>1 DEF EngineKnown
    <2> QED
      BY <2>1, <2>2, NoEngineNoCase
  <1>6. CASE Setup!ReadTypes(r)
    <2>1. /\ setupPc'[r] = "evaluation" /\ setupCall'[r].types = {s.type : s \in Setup!StepsOn(setupCall[r].engine)}
          /\ setupCall'[r].engine = setupCall[r].engine /\ UNCHANGED <<engine, steps, case, task>>
      BY <1>1, <1>2, <1>6 DEF Setup!ReadTypes, Setup!Read, Setup!rows, Setup!Call
    <2>2. setupCall[r].engine = engine
      BY <1>1, <1>6 DEF EngineKnown, Setup!ReadTypes
    <2>3. EngineKnown(r)'
      BY <2>1, <2>2 DEF EngineKnown, Setup!StepsOn
    <2> QED
      BY <1>3, <2>1, <2>3
  <1>7. ASSUME NEW type \in {"evaluation", "approval"}, NEW next, Setup!InsertDefault(r, type, next),
               type \in setupCall[r].types => Has(type)
        PROVE  /\ setupPc[r] = type /\ setupPc'[r] = next /\ (next # "idle" => setupCall'[r] = setupCall[r])
               /\ UNCHANGED <<engine, case, task>>
               /\ steps \subseteq steps' /\ Has(type)'
    <2>0. setupPc[r] = type /\ setupCall[r].engine = engine
      BY <1>1, <1>7 DEF Setup!InsertDefault, EngineKnown
    <2>1. Setup!Goto(r, next) /\ UNCHANGED <<engine, case, task>>
      BY <1>7 DEF Setup!InsertDefault, Setup!rows
    <2>2. setupPc'[r] = next /\ (next # "idle" => setupCall'[r] = setupCall[r])
      BY <1>1, <2>1 DEF Setup!Goto
    <2>3. CASE type \in setupCall[r].types
      BY <1>7, <2>0, <2>1, <2>2, <2>3 DEF Setup!InsertDefault, Setup!Lacks, Setup!rows,
         Has, Setup!StepsOn
    <2>4. CASE type \notin setupCall[r].types
      <3> DEFINE s == [engine |-> engine, key |-> type, type |-> type]
      <3>1. steps' = steps \cup {s}
        BY <1>7, <2>0, <2>4 DEF Setup!InsertDefault, Setup!Lacks
      <3>2. s \in Setup!StepsOn(engine)' /\ s.type = type
        BY <2>1, <3>1 DEF Setup!StepsOn
      <3> QED
        BY <2>0, <2>1, <2>2, <3>1, <3>2 DEF Has
    <2> QED
      BY <2>3, <2>4
  <1>8. CASE Setup!EnsureEvaluation(r)
    <2>1. setupPc[r] = "evaluation" /\ setupCall[r].types = {s.type : s \in Setup!StepsOn(engine)}
      BY <1>1, <1>8 DEF Setup!EnsureEvaluation, Setup!InsertDefault, EngineKnown
    <2>2. \A type \in setupCall[r].types : Has(type)
      BY <2>1 DEF Has
    <2>3. /\ setupPc'[r] = "approval" /\ setupCall'[r] = setupCall[r]
          /\ UNCHANGED <<engine, case, task>> /\ steps \subseteq steps' /\ Has("evaluation")'
      BY <1>7, <1>8, <2>2 DEF Setup!EnsureEvaluation
    <2>4. \A type : Has(type) => Has(type)'
      BY <2>3 DEF Has, Setup!StepsOn
    <2>5. setupCall[r].engine = engine
      BY <1>1, <2>1 DEF EngineKnown
    <2>6. EngineKnown(r)'
      BY <2>2, <2>3, <2>4, <2>5 DEF EngineKnown
    <2> QED
      BY <1>3, <2>3, <2>6
  <1>9. CASE Setup!EnsureApproval(r)
    <2>0. setupPc[r] = "approval"
      BY <1>9 DEF Setup!EnsureApproval, Setup!InsertDefault
    <2>1. Has("evaluation") /\ ("approval" \in setupCall[r].types => Has("approval"))
      BY <1>1, <2>0 DEF EngineKnown
    <2> DEFINE next == IF setupCall[r].op = "submit" THEN "findStep" ELSE "idle"
    <2>2. Setup!InsertDefault(r, "approval", next)
      BY <1>9 DEF Setup!EnsureApproval
    <2>3. /\ setupPc'[r] = next /\ UNCHANGED <<engine, case, task>> /\ steps \subseteq steps'
          /\ Has("approval")'
      BY <1>7, <2>1, <2>2
    <2>4. Has("evaluation")'
      BY <2>1, <2>3 DEF Has, Setup!StepsOn
    <2>5. EngineKnown(r)'
      BY <2>3, <2>4 DEF EngineKnown
    <2> QED
      BY <1>3, <2>3, <2>5
  <1> QED
    BY <1>4, <1>5, <1>6, <1>8, <1>9

\* The part of EngineStep that is about replacing the engine
LEMMA EngineCopied ==
  ASSUME Setup!Assumptions, TypeInv, EngineInv, NEW r \in SetupRequests,
         ~Setup!Fail(r), Setup!CountCases(r) \/ Setup!DeleteEngine(r) \/ Setup!CopyEngine(r) \/ Setup!CopyStep(r)
  PROVE  /\ EngineKnown(r)'
         /\ \A a \in Cases : case'[a] = "in_evaluation" => Served(a)'
  <1>1. /\ setupPc \in [SetupRequests -> Setup!Labels] /\ EngineKnown(r)
        /\ \A a \in Cases : case[a] = "in_evaluation" => Served(a)
    BY DEF TypeInv, Setup!TypeOK, EngineInv
  <1>2. ASSUME UNCHANGED <<case, task, engine>>, steps \subseteq steps'
        PROVE  \A a \in Cases : case'[a] = "in_evaluation" => Served(a)'
    BY <1>1, <1>2, ServedStays
  <1>3. CASE Setup!CountCases(r)
    <2>1. /\ setupPc'[r] = "deleteEngine" /\ \A a \in Cases : case[a] = "none"
          /\ UNCHANGED <<engine, steps, case, task>>
      BY <1>1, <1>3 DEF Setup!CountCases, Setup!Goto, Setup!rows
    <2> QED
      BY <1>2, <2>1 DEF EngineKnown
  <1>4. CASE Setup!DeleteEngine(r)
    <2>1. setupPc'[r] = "copy" /\ \A a \in Cases : case'[a] = "none"
      BY <1>1, <1>4 DEF Setup!DeleteEngine, Setup!Goto, EngineKnown
    <2> QED
      BY <2>1 DEF EngineKnown
  <1>5. CASE Setup!CopyEngine(r)
    <2>1. engine = 0 /\ setupPc'[r] = "copySteps" /\ case' = case
      BY <1>1, <1>5 DEF Setup!CopyEngine
    <2> QED
      BY <2>1, NoEngineNoCase DEF EngineKnown
  <1>6. CASE Setup!CopyStep(r)
    <2>1. setupPc'[r] = "copySteps" /\ steps \subseteq steps' /\ UNCHANGED <<case, task, engine>>
      BY <1>1, <1>6 DEF Setup!CopyStep
    <2> QED
      BY <1>2, <2>1 DEF EngineKnown
  <1> QED
    BY <1>3, <1>4, <1>5, <1>6

\* The part of EngineStep that is about a submission
LEMMA EngineSubmitted ==
  ASSUME Setup!Assumptions, TypeInv, EngineInv, NEW r \in SetupRequests,
         ~Setup!Fail(r), Setup!InsertCase(r) \/ Setup!FindStep(r) \/ Setup!InsertTask(r) \/ Setup!SetStatus(r)
  PROVE  /\ EngineKnown(r)'
         /\ \A a \in Cases : case'[a] = "in_evaluation" => Served(a)'
  <1>1. /\ setupPc \in [SetupRequests -> Setup!Labels] /\ setupCall \in [SetupRequests -> Setup!Call \cup {None}]
        /\ task \in [Cases -> Setup!Step \cup {None}]
        /\ case \in [Cases -> {"none", "submitted", "in_evaluation"}]
        /\ EngineKnown(r)
        /\ \A a \in Cases : case[a] = "in_evaluation" => Served(a)
    BY DEF TypeInv, Setup!TypeOK, EngineInv
  <1>2. setupCall[r] \in Setup!Call /\ Shape(r) /\ setupCall[r].case \in Cases
    BY DEF TypeInv, Wellformed, Shape, Setup!InsertCase, Setup!FindStep,
       Setup!InsertTask, Setup!SetStatus
  <1>3. CASE Setup!InsertCase(r)
    <2>1. /\ setupPc'[r] = "readFields" /\ UNCHANGED <<engine, steps, task>>
          /\ \A a \in Cases : case'[a] = "in_evaluation" => case[a] = "in_evaluation"
      BY <1>1, <1>2, <1>3 DEF Setup!InsertCase, Setup!Goto
    <2>2. \A a \in Cases : case'[a] = "in_evaluation" => Served(a)'
      BY <1>1, <2>1, ServedStays
    <2> QED
      BY <2>1, <2>2 DEF EngineKnown
  <1>4. CASE Setup!FindStep(r)
    <2>1. Has("evaluation") /\ Has("approval")
      BY <1>1, <1>4 DEF Setup!FindStep, EngineKnown
    <2>2. PICK s \in Setup!StepsOn(engine) :
               s.type = "evaluation" /\ Setup!Read(r, "task", [setupCall[r] EXCEPT !.step = s])
      BY <1>4, <2>1 DEF Setup!FindStep, Has
    <2>3. /\ setupPc'[r] = "task" /\ setupCall'[r].step = s /\ UNCHANGED <<engine, steps, case, task>>
      BY <1>1, <1>2, <2>2 DEF Setup!Read, Setup!rows, Setup!Call
    <2>4. s.engine = engine
      BY DEF Setup!StepsOn
    <2>5. EngineKnown(r)'
      BY <2>1, <2>2, <2>3, <2>4 DEF EngineKnown, Has, Setup!StepsOn
    <2> QED
      BY <1>1, <2>3, <2>5, ServedStays
  <1>5. CASE Setup!InsertTask(r)
    <2>1. /\ setupCall[r].step.engine = engine /\ setupCall[r].step.type = "evaluation"
          /\ Has("approval") /\ setupCall[r].step \in Setup!Step
      BY <1>1, <1>2, <1>5 DEF Setup!InsertTask, EngineKnown, Shape
    <2>2. /\ setupPc'[r] = "status" /\ setupCall'[r] = setupCall[r]
          /\ task' = [task EXCEPT ![setupCall[r].case] = setupCall[r].step]
          /\ UNCHANGED <<engine, steps, case>>
      BY <1>1, <1>5 DEF Setup!InsertTask, Setup!Goto
    <2>3. setupCall[r].step # None
      BY <1>1, <2>1 DEF Setup!Step, Setup!Assumptions
    <2>4. Served(setupCall[r].case)'
      BY <1>1, <1>2, <2>1, <2>2, <2>3 DEF Served, Has, Setup!StepsOn
    <2>5. \A a \in Cases \ {setupCall[r].case} : task'[a] = task[a]
      BY <1>1, <2>2
    <2>6. \A a \in Cases : case'[a] = "in_evaluation" => Served(a)'
      BY <1>1, <2>2, <2>4, <2>5, ServedStays
    <2>7. EngineKnown(r)'
      BY <2>2, <2>4 DEF EngineKnown
    <2> QED
      BY <2>6, <2>7
  <1>6. CASE Setup!SetStatus(r)
    <2>1. Served(setupCall[r].case)
      BY <1>1, <1>6 DEF Setup!SetStatus, EngineKnown
    <2>2. /\ setupPc'[r] = "idle" /\ UNCHANGED <<engine, steps, task>>
          /\ case' = [case EXCEPT ![setupCall[r].case] = "in_evaluation"]
      BY <1>1, <1>6 DEF Setup!SetStatus, Setup!Goto
    <2>3. \A a \in Cases : case'[a] = "in_evaluation" => Served(a)
      BY <1>1, <2>1, <2>2
    <2> QED
      BY <2>2, <2>3, ServedStays DEF EngineKnown
  <1> QED
    BY <1>3, <1>4, <1>5, <1>6

LEMMA EngineStep ==
  ASSUME Setup!Assumptions, TypeInv, setupMode # "overlap", OneAtATime, EngineInv,
         NEW r \in SetupRequests, Acts(r)
  PROVE  EngineInv'
  <1>1. \A q \in SetupRequests \ {r} : EngineKnown(q)'
    BY OthersIdle DEF EngineKnown
  <1>2. ASSUME UNCHANGED <<engine, steps, case, task>>,
               setupPc'[r] \notin {"types", "evaluation", "approval", "findStep", "task", "status",
                              "deleteEngine"}
        PROVE  EngineKnown(r)' /\ \A a \in Cases : case'[a] = "in_evaluation" => Served(a)'
    BY <1>2 DEF EngineKnown, EngineInv, Served, Has, Setup!StepsOn
  <1>3. EngineKnown(r)' /\ \A a \in Cases : case'[a] = "in_evaluation" => Served(a)'
    BY <1>2, EngineQuiet, EngineDefault, EngineCopied, EngineSubmitted DEF Acts,
       Setup!Drop
  <1> QED
    BY <1>1, <1>3 DEF EngineInv

LEMMA SetupStep == ASSUME Setup!Assumptions, SetupInv, [Setup!Next]_(Setup!vars) PROVE SetupInv'
  <1>1. TypeInv' /\ Referenced'
    BY TypeStep, ReferencedStep DEF SetupInv
  <1>2. ASSUME setupMode' # "overlap" PROVE (OneAtATime /\ SettingsInv /\ EngineInv)'
    <2>1. CASE UNCHANGED Setup!vars
      <3>1. OneAtATime /\ SettingsInv /\ EngineInv
        BY <1>2, <2>1 DEF SetupInv, Setup!vars
      <3>2. OneAtATime' /\ SettingsInv'
        BY <2>1, <3>1 DEF Setup!vars, OneAtATime, SettingsInv, SettingsRead
      <3>3. EngineInv'
        BY <2>1, <3>1 DEF Setup!vars, EngineInv, EngineKnown, Served, Has, Setup!StepsOn
      <3> QED
        BY <3>2, <3>3
    <2>2. ASSUME NEW r \in SetupRequests, Acts(r)
          PROVE  (OneAtATime /\ SettingsInv /\ EngineInv)'
      <3>1. setupMode' = setupMode
        BY <2>2, ModeStays
      <3> QED
        BY <1>2, <2>2, <3>1, OthersIdle, SettingsStep, EngineStep DEF SetupInv
    <2> QED
      BY <2>1, <2>2 DEF Setup!Next, Acts
  <1> QED
    BY <1>1, <1>2 DEF SetupInv

LEMMA SetupInit == ASSUME Setup!Assumptions, Setup!Init PROVE SetupInv
  <1>1. TypeInv
    BY TypeInit
  <1>2. Referenced /\ OneAtATime /\ EngineInv
    BY DEF Setup!Init, Referenced, OneAtATime, EngineInv, EngineKnown
  <1>3. SettingsInv
    BY DEF Setup!Init, SettingsInv, SettingsRead, Setup!Parts
  <1> QED
    BY <1>1, <1>2, <1>3 DEF SetupInv

\* Programs, versions, engines, tasks and open tabs stay as SetupInv describes
\* them after every step of every request (domain.service.ts).
THEOREM SetupHolds == ASSUME Setup!Assumptions PROVE Setup!Spec => []SetupInv
  BY SetupInit, SetupStep, PTL DEF Setup!Spec

\* As long as requests do not overlap, what was last saved for each setting is
\* what the program has: no update, publication or resynchronisation writes an
\* older copy back (updateAdminProgramTemplate, syncApplicantWorkflow).
THEOREM SettingsKeptHolds == ASSUME Setup!Assumptions PROVE Setup!Spec => []SettingsKept
  <1>1. SetupInv => SettingsKept
    BY DEF SetupInv, SettingsInv, Setup!SettingsKept, SettingsKept
  <1> QED
    BY <1>1, SetupHolds, PTL

\* No task refers to a step that is gone and no answer to a field that is gone,
\* however requests overlap or die; and as long as they do not overlap, a case
\* in evaluation has its task on the program's engine, which can approve it
\* (ensureDefaultWorkflow, applyWorkflowTemplate, spawnEvaluationTask).
THEOREM EngineServesCasesHolds == ASSUME Setup!Assumptions PROVE Setup!Spec => []EngineServesCases
  <1>1. SetupInv => EngineServesCases
    BY DEF SetupInv, Referenced, EngineInv, Served, Has, Setup!EngineServesCases, EngineServesCases
  <1> QED
    BY <1>1, SetupHolds, PTL

\* A set of positions that is not empty has a first one.
LEMMA Least ==
  ASSUME NEW T \in SUBSET Nat, T # {}
  PROVE  \E i \in T : \A j \in T : ~(j < i)
<1> DEFINE R == {ss \in Nat \X Nat : ss[1] < ss[2]}
<1>1. IsWellFoundedOn(R, Nat)
  BY NatLessThanWellFounded DEF OpToRel
<1> HIDE DEF R
<1>2. \E i \in T : \A j \in T : ~(<<j, i>> \in R)
  BY <1>1, WFMin
<1> QED BY <1>2 DEF R

(***************************************************************************)
(* The workflow engine of the portal, for any number of tabs, applications *)
(* and steps.  Every tab holds a state of its own and the last to save     *)
(* wins, so what is kept is kept of each of these states (Sound).          *)
(***************************************************************************)

\* the statuses after the verify steps
Past == {"submitted", "returned", "rejected", "approved", "disbursed"}

\* The application is where its status says, and its form is answered.
Placed(s, a) ==
  LET p == s.applications[a] IN
  /\ p.status = "draft" => p.step = None
  /\ p.status = "verifying" => p.step \in Portal!OfType(s, p.version, "verify")
  /\ p.status \in {"submitted", "returned", "rejected"} =>
       p.step \in Portal!OfType(s, p.version, "review")
  /\ p.status = "approved" => p.step \in Portal!OfType(s, p.version, "disbursement") \cup {None}
  /\ p.status = "disbursed" => p.step = None
  /\ p.status \in {"verifying", "submitted", "rejected"} => Portal!Valid(s, a)

PassedOnce(s, a, i) ==
  \E n \in 1 .. Len(s.verifyResults) :
     s.verifyResults[n] = [app |-> a, step |-> i, passed |-> TRUE]

ApprovedAt(s, a, i) ==
  \E e \in s.events : e.app = a /\ e.action = "approve" /\ e.from = i

\* Every item was checked off at the last review step, on the answer that stands.
CheckedOff(s, a) ==
  LET rounds == Portal!OfType(s, s.applications[a].version, "review") IN
  \A x \in Portal!ReviewItems(s, a) :
    \E c \in s.checks : /\ c.app = a /\ c.item = x
                        /\ c.step \in rounds
                        /\ ~\E i \in rounds : Portal!Before(s, c.step, i)
                        /\ c.verdict = "approved"
                        /\ c.seen = s.answers[a][x]

\* It has been through the steps before the one it is at.
Cleared(s, a) ==
  LET p == s.applications[a] IN
  /\ p.status \in Past =>
       \A i \in Portal!OfType(s, p.version, "verify") : PassedOnce(s, a, i)
  /\ p.status \in {"submitted", "returned", "rejected"} =>
       \A i \in Portal!OfType(s, p.version, "review") :
          Portal!Before(s, i, p.step) => ApprovedAt(s, a, i)
  /\ p.status \in {"approved", "disbursed"} =>
       /\ \A i \in Portal!OfType(s, p.version, "review") : ApprovedAt(s, a, i)
       /\ CheckedOff(s, a)

ChecksOf(s, a) == {c \in s.checks : c.app = a}

\* Verdicts are given on the answers that stand, until it is returned.
CheckedAsAnswered(s, a) ==
  \A c \in ChecksOf(s, a) :
     /\ s.applications[a].status \in Past
     /\ s.applications[a].status # "returned" => c.seen = s.answers[a][c.item]

\* An application is pinned to a version that is frozen.
Pinned(s, a) ==
  LET v == s.applications[a].version IN
  s.versions[v] # None /\ s.versions[v].status # "draft"

AppSound(s, a) ==
  IF s.applications[a] = None
  THEN s.paid[a] = 0 /\ ChecksOf(s, a) = {}
  ELSE /\ Pinned(s, a) /\ Placed(s, a) /\ Cleared(s, a) /\ CheckedAsAnswered(s, a)
       /\ s.paid[a] = IF s.applications[a].status = "disbursed" THEN 1 ELSE 0

\* Steps are numbered in the order of their creation.
Numbered(s) == \A i \in Portal!Steps : s.steps[i] # None => i <= s.lastId

Sound(s) ==
  /\ s \in Portal!WorkflowState
  /\ Numbered(s)
  /\ \A a \in Applications : AppSound(s, a)

----------------------------------------------------------------------------
(* The order of the steps *)

LEMMA StepTyped ==
  ASSUME NEW s \in Portal!WorkflowState, NEW i \in Portal!Steps, s.steps[i] # None
  PROVE  s.steps[i] \in Portal!Step
BY DEF Portal!WorkflowState

LEMMA OrderTotal ==
  ASSUME NEW s \in Portal!WorkflowState, NEW i \in Portal!Steps, NEW j \in Portal!Steps, NEW k \in Portal!Steps,
         s.steps[i] # None, s.steps[j] # None, s.steps[k] # None
  PROVE  /\ ~Portal!Before(s, i, i)
         /\ Portal!Before(s, i, j) => ~Portal!Before(s, j, i)
         /\ Portal!Before(s, i, j) /\ Portal!Before(s, j, k) => Portal!Before(s, i, k)
         /\ i # j => Portal!Before(s, i, j) \/ Portal!Before(s, j, i)
<1>1. s.steps[i].position \in Nat /\ s.steps[j].position \in Nat /\ s.steps[k].position \in Nat
      /\ i \in Nat /\ j \in Nat /\ k \in Nat
  BY StepTyped DEF Portal!Step, Portal!Steps
<1> QED BY <1>1 DEF Portal!Before

\* The first of some steps is one of them, before all the others.
LEMMA FirstFound ==
  ASSUME NEW s \in Portal!WorkflowState, NEW ids \in SUBSET Portal!Steps, ids # {},
         \A i \in ids : s.steps[i] # None
  PROVE  /\ Portal!FirstOf(s, ids) \in ids
         /\ \A j \in ids \ {Portal!FirstOf(s, ids)} : Portal!Before(s, Portal!FirstOf(s, ids), j)
<1> DEFINE positions == {s.steps[i].position : i \in ids}
<1>1. \A i \in ids : s.steps[i].position \in Nat /\ i \in Nat
  <2> SUFFICES ASSUME NEW i \in ids PROVE s.steps[i].position \in Nat /\ i \in Nat
    OBVIOUS
  <2>1. i \in Portal!Steps /\ s.steps[i] \in Portal!Step
    BY StepTyped
  <2> QED BY <2>1 DEF Portal!Step, Portal!Steps
<1>2. positions \in SUBSET Nat /\ positions # {}
  BY <1>1
<1>3. PICK n \in positions : \A m \in positions : ~(m < n)
  <2> HIDE DEF positions
  <2> QED BY <1>2, Least
<1> DEFINE foremost == {i \in ids : s.steps[i].position = n}
<1>4. foremost \in SUBSET Nat /\ foremost # {}
  BY <1>1, <1>3
<1>5. PICK i \in foremost : \A j \in foremost : ~(j < i)
  <2> HIDE DEF foremost
  <2> QED BY <1>4, Least
<1>6. ASSUME NEW j \in ids \ {i} PROVE Portal!Before(s, i, j)
  <2>1. s.steps[j].position \in positions /\ s.steps[i].position = n /\ n \in Nat
    BY <1>1, <1>2, <1>3, <1>5
  <2>2. n <= s.steps[j].position
    <3> DEFINE m == s.steps[j].position
    <3>1. m \in Nat /\ m \in positions
      BY <1>1, <2>1
    <3>2. ~(m < n)
      <4> HIDE DEF positions, m
      <4> QED BY <1>3, <3>1
    <3> HIDE DEF m
    <3>3. n <= m
      BY <2>1, <3>1, <3>2
    <3> QED BY <3>3 DEF m
  <2>3. s.steps[j].position = n => i < j
    BY <1>1, <1>4, <1>5, <2>1
  <2> QED BY <1>1, <2>1, <2>2, <2>3 DEF Portal!Before
<1> HIDE DEF foremost, positions
<1>7. \E k \in ids : \A j \in ids \ {k} : Portal!Before(s, k, j)
  BY <1>5, <1>6 DEF foremost
<1> QED BY <1>7 DEF Portal!FirstOf

----------------------------------------------------------------------------
(* What stays as it was *)

\* r has the steps of s that belong to the step set.
SameSteps(s, r, owner) ==
  \A i \in Portal!Steps :
    \/ s.steps[i] # None /\ s.steps[i].owner = owner
    \/ r.steps[i] # None /\ r.steps[i].owner = owner
    => r.steps[i] = s.steps[i]

LEMMA SameStepsSame ==
  ASSUME NEW s, NEW r, NEW owner, SameSteps(s, r, owner)
  PROVE  /\ Portal!StepsOf(r, owner) = Portal!StepsOf(s, owner)
         /\ \A i \in Portal!StepsOf(s, owner) : r.steps[i] = s.steps[i]
         /\ \A type : Portal!OfType(r, owner, type) = Portal!OfType(s, owner, type)
         /\ \A i, j \in Portal!StepsOf(s, owner) : Portal!Before(r, i, j) <=> Portal!Before(s, i, j)
<1>1. Portal!StepsOf(r, owner) = Portal!StepsOf(s, owner)
  BY DEF SameSteps, Portal!StepsOf
<1>2. \A i \in Portal!StepsOf(s, owner) : r.steps[i] = s.steps[i]
  BY DEF SameSteps, Portal!StepsOf
<1>3. \A type : Portal!OfType(r, owner, type) = Portal!OfType(s, owner, type)
  BY <1>1, <1>2 DEF Portal!OfType
<1>4. \A i, j \in Portal!StepsOf(s, owner) : Portal!Before(r, i, j) <=> Portal!Before(s, i, j)
  BY <1>2 DEF Portal!Before
<1> QED BY <1>1, <1>2, <1>3, <1>4

\* What was logged and found of face checks stays.
Kept(s, r) ==
  /\ s.events \subseteq r.events
  /\ \A n \in 1 .. Len(s.verifyResults) :
       n \in 1 .. Len(r.verifyResults) /\ r.verifyResults[n] = s.verifyResults[n]

LEMMA KeptFacts ==
  ASSUME NEW s, NEW r, Kept(s, r), NEW a, NEW i
  PROVE  /\ PassedOnce(s, a, i) => PassedOnce(r, a, i)
         /\ ApprovedAt(s, a, i) => ApprovedAt(r, a, i)
BY DEF Kept, PassedOnce, ApprovedAt

\* An application nothing was done to stays sound, whatever is done to the
\* steps of other versions and to other applications.
LEMMA Untouched ==
  ASSUME NEW s, NEW r, NEW a \in Applications, AppSound(s, a), Kept(s, r),
         r.applications[a] = s.applications[a],
         r.answers[a] = s.answers[a],
         r.paid[a] = s.paid[a],
         ChecksOf(r, a) = ChecksOf(s, a),
         s.applications[a] # None =>
           /\ SameSteps(s, r, s.applications[a].version)
           /\ Pinned(r, a)
  PROVE  AppSound(r, a)
<1>1. CASE s.applications[a] = None
  BY <1>1 DEF AppSound
<1>2. CASE s.applications[a] # None
  <2> DEFINE v == s.applications[a].version
  <2> USE <1>2
  <2>1. /\ Portal!StepsOf(r, v) = Portal!StepsOf(s, v)
        /\ \A i \in Portal!StepsOf(s, v) : r.steps[i] = s.steps[i]
        /\ \A type : Portal!OfType(r, v, type) = Portal!OfType(s, v, type)
        /\ \A i, j \in Portal!StepsOf(s, v) : Portal!Before(r, i, j) <=> Portal!Before(s, i, j)
    BY SameStepsSame
  <2>2. \A type : Portal!OfType(s, v, type) \subseteq Portal!StepsOf(s, v)
    BY DEF Portal!OfType
  <2>3. Portal!Valid(s, a) => Portal!Valid(r, a)
    BY <2>1 DEF Portal!Valid
  <2>4. Portal!ReviewItems(r, a) = Portal!ReviewItems(s, a)
    BY <2>1 DEF Portal!ReviewItems
  <2>5. Placed(r, a)
    <3>1. Placed(s, a)
      BY DEF AppSound
    <3> QED BY <2>1, <2>3, <3>1 DEF Placed
  <2>6. CheckedOff(s, a) => CheckedOff(r, a)
    <3> SUFFICES ASSUME CheckedOff(s, a), NEW x \in Portal!ReviewItems(r, a)
                 PROVE  \E c \in r.checks :
                           /\ c.app = a /\ c.item = x
                           /\ c.step \in Portal!OfType(r, v, "review")
                           /\ ~\E i \in Portal!OfType(r, v, "review") : Portal!Before(r, c.step, i)
                           /\ c.verdict = "approved"
                           /\ c.seen = r.answers[a][x]
      BY DEF CheckedOff
    <3>1. PICK c \in s.checks :
             /\ c.app = a /\ c.item = x
             /\ c.step \in Portal!OfType(s, v, "review")
             /\ ~\E i \in Portal!OfType(s, v, "review") : Portal!Before(s, c.step, i)
             /\ c.verdict = "approved"
             /\ c.seen = s.answers[a][x]
      BY <2>4 DEF CheckedOff
    <3>2. c \in r.checks
      BY <3>1 DEF ChecksOf
    <3>3. ~\E i \in Portal!OfType(r, v, "review") : Portal!Before(r, c.step, i)
      BY <2>1, <2>2, <3>1
    <3> QED BY <2>1, <3>1, <3>2, <3>3
  <2>7. Cleared(r, a)
    <3>1. Cleared(s, a) /\ Placed(s, a)
      BY DEF AppSound
    <3>2. s.applications[a].status \in Past =>
            \A i \in Portal!OfType(r, v, "verify") : PassedOnce(r, a, i)
      BY <2>1, <3>1, KeptFacts DEF Cleared
    <3>3. ASSUME s.applications[a].status \in {"submitted", "returned", "rejected"},
                 NEW i \in Portal!OfType(r, v, "review"), Portal!Before(r, i, s.applications[a].step)
          PROVE  ApprovedAt(r, a, i)
      <4>1. s.applications[a].step \in Portal!OfType(s, v, "review")
        BY <3>1, <3>3 DEF Placed
      <4>2. Portal!Before(s, i, s.applications[a].step)
        BY <2>1, <2>2, <3>3, <4>1
      <4>3. ApprovedAt(s, a, i)
        BY <2>1, <3>1, <3>3, <4>2 DEF Cleared
      <4> QED BY <4>3, KeptFacts
    <3>4. s.applications[a].status \in {"approved", "disbursed"} =>
            /\ \A i \in Portal!OfType(r, v, "review") : ApprovedAt(r, a, i)
            /\ CheckedOff(r, a)
      BY <2>1, <2>6, <3>1, KeptFacts DEF Cleared
    <3> QED BY <3>2, <3>3, <3>4 DEF Cleared
  <2>8. CheckedAsAnswered(r, a)
    <3>1. CheckedAsAnswered(s, a)
      BY DEF AppSound
    <3> QED BY <3>1 DEF CheckedAsAnswered
  <2> QED BY <2>5, <2>7, <2>8 DEF AppSound
<1> QED BY <1>1, <1>2

----------------------------------------------------------------------------
(* The builder *)

\* The versions that are published or archived keep their steps.
Frozen(s, r) ==
  \A v \in Portal!Versions :
    s.versions[v] # None /\ s.versions[v].status # "draft" =>
      /\ SameSteps(s, r, v)
      /\ r.versions[v] # None /\ r.versions[v].status # "draft"

Builds(s, r) ==
  /\ r.applications = s.applications /\ r.answers = s.answers
  /\ r.verifyResults = s.verifyResults /\ r.checks = s.checks
  /\ r.paid = s.paid /\ r.events = s.events

LEMMA BuilderKeeps ==
  ASSUME NEW s, Sound(s), NEW r \in Portal!WorkflowState, Numbered(r), Builds(s, r), Frozen(s, r)
  PROVE  Sound(r)
<1>1. ASSUME NEW a \in Applications PROVE AppSound(r, a)
  <2>1. s.applications[a] # None => s.applications[a].version \in Portal!Versions
    BY DEF Sound, Portal!WorkflowState, Portal!Application
  <2>2. s.applications[a] # None => Pinned(s, a)
    BY DEF Sound, AppSound
  <2>3. s.applications[a] # None =>
          SameSteps(s, r, s.applications[a].version) /\ Pinned(r, a)
    BY <2>1, <2>2 DEF Frozen, Pinned, Builds
  <2>4. AppSound(s, a) /\ ChecksOf(r, a) = ChecksOf(s, a)
    BY DEF Sound, ChecksOf, Builds
  <2>5. Kept(s, r)
    BY DEF Kept, Builds
  <2> QED BY <2>3, <2>4, <2>5, Untouched DEF Builds
<1> QED BY <1>1 DEF Sound

\* Only steps of owners that may be edited change.
LEMMA EditsFreeze ==
  ASSUME NEW s, NEW r, r.versions = s.versions, Templates \cap Portal!Versions = {},
         \A i \in Portal!Steps : \/ r.steps[i] = s.steps[i]
                                 \/ /\ s.steps[i] # None => Portal!Editable(s, s.steps[i].owner)
                                    /\ r.steps[i] # None => Portal!Editable(s, r.steps[i].owner)
  PROVE  Frozen(s, r)
<1> SUFFICES ASSUME NEW v \in Portal!Versions, s.versions[v] # None, s.versions[v].status # "draft"
             PROVE  SameSteps(s, r, v)
  BY DEF Frozen
<1>1. ~Portal!Editable(s, v)
  BY DEF Portal!Editable
<1> QED BY <1>1 DEF SameSteps

LEMMA CreateTemplateSound ==
  ASSUME Portal!Assumptions, NEW s, Sound(s), NEW n \in Templates, NEW becomes \in Portal!Statuses
  PROVE  Sound([s EXCEPT !.templates[n] = becomes])
<1> DEFINE r == [s EXCEPT !.templates[n] = becomes]
<1>1. r \in Portal!WorkflowState /\ Builds(s, r)
  BY DEF Sound, Portal!WorkflowState, Builds
<1>2. r.steps = s.steps /\ r.lastId = s.lastId /\ r.versions = s.versions
  BY DEF Sound, Portal!WorkflowState
<1> HIDE DEF r
<1>3. Numbered(r)
  BY <1>2 DEF Numbered, Sound
<1>4. Frozen(s, r)
  BY <1>2, EditsFreeze DEF Portal!Assumptions
<1>5. Sound(r)
  BY <1>1, <1>3, <1>4, BuilderKeeps
<1> QED BY <1>5 DEF r

\* A step that may be edited is edited or removed.
LEMMA StepChanged ==
  ASSUME Portal!Assumptions, NEW s, Sound(s), NEW i \in Portal!EditableSteps(s), NEW new \in Portal!Step \cup {None},
         new # None => new.owner = s.steps[i].owner
  PROVE  Sound([s EXCEPT !.steps[i] = new])
<1> DEFINE r == [s EXCEPT !.steps[i] = new]
<1>0. i \in Portal!Steps /\ s.steps[i] \in Portal!Step /\ s.steps[i] # None /\ Portal!Editable(s, s.steps[i].owner)
  BY DEF Portal!EditableSteps, Sound, Portal!WorkflowState
<1>1. r \in Portal!WorkflowState /\ Builds(s, r)
  BY <1>0 DEF Sound, Portal!WorkflowState, Builds
<1>2. r.steps = [s.steps EXCEPT ![i] = new] /\ r.lastId = s.lastId /\ r.versions = s.versions
  BY DEF Sound, Portal!WorkflowState
<1>3. \A j \in Portal!Steps : r.steps[j] = IF j = i THEN new ELSE s.steps[j]
  BY <1>2 DEF Sound, Portal!WorkflowState
<1> HIDE DEF r
<1>4. Numbered(r)
  BY <1>0, <1>2, <1>3 DEF Numbered, Sound
<1>5. Frozen(s, r)
  <2>1. \A j \in Portal!Steps : \/ r.steps[j] = s.steps[j]
                                \/ /\ s.steps[j] # None => Portal!Editable(s, s.steps[j].owner)
                                   /\ r.steps[j] # None => Portal!Editable(s, r.steps[j].owner)
    BY <1>0, <1>3
  <2> QED BY <1>2, <2>1, EditsFreeze DEF Portal!Assumptions
<1>6. Sound(r)
  BY <1>1, <1>4, <1>5, BuilderKeeps
<1> QED BY <1>6 DEF r

\* UpdateStep, RemoveStep, EditFields and SetActionEnabled
LEMMA EditSound ==
  ASSUME Portal!Assumptions, NEW s, Sound(s), NEW i \in Portal!EditableSteps(s)
  PROVE  /\ \A role \in Roles : Sound([s EXCEPT !.steps[i].role = role])
         /\ Sound([s EXCEPT !.steps[i] = None])
         /\ \A demanded \in SUBSET Keys : Sound([s EXCEPT !.steps[i].fields = demanded])
         /\ \A action \in Portal!DecisionActions :
              /\ Sound([s EXCEPT !.steps[i].enabled = @ \cup {action}])
              /\ Sound([s EXCEPT !.steps[i].enabled = @ \ {action}])
<1> DEFINE old == s.steps[i]
<1>0. i \in Portal!Steps /\ old \in Portal!Step
  BY DEF Portal!EditableSteps, Sound, Portal!WorkflowState
<1>1. ASSUME NEW role \in Roles PROVE Sound([s EXCEPT !.steps[i].role = role])
  <2>1. [old EXCEPT !.role = role] \in Portal!Step /\ [old EXCEPT !.role = role].owner = old.owner
    BY <1>0 DEF Portal!Step
  <2> QED BY <1>0, <2>1, StepChanged
<1>2. Sound([s EXCEPT !.steps[i] = None])
  BY <1>0, StepChanged
<1>3. ASSUME NEW demanded \in SUBSET Keys PROVE Sound([s EXCEPT !.steps[i].fields = demanded])
  <2>1. [old EXCEPT !.fields = demanded] \in Portal!Step /\ [old EXCEPT !.fields = demanded].owner = old.owner
    BY <1>0 DEF Portal!Step
  <2> QED BY <1>0, <2>1, StepChanged
<1>4. ASSUME NEW enabled \in SUBSET Portal!DecisionActions
      PROVE  Sound([s EXCEPT !.steps[i].enabled = enabled])
  <2>1. [old EXCEPT !.enabled = enabled] \in Portal!Step /\ [old EXCEPT !.enabled = enabled].owner = old.owner
    BY <1>0 DEF Portal!Step
  <2> QED BY <1>0, <2>1, StepChanged
<1>5. ASSUME NEW action \in Portal!DecisionActions
      PROVE  /\ Sound([s EXCEPT !.steps[i].enabled = @ \cup {action}])
             /\ Sound([s EXCEPT !.steps[i].enabled = @ \ {action}])
  <2>1. old.enabled \cup {action} \in SUBSET Portal!DecisionActions
        /\ old.enabled \ {action} \in SUBSET Portal!DecisionActions
    BY <1>0 DEF Portal!Step
  <2> QED BY <2>1, <1>4
<1> QED BY <1>1, <1>2, <1>3, <1>5

\* The instance counts as the module does.
LEMMA SameCount == \A S : Portal!Cardinality(S) = Cardinality(S)
BY Zenon DEF Portal!Cardinality, Cardinality

\* The steps of a step set are among those numbered so far.
LEMMA StepsCounted ==
  ASSUME Portal!Assumptions, NEW s, Sound(s), NEW owner
  PROVE  /\ IsFiniteSet(Portal!StepsOf(s, owner))
         /\ Portal!Cardinality(Portal!StepsOf(s, owner)) \in Nat
         /\ Portal!Cardinality(Portal!StepsOf(s, owner)) <= s.lastId
<1>1. s.lastId \in Nat /\ MaxSteps \in Nat
  BY DEF Sound, Portal!WorkflowState, Portal!Assumptions
<1>2. Portal!StepsOf(s, owner) \in SUBSET (1 .. s.lastId)
  BY <1>1 DEF Sound, Numbered, Portal!StepsOf, Portal!Steps
<1>3. IsFiniteSet(1 .. s.lastId) /\ Cardinality(1 .. s.lastId) = s.lastId
  BY <1>1, FS_Interval
<1>4. /\ IsFiniteSet(Portal!StepsOf(s, owner))
      /\ Cardinality(Portal!StepsOf(s, owner)) <= s.lastId
  BY <1>2, <1>3, FS_Subset
<1>5. Cardinality(Portal!StepsOf(s, owner)) \in Nat
  BY <1>4, FS_CardinalityType
<1> QED BY <1>4, <1>5, SameCount

LEMMA AddStepSound ==
  ASSUME Portal!Assumptions, NEW s, Sound(s), NEW owner \in Portal!Owners(s), NEW type \in Portal!StepTypes,
         Portal!Editable(s, owner), s.lastId < MaxSteps
  PROVE  Sound([s EXCEPT
              !.lastId = @ + 1,
              !.steps[s.lastId + 1] =
                 Portal!NewStep(owner, Portal!Cardinality(Portal!StepsOf(s, owner)) + 1, type)])
<1> DEFINE new == Portal!NewStep(owner, Portal!Cardinality(Portal!StepsOf(s, owner)) + 1, type)
           r == [s EXCEPT !.lastId = @ + 1, !.steps[s.lastId + 1] = new]
<1>1. s.lastId \in Nat /\ MaxSteps \in Nat /\ s.lastId + 1 \in Portal!Steps
  BY DEF Sound, Portal!WorkflowState, Portal!Assumptions, Portal!Steps
<1>2. new \in Portal!Step /\ new.owner = owner
  <2>1. Portal!Cardinality(Portal!StepsOf(s, owner)) + 1 \in Portal!Steps
    BY <1>1, StepsCounted DEF Portal!Steps
  <2>2. owner \in Templates \cup Portal!Versions
    BY DEF Portal!Owners
  <2> HIDE DEF Portal!StepsOf
  <2> QED BY <2>1, <2>2 DEF Portal!NewStep, Portal!Step, Portal!StepTypes, Portal!Assumptions
<1> HIDE DEF new
<1>3. r \in Portal!WorkflowState /\ Builds(s, r)
  <2>1. s.lastId + 1 \in 0 .. MaxSteps
    BY <1>1
  <2>2. [s.steps EXCEPT ![s.lastId + 1] = new] \in [Portal!Steps -> Portal!Step \cup {None}]
    BY <1>1, <1>2 DEF Sound, Portal!WorkflowState
  <2> QED BY <2>1, <2>2 DEF Sound, Portal!WorkflowState, Builds
<1>4. r.lastId = s.lastId + 1 /\ r.versions = s.versions
      /\ \A j \in Portal!Steps : r.steps[j] = IF j = s.lastId + 1 THEN new ELSE s.steps[j]
  BY DEF Sound, Portal!WorkflowState
<1> HIDE DEF r
<1>5. Numbered(r)
  BY <1>1, <1>4 DEF Numbered, Sound, Portal!Steps
<1>6. s.steps[s.lastId + 1] = None
  BY <1>1 DEF Sound, Numbered
<1>7. Frozen(s, r)
  <2>1. \A j \in Portal!Steps : \/ r.steps[j] = s.steps[j]
                                \/ /\ s.steps[j] # None => Portal!Editable(s, s.steps[j].owner)
                                   /\ r.steps[j] # None => Portal!Editable(s, r.steps[j].owner)
    BY <1>2, <1>4, <1>6
  <2> QED BY <1>4, <2>1, EditsFreeze DEF Portal!Assumptions
<1>8. Sound(r)
  BY <1>3, <1>5, <1>7, BuilderKeeps
<1> QED BY <1>8 DEF r, new

LEMMA MoveStepSound ==
  ASSUME Portal!Assumptions, NEW s, Sound(s), NEW owner, Portal!Editable(s, owner),
         NEW j \in Portal!StepsOf(s, owner), NEW k \in Portal!StepsOf(s, owner)
  PROVE  Sound([s EXCEPT !.steps[j].position = s.steps[k].position,
                         !.steps[k].position = s.steps[j].position])
<1> DEFINE r1 == [s EXCEPT !.steps[j].position = s.steps[k].position]
           r == [s EXCEPT !.steps[j].position = s.steps[k].position,
                          !.steps[k].position = s.steps[j].position]
<1>1. /\ j \in Portal!Steps /\ k \in Portal!Steps
      /\ s.steps[j] \in Portal!Step /\ s.steps[k] \in Portal!Step
      /\ s.steps[j].owner = owner /\ s.steps[k].owner = owner
      /\ j \in Portal!EditableSteps(s)
  BY DEF Portal!StepsOf, Portal!EditableSteps, Sound, Portal!WorkflowState
<1>2. [s.steps[j] EXCEPT !.position = s.steps[k].position] \in Portal!Step
      /\ [s.steps[j] EXCEPT !.position = s.steps[k].position].owner = owner
  BY <1>1 DEF Portal!Step
<1>3. Sound(r1)
  BY <1>1, <1>2, StepChanged
<1>4. r1.versions = s.versions /\ r1.templates = s.templates
      /\ r1.steps[k] \in Portal!Step /\ r1.steps[k].owner = owner
  BY <1>1, <1>2 DEF Sound, Portal!WorkflowState
<1>5. k \in Portal!EditableSteps(r1)
  BY <1>1, <1>4 DEF Portal!EditableSteps, Portal!Editable, Portal!Assumptions
<1>6. [r1.steps[k] EXCEPT !.position = s.steps[j].position] \in Portal!Step
      /\ [r1.steps[k] EXCEPT !.position = s.steps[j].position].owner = owner
  BY <1>1, <1>4 DEF Portal!Step
<1> HIDE DEF r1
<1>7. Sound([r1 EXCEPT !.steps[k] = [r1.steps[k] EXCEPT !.position = s.steps[j].position]])
  BY <1>3, <1>4, <1>5, <1>6, StepChanged
<1>8. [r1 EXCEPT !.steps[k] = [r1.steps[k] EXCEPT !.position = s.steps[j].position]] = r
  BY DEF r1
<1> QED BY <1>7, <1>8

\* A version is created under a name not used before.
LEMMA BlankSound ==
  ASSUME Portal!Assumptions, NEW s, Sound(s), NEW v \in Portal!Versions, s.versions[v] = None,
         NEW origin \in Portal!Versions
  PROVE  Sound([s EXCEPT !.versions[v] = Portal!Draft(origin)])
<1> DEFINE r == [s EXCEPT !.versions[v] = Portal!Draft(origin)]
<1>1. r \in Portal!WorkflowState /\ Builds(s, r)
  BY DEF Sound, Portal!WorkflowState, Builds, Portal!Draft, Portal!Version, Portal!Statuses
<1>2. r.steps = s.steps /\ r.lastId = s.lastId
      /\ \A w \in Portal!Versions \ {v} : r.versions[w] = s.versions[w]
  BY DEF Sound, Portal!WorkflowState
<1> HIDE DEF r
<1>3. Numbered(r)
  BY <1>2 DEF Numbered, Sound
<1>4. Frozen(s, r)
  BY <1>2 DEF Frozen, SameSteps
<1>5. Sound(r)
  BY <1>1, <1>3, <1>4, BuilderKeeps
<1> QED BY <1>5 DEF r

\* Steps are copied to ids not used before.
LEMMA CopiedSound ==
  ASSUME Portal!Assumptions, NEW s, Sound(s), NEW source, NEW v \in Portal!Versions, Portal!Editable(s, v),
         s.lastId + Portal!Cardinality(Portal!StepsOf(s, source)) <= MaxSteps
  PROVE  Sound(Portal!Copied(s, source, v))
<1> DEFINE ids == Portal!StepsOf(s, source)
           before(i) == {j \in ids : Portal!Before(s, j, i)}
           copy == [i \in ids |-> s.lastId + 1 + Portal!Cardinality(before(i))]
           new(n) == [s.steps[CHOOSE i \in ids : copy[i] = n] EXCEPT !.owner = v]
           r == [s EXCEPT !.lastId = @ + Portal!Cardinality(ids),
                          !.steps = [n \in Portal!Steps |->
                              IF \E i \in ids : copy[i] = n THEN new(n) ELSE s.steps[n]]]
<1>0. r = Portal!Copied(s, source, v)
  BY DEF Portal!Copied
<1>1. /\ s.lastId \in Nat /\ MaxSteps \in Nat
      /\ IsFiniteSet(ids) /\ Portal!Cardinality(ids) \in Nat
  <2>1. IsFiniteSet(ids) /\ Portal!Cardinality(ids) \in Nat
    BY StepsCounted
  <2>2. s.lastId \in Nat /\ MaxSteps \in Nat
    BY DEF Sound, Portal!WorkflowState, Portal!Assumptions
  <2> QED BY <2>1, <2>2
<1>2. \A i \in ids : i \in Portal!Steps /\ s.steps[i] \in Portal!Step /\ s.steps[i] # None
  BY DEF Portal!StepsOf, Sound, Portal!WorkflowState
<1>3. ASSUME NEW i \in ids
      PROVE  Portal!Cardinality(before(i)) \in Nat /\ Portal!Cardinality(before(i)) < Portal!Cardinality(ids)
  <2>1. ~Portal!Before(s, i, i)
    BY <1>2, OrderTotal DEF Sound
  <2>2. before(i) \in SUBSET (ids \ {i})
    BY <2>1
  <2>3. IsFiniteSet(ids \ {i}) /\ Cardinality(ids \ {i}) = Cardinality(ids) - 1
    BY <1>1, FS_RemoveElement
  <2>4. IsFiniteSet(before(i)) /\ Cardinality(before(i)) <= Cardinality(ids \ {i})
    BY <2>2, <2>3, FS_Subset
  <2>5. Cardinality(before(i)) \in Nat /\ Cardinality(ids) \in Nat
    BY <1>1, <2>4, FS_CardinalityType
  <2>6. Cardinality(before(i)) < Cardinality(ids)
    BY <2>3, <2>4, <2>5
  <2> QED BY <2>5, <2>6, SameCount
<1>4. \A i \in ids : copy[i] \in Nat /\ s.lastId < copy[i]
                     /\ copy[i] <= s.lastId + Portal!Cardinality(ids)
  <2> HIDE DEF ids, before
  <2> QED BY <1>1, <1>3
<1>5. ASSUME NEW n \in Portal!Steps, \E i \in ids : copy[i] = n
      PROVE  /\ new(n) \in Portal!Step /\ new(n).owner = v
             /\ s.lastId < n /\ n <= s.lastId + Portal!Cardinality(ids)
  <2> DEFINE i == CHOOSE i \in ids : copy[i] = n
  <2>1. i \in ids /\ copy[i] = n
    BY <1>5
  <2> HIDE DEF i, copy, ids
  <2>2. s.steps[i] \in Portal!Step
    BY <1>2, <2>1
  <2>3. [s.steps[i] EXCEPT !.owner = v] \in Portal!Step
        /\ [s.steps[i] EXCEPT !.owner = v].owner = v
    BY <2>2 DEF Portal!Step
  <2> QED BY <1>4, <2>1, <2>3 DEF i
<1> HIDE DEF ids, copy, new
<1>6. r \in Portal!WorkflowState /\ Builds(s, r)
  <2>1. s.lastId + Portal!Cardinality(ids) \in 0 .. MaxSteps
    BY <1>1 DEF ids
  <2>2. [n \in Portal!Steps |-> IF \E i \in ids : copy[i] = n THEN new(n) ELSE s.steps[n]]
          \in [Portal!Steps -> Portal!Step \cup {None}]
    BY <1>5 DEF Sound, Portal!WorkflowState
  <2> QED BY <2>1, <2>2 DEF Sound, Portal!WorkflowState, Builds
<1>7. /\ r.lastId = s.lastId + Portal!Cardinality(ids) /\ r.versions = s.versions
      /\ \A n \in Portal!Steps : r.steps[n] = IF \E i \in ids : copy[i] = n THEN new(n) ELSE s.steps[n]
  BY DEF Sound, Portal!WorkflowState
<1> HIDE DEF r
<1>8. Numbered(r)
  <2> SUFFICES ASSUME NEW n \in Portal!Steps, r.steps[n] # None
               PROVE  n <= s.lastId + Portal!Cardinality(ids)
    BY <1>7 DEF Numbered
  <2>1. CASE \E i \in ids : copy[i] = n
    BY <1>5, <2>1
  <2>2. CASE ~\E i \in ids : copy[i] = n
    BY <1>1, <1>7, <2>2 DEF Sound, Numbered, Portal!Steps
  <2> QED BY <2>1, <2>2
<1>9. Frozen(s, r)
  <2>1. ASSUME NEW n \in Portal!Steps
        PROVE  \/ r.steps[n] = s.steps[n]
               \/ /\ s.steps[n] # None => Portal!Editable(s, s.steps[n].owner)
                  /\ r.steps[n] # None => Portal!Editable(s, r.steps[n].owner)
    <3>1. CASE \E i \in ids : copy[i] = n
      <4>1. s.steps[n] = None
        BY <1>1, <1>5, <3>1 DEF Sound, Numbered, Portal!Steps
      <4> QED BY <1>5, <1>7, <3>1, <4>1
    <3>2. CASE ~\E i \in ids : copy[i] = n
      BY <1>7, <3>2
    <3> QED BY <3>1, <3>2
  <2> QED BY <1>7, <2>1, EditsFreeze DEF Portal!Assumptions
<1> QED BY <1>0, <1>6, <1>8, <1>9, BuilderKeeps

\* What a new version of a program starts with.
LEMMA DraftSound ==
  ASSUME Portal!Assumptions, NEW s, Sound(s), NEW v \in Portal!Versions, s.versions[v] = None,
         NEW origin \in Portal!Versions, NEW source,
         s.lastId + Portal!Cardinality(Portal!StepsOf(s, source)) <= MaxSteps
  PROVE  Sound(Portal!Copied([s EXCEPT !.versions[v] = Portal!Draft(origin)], source, v))
<1> DEFINE b == [s EXCEPT !.versions[v] = Portal!Draft(origin)]
<1>1. Sound(b)
  BY BlankSound
<1>2. b.lastId = s.lastId /\ b.steps = s.steps /\ b.versions[v] = Portal!Draft(origin)
  BY DEF Sound, Portal!WorkflowState
<1> HIDE DEF b
<1>3. Portal!StepsOf(b, source) = Portal!StepsOf(s, source)
  BY <1>2 DEF Portal!StepsOf
<1>4. Portal!Editable(b, v)
  BY <1>2 DEF Portal!Editable, Portal!Draft, Portal!Assumptions
<1>5. Sound(Portal!Copied(b, source, v))
  BY <1>1, <1>2, <1>3, <1>4, CopiedSound
<1> QED BY <1>5 DEF b

LEMMA PublishVersionSound ==
  ASSUME Portal!Assumptions, NEW s, Sound(s), NEW v \in Portal!Versions, s.versions[v] # None
  PROVE  Sound([s EXCEPT !.versions = [w \in Portal!Versions |->
              IF w = v THEN [@[w] EXCEPT !.status = "published"]
              ELSE IF @[w] = [program |-> s.versions[v].program,
                              status |-> "published"]
              THEN [@[w] EXCEPT !.status = "archived"]
              ELSE @[w]]])
<1> DEFINE versions == [w \in Portal!Versions |->
              IF w = v THEN [s.versions[w] EXCEPT !.status = "published"]
              ELSE IF s.versions[w] = [program |-> s.versions[v].program,
                                       status |-> "published"]
              THEN [s.versions[w] EXCEPT !.status = "archived"]
              ELSE s.versions[w]]
           r == [s EXCEPT !.versions = versions]
<1>1. ASSUME NEW w \in Portal!Versions
      PROVE  /\ versions[w] = s.versions[w] \/ (versions[w] \in Portal!Version /\ versions[w].status # "draft")
             /\ versions[w] \in Portal!Version \cup {None}
  <2>1. s.versions[v] \in Portal!Version /\ s.versions[w] \in Portal!Version \cup {None}
    BY DEF Sound, Portal!WorkflowState
  <2>2. CASE w = v
    BY <2>1, <2>2 DEF Portal!Version, Portal!Statuses
  <2>3. CASE w # v /\ s.versions[w] = [program |-> s.versions[v].program,
                                       status |-> "published"]
    <3>1. s.versions[w] \in Portal!Version
      BY <2>1, <2>3 DEF Portal!Version, Portal!Statuses
    <3> QED BY <2>3, <3>1 DEF Portal!Version, Portal!Statuses
  <2>4. CASE w # v /\ s.versions[w] # [program |-> s.versions[v].program,
                                       status |-> "published"]
    BY <2>1, <2>4
  <2> QED BY <2>2, <2>3, <2>4
<1>2. versions \in [Portal!Versions -> Portal!Version \cup {None}]
  BY <1>1
<1> HIDE DEF versions
<1>3. r \in Portal!WorkflowState /\ Builds(s, r)
  BY <1>2 DEF Sound, Portal!WorkflowState, Builds
<1>4. r.steps = s.steps /\ r.lastId = s.lastId /\ r.versions = versions
  BY DEF Sound, Portal!WorkflowState
<1> HIDE DEF r
<1>5. Numbered(r)
  BY <1>4 DEF Numbered, Sound
<1>6. Frozen(s, r)
  BY <1>1, <1>4 DEF Frozen, SameSteps, Portal!Assumptions
<1>7. Sound(r)
  BY <1>3, <1>5, <1>6, BuilderKeeps
<1> QED BY <1>7 DEF r, versions

----------------------------------------------------------------------------
(* The applications *)

\* Steps and versions, and other applications, stay as they are.
ActsOn(s, r, a) ==
  /\ r.versions = s.versions /\ r.steps = s.steps /\ r.lastId = s.lastId
  /\ \A b \in Applications \ {a} :
       /\ r.applications[b] = s.applications[b] /\ r.answers[b] = s.answers[b]
       /\ r.paid[b] = s.paid[b] /\ ChecksOf(r, b) = ChecksOf(s, b)

LEMMA ActKeeps ==
  ASSUME NEW s, Sound(s), NEW a \in Applications, NEW r \in Portal!WorkflowState,
         ActsOn(s, r, a), Kept(s, r), AppSound(r, a)
  PROVE  Sound(r)
<1>1. Numbered(r)
  BY DEF Sound, Numbered, ActsOn
<1>2. ASSUME NEW b \in Applications \ {a} PROVE AppSound(r, b)
  <2>1. AppSound(s, b)
    BY DEF Sound
  <2>2. \A v : SameSteps(s, r, v)
    BY DEF SameSteps, ActsOn
  <2>3. s.applications[b] # None => Pinned(r, b)
    BY <2>1 DEF Pinned, ActsOn, AppSound
  <2> QED BY <2>1, <2>2, <2>3, Untouched DEF ActsOn
<1> QED BY <1>1, <1>2 DEF Sound

LEMMA StepsStay ==
  ASSUME NEW s, NEW r, r.steps = s.steps
  PROVE  /\ \A o : Portal!StepsOf(r, o) = Portal!StepsOf(s, o)
         /\ \A o, type : Portal!OfType(r, o, type) = Portal!OfType(s, o, type)
         /\ \A i, j : Portal!Before(r, i, j) <=> Portal!Before(s, i, j)
<1>1. \A o : Portal!StepsOf(r, o) = Portal!StepsOf(s, o)
  BY DEF Portal!StepsOf
<1>2. \A o, type : Portal!OfType(r, o, type) = Portal!OfType(s, o, type)
  BY <1>1 DEF Portal!OfType
<1> QED BY <1>1, <1>2 DEF Portal!Before

\* What is known of an application.
LEMMA FiledFacts ==
  ASSUME NEW s, Sound(s), NEW a \in Portal!Filed(s)
  PROVE  /\ a \in Applications /\ s.applications[a] # None
         /\ s.applications[a] \in Portal!Application
         /\ Pinned(s, a) /\ Placed(s, a) /\ Cleared(s, a) /\ CheckedAsAnswered(s, a)
         /\ s.paid[a] = IF s.applications[a].status = "disbursed" THEN 1 ELSE 0
BY DEF Portal!Filed, Sound, AppSound, Portal!WorkflowState

\* The steps of a type are steps.
LEMMA TypedSteps ==
  ASSUME NEW s, Sound(s), NEW o, NEW type
  PROVE  /\ Portal!OfType(s, o, type) \in SUBSET Portal!Steps
         /\ \A i \in Portal!OfType(s, o, type) :
              s.steps[i] # None /\ s.steps[i].owner = o /\ s.steps[i].type = type
BY DEF Portal!OfType, Portal!StepsOf

LEMMA StartSound ==
  ASSUME Portal!Assumptions, NEW s, Sound(s), NEW a \in Applications \ Portal!Filed(s), NEW v \in Portal!Versions,
         NEW u \in Users, s.versions[v] # None, s.versions[v].status = "published"
  PROVE  Sound([s EXCEPT !.applications[a] =
              [version |-> v, applicant |-> u, step |-> None, status |-> "draft"]])
<1> DEFINE new == [version |-> v, applicant |-> u, step |-> None, status |-> "draft"]
           r == [s EXCEPT !.applications[a] = new]
<1>1. new \in Portal!Application /\ new # None
  BY DEF Portal!Application, Portal!Assumptions
<1>2. r \in Portal!WorkflowState
  BY <1>1 DEF Sound, Portal!WorkflowState
<1>3. /\ r.versions = s.versions /\ r.steps = s.steps /\ r.lastId = s.lastId
      /\ r.answers = s.answers /\ r.paid = s.paid /\ r.checks = s.checks
      /\ r.events = s.events /\ r.verifyResults = s.verifyResults
      /\ \A b \in Applications : r.applications[b] = IF b = a THEN new ELSE s.applications[b]
  BY DEF Sound, Portal!WorkflowState
<1>4. s.applications[a] = None
  BY DEF Portal!Filed
<1>5. s.paid[a] = 0 /\ ChecksOf(s, a) = {}
  BY <1>4 DEF Sound, AppSound
<1> HIDE DEF r
<1>6. ActsOn(s, r, a) /\ Kept(s, r) /\ ChecksOf(r, a) = {}
  BY <1>3, <1>5 DEF ActsOn, Kept, ChecksOf
<1>7. AppSound(r, a)
  BY <1>1, <1>3, <1>5, <1>6
     DEF AppSound, Pinned, Placed, Cleared, CheckedAsAnswered, Past
<1>8. Sound(r)
  BY <1>2, <1>6, <1>7, ActKeeps
<1> QED BY <1>8 DEF r

LEMMA SetAnswerSound ==
  ASSUME Portal!Assumptions, NEW s, Sound(s), NEW a \in Portal!Filed(s),
         s.applications[a].status \in {"draft", "returned"},
         NEW x \in Portal!Steps \X Keys, NEW v \in Values \cup {None}
  PROVE  Sound([s EXCEPT !.answers[a][x] = v])
<1> DEFINE r == [s EXCEPT !.answers[a][x] = v]
<1>1. r \in Portal!WorkflowState
  BY FiledFacts DEF Sound, Portal!WorkflowState
<1>2. /\ r.versions = s.versions /\ r.steps = s.steps /\ r.lastId = s.lastId
      /\ r.applications = s.applications /\ r.paid = s.paid /\ r.checks = s.checks
      /\ r.events = s.events /\ r.verifyResults = s.verifyResults
      /\ \A b \in Applications \ {a} : r.answers[b] = s.answers[b]
  BY DEF Sound, Portal!WorkflowState
<1> HIDE DEF r
<1>3. ActsOn(s, r, a) /\ Kept(s, r) /\ ChecksOf(r, a) = ChecksOf(s, a)
  BY <1>2 DEF ActsOn, Kept, ChecksOf
<1>4. /\ \A o, type : Portal!OfType(r, o, type) = Portal!OfType(s, o, type)
      /\ \A i, j : Portal!Before(r, i, j) <=> Portal!Before(s, i, j)
  BY <1>2, StepsStay
<1>5. Placed(r, a) /\ Pinned(r, a)
  BY <1>2, <1>4, FiledFacts DEF Placed, Pinned
<1>6. Cleared(r, a)
  <2>1. \A i : /\ PassedOnce(s, a, i) => PassedOnce(r, a, i)
               /\ ApprovedAt(s, a, i) => ApprovedAt(r, a, i)
    BY <1>3, KeptFacts
  <2> QED BY <1>2, <1>4, <2>1, FiledFacts DEF Cleared
<1>7. CheckedAsAnswered(r, a)
  BY <1>2, <1>3, FiledFacts DEF CheckedAsAnswered, Past
<1>8. AppSound(r, a)
  BY <1>2, <1>5, <1>6, <1>7, FiledFacts DEF AppSound
<1>9. Sound(r)
  BY <1>1, <1>3, <1>8, ActKeeps, FiledFacts
<1> QED BY <1>9 DEF r

\* What a move changes.
LEMMA MovedFacts ==
  ASSUME Portal!Assumptions, NEW s, Sound(s), NEW a \in Portal!Filed(s),
         NEW action \in {"submit", "resubmit", "verify", "disburse"} \cup Portal!DecisionActions,
         NEW becomes \in {"verifying", "submitted"} \cup Past, NEW to \in Portal!Steps \cup {None}
  PROVE  LET r == Portal!Moved(s, a, action, becomes, to) IN
         /\ r \in Portal!WorkflowState /\ ActsOn(s, r, a) /\ Kept(s, r)
         /\ r.answers = s.answers /\ r.checks = s.checks /\ r.paid = s.paid
         /\ r.verifyResults = s.verifyResults
         /\ r.applications[a] # None
         /\ r.applications[a].version = s.applications[a].version
         /\ r.applications[a].status = becomes /\ r.applications[a].step = to
         /\ action = "approve" => ApprovedAt(r, a, s.applications[a].step)
<1> DEFINE r == Portal!Moved(s, a, action, becomes, to)
           old == s.applications[a]
           e == Portal!NewEvent(a, action, IF action = "resubmit" THEN None ELSE old.step,
                         IF action = "reject" THEN None ELSE to)
           new == [old EXCEPT !.status = becomes, !.step = to]
<1>1. a \in Applications /\ old \in Portal!Application
  BY FiledFacts
<1>2. new \in Portal!Application /\ new # None
      /\ new.version = old.version /\ new.status = becomes /\ new.step = to
  BY <1>1 DEF Portal!Application, Past, Portal!Assumptions
<1>3. e \in Portal!Event
  BY <1>1 DEF Portal!NewEvent, Portal!Event, Portal!Application
<1>4. e.app = a /\ e.action = action /\ (action = "approve" => e.from = old.step)
  BY DEF Portal!NewEvent
<1>5. r = [s EXCEPT !.applications[a] = new, !.events = s.events \cup {e}]
  BY DEF Portal!Moved
<1> HIDE DEF r, e, new, old
<1>6. r \in Portal!WorkflowState
  BY <1>1, <1>2, <1>3, <1>5 DEF Sound, Portal!WorkflowState
<1>7. /\ r.versions = s.versions /\ r.steps = s.steps /\ r.lastId = s.lastId
      /\ r.answers = s.answers /\ r.paid = s.paid /\ r.checks = s.checks
      /\ r.verifyResults = s.verifyResults /\ r.events = s.events \cup {e}
      /\ \A b \in Applications : r.applications[b] = IF b = a THEN new ELSE s.applications[b]
  BY <1>1, <1>5 DEF Sound, Portal!WorkflowState
<1>8. ActsOn(s, r, a) /\ Kept(s, r)
  BY <1>7 DEF ActsOn, Kept, ChecksOf
<1>9. action = "approve" => ApprovedAt(r, a, old.step)
  BY <1>4, <1>7 DEF ApprovedAt
<1> QED BY <1>1, <1>2, <1>6, <1>7, <1>8, <1>9 DEF r, old, new

\* What it leaves alone.
LEMMA MovedSame ==
  ASSUME NEW s, Sound(s), NEW a \in Portal!Filed(s), NEW r, ActsOn(s, r, a), Kept(s, r),
         r.answers = s.answers, r.checks = s.checks,
         r.applications[a] # None,
         r.applications[a].version = s.applications[a].version
  PROVE  /\ \A o, type : Portal!OfType(r, o, type) = Portal!OfType(s, o, type)
         /\ \A i, j : Portal!Before(r, i, j) <=> Portal!Before(s, i, j)
         /\ Portal!Valid(r, a) <=> Portal!Valid(s, a)
         /\ Portal!ReviewItems(r, a) = Portal!ReviewItems(s, a)
         /\ Pinned(r, a)
         /\ \A i : /\ PassedOnce(s, a, i) => PassedOnce(r, a, i)
                   /\ ApprovedAt(s, a, i) => ApprovedAt(r, a, i)
<1>1. /\ \A o : Portal!StepsOf(r, o) = Portal!StepsOf(s, o)
      /\ \A o, type : Portal!OfType(r, o, type) = Portal!OfType(s, o, type)
      /\ \A i, j : Portal!Before(r, i, j) <=> Portal!Before(s, i, j)
  BY StepsStay DEF ActsOn
<1>2. Portal!Valid(r, a) <=> Portal!Valid(s, a)
  BY <1>1 DEF Portal!Valid, ActsOn
<1>3. Portal!ReviewItems(r, a) = Portal!ReviewItems(s, a)
  BY <1>1 DEF Portal!ReviewItems
<1>4. Pinned(r, a)
  BY FiledFacts DEF Pinned, ActsOn
<1> QED BY <1>1, <1>2, <1>3, <1>4, KeptFacts

\* The first of some steps of a type, if it has any.
LEMMA FirstOfType ==
  ASSUME Portal!Assumptions, NEW s, Sound(s), NEW o, NEW type,
         NEW ids \in SUBSET Portal!OfType(s, o, type)
  PROVE  /\ Portal!FirstOf(s, ids) = None <=> ids = {}
         /\ ids # {} => /\ Portal!FirstOf(s, ids) \in ids
                        /\ \A j \in ids : ~Portal!Before(s, j, Portal!FirstOf(s, ids))
<1>1. ids \in SUBSET Portal!Steps /\ \A i \in ids : s.steps[i] # None
  BY TypedSteps
<1>2. CASE ids = {}
  BY <1>2 DEF Portal!FirstOf
<1>3. CASE ids # {}
  <2>1. /\ Portal!FirstOf(s, ids) \in ids
        /\ \A j \in ids \ {Portal!FirstOf(s, ids)} : Portal!Before(s, Portal!FirstOf(s, ids), j)
    BY <1>1, <1>3, FirstFound DEF Sound
  <2>2. Portal!FirstOf(s, ids) # None
    BY <1>1, <2>1 DEF Portal!Assumptions
  <2>3. ASSUME NEW j \in ids PROVE ~Portal!Before(s, j, Portal!FirstOf(s, ids))
    BY <1>1, <2>1, OrderTotal DEF Sound
  <2> QED BY <1>3, <2>1, <2>2, <2>3
<1> QED BY <1>2, <1>3

\* It is the same as long as the steps are.
LEMMA FirstSame ==
  ASSUME NEW s, Sound(s), NEW r, Sound(r), r.steps = s.steps, NEW o, NEW type,
         NEW ids \in SUBSET Portal!OfType(s, o, type)
  PROVE  Portal!FirstOf(r, ids) = Portal!FirstOf(s, ids)
<1>1. CASE ids = {}
  BY <1>1 DEF Portal!FirstOf
<1>2. CASE ids # {}
  <2> DEFINE x == Portal!FirstOf(s, ids)
             y == Portal!FirstOf(r, ids)
  <2>1. ids \in SUBSET Portal!Steps /\ \A i \in ids : s.steps[i] # None /\ r.steps[i] # None
    BY TypedSteps
  <2>2. /\ x \in ids /\ \A j \in ids \ {x} : Portal!Before(s, x, j)
        /\ y \in ids /\ \A j \in ids \ {y} : Portal!Before(r, y, j)
    BY <1>2, <2>1, FirstFound DEF Sound
  <2> HIDE DEF x, y
  <2>3. \A i, j : Portal!Before(r, i, j) <=> Portal!Before(s, i, j)
    BY StepsStay
  <2>4. x = y
    BY <2>1, <2>2, <2>3, OrderTotal DEF Sound
  <2> QED BY <2>4 DEF x, y
<1> QED BY <1>1, <1>2

\* On from the verify steps: submit and verify.
LEMMA AdvanceSound ==
  ASSUME Portal!Assumptions, NEW s, Sound(s), NEW a \in Portal!Filed(s), NEW action \in {"submit", "verify"},
         s.applications[a].status \in {"draft", "verifying"}, Portal!Valid(s, a)
  PROVE  LET verify == Portal!PendingVerifyStep(s, a, s.verifyResults)
             review == Portal!FirstOf(s, Portal!OfType(s, s.applications[a].version, "review")) IN
         /\ verify # None => Sound(Portal!Moved(s, a, action, "verifying", verify))
         /\ verify = None /\ review # None => Sound(Portal!Moved(s, a, action, "submitted", review))
<1> DEFINE v == s.applications[a].version
           pending == {i \in Portal!OfType(s, v, "verify") : ~Portal!Passed(s.verifyResults, a, i)}
           verify == Portal!PendingVerifyStep(s, a, s.verifyResults)
           rounds == Portal!OfType(s, v, "review")
           review == Portal!FirstOf(s, rounds)
<1>1. a \in Applications /\ ChecksOf(s, a) = {} /\ s.paid[a] = 0
  BY FiledFacts DEF CheckedAsAnswered, Past
<1>2. verify = Portal!FirstOf(s, pending)
  BY DEF Portal!PendingVerifyStep
<1>3. pending \in SUBSET Portal!OfType(s, v, "verify") /\ Portal!OfType(s, v, "verify") \in SUBSET Portal!Steps
      /\ rounds \in SUBSET Portal!Steps
  BY TypedSteps
<1>4. action \in {"submit", "resubmit", "verify", "disburse"} \cup Portal!DecisionActions
  OBVIOUS
<1>5. ASSUME verify # None PROVE Sound(Portal!Moved(s, a, action, "verifying", verify))
  <2> DEFINE r == Portal!Moved(s, a, action, "verifying", verify)
  <2>1. verify \in Portal!OfType(s, v, "verify") /\ verify \in Portal!Steps
    BY <1>2, <1>3, <1>5, FirstOfType
  <2> HIDE DEF verify, pending
  <2>2. /\ r \in Portal!WorkflowState /\ ActsOn(s, r, a) /\ Kept(s, r)
        /\ r.answers = s.answers /\ r.checks = s.checks /\ r.paid = s.paid
        /\ r.applications[a] # None /\ r.applications[a].version = v
        /\ r.applications[a].status = "verifying" /\ r.applications[a].step = verify
    <3>1. "verifying" \in {"verifying", "submitted"} \cup Past /\ verify \in Portal!Steps \cup {None}
      BY <2>1
    <3> QED BY <1>4, <3>1, MovedFacts
  <2> HIDE DEF r
  <2>3. /\ Portal!OfType(r, v, "verify") = Portal!OfType(s, v, "verify")
        /\ Portal!Valid(r, a) /\ Pinned(r, a)
    BY <2>2, MovedSame
  <2>4. Placed(r, a) /\ Cleared(r, a)
    BY <2>1, <2>2, <2>3 DEF Placed, Cleared, Past
  <2>5. CheckedAsAnswered(r, a)
    BY <1>1, <2>2 DEF CheckedAsAnswered, ChecksOf
  <2>6. AppSound(r, a)
    BY <1>1, <2>2, <2>3, <2>4, <2>5 DEF AppSound
  <2>7. Sound(r)
    BY <1>1, <2>2, <2>6, ActKeeps
  <2> QED BY <2>7 DEF r
<1>6. ASSUME verify = None, review # None PROVE Sound(Portal!Moved(s, a, action, "submitted", review))
  <2> DEFINE r == Portal!Moved(s, a, action, "submitted", review)
  <2>1. review \in rounds /\ review \in Portal!Steps /\ \A j \in rounds : ~Portal!Before(s, j, review)
    BY <1>3, <1>6, FirstOfType
  <2>2. pending = {}
    BY <1>2, <1>3, <1>6, FirstOfType
  <2>3. \A i \in Portal!OfType(s, v, "verify") : PassedOnce(s, a, i)
    BY <2>2 DEF Portal!Passed, PassedOnce
  <2> HIDE DEF verify, pending, review
  <2>4. /\ r \in Portal!WorkflowState /\ ActsOn(s, r, a) /\ Kept(s, r)
        /\ r.answers = s.answers /\ r.checks = s.checks /\ r.paid = s.paid
        /\ r.applications[a] # None /\ r.applications[a].version = v
        /\ r.applications[a].status = "submitted" /\ r.applications[a].step = review
    <3>1. "submitted" \in {"verifying", "submitted"} \cup Past /\ review \in Portal!Steps \cup {None}
      BY <2>1
    <3> QED BY <1>4, <3>1, MovedFacts
  <2> HIDE DEF r
  <2>5. /\ \A type : Portal!OfType(r, v, type) = Portal!OfType(s, v, type)
        /\ \A i, j : Portal!Before(r, i, j) <=> Portal!Before(s, i, j)
        /\ Portal!Valid(r, a) /\ Pinned(r, a)
        /\ \A i : PassedOnce(s, a, i) => PassedOnce(r, a, i)
    BY <2>4, MovedSame
  <2>6. Placed(r, a)
    BY <2>1, <2>4, <2>5 DEF Placed
  <2>7. Cleared(r, a)
    BY <2>1, <2>3, <2>4, <2>5 DEF Cleared
  <2>8. CheckedAsAnswered(r, a)
    BY <1>1, <2>4 DEF CheckedAsAnswered, ChecksOf
  <2>9. AppSound(r, a)
    BY <1>1, <2>4, <2>5, <2>6, <2>7, <2>8 DEF AppSound
  <2>10. Sound(r)
    BY <1>1, <2>4, <2>9, ActKeeps
  <2> QED BY <2>10 DEF r
<1> QED BY <1>5, <1>6

LEMMA ResubmitSound ==
  ASSUME Portal!Assumptions, NEW s, Sound(s), NEW a \in Portal!Filed(s),
         s.applications[a].status = "returned", Portal!Valid(s, a)
  PROVE  Sound([Portal!Moved(s, a, "resubmit", "submitted", s.applications[a].step)
                   EXCEPT !.checks = Portal!ChecksReset(s, a)])
<1> DEFINE old == s.applications[a]
           m == Portal!Moved(s, a, "resubmit", "submitted", old.step)
           r == [m EXCEPT !.checks = Portal!ChecksReset(s, a)]
<1>1. /\ a \in Applications /\ s.paid[a] = 0 /\ old.step \in Portal!OfType(s, old.version, "review")
      /\ old.step \in Portal!Steps
  BY FiledFacts, TypedSteps DEF Placed
<1>2. /\ m \in Portal!WorkflowState /\ ActsOn(s, m, a) /\ Kept(s, m)
      /\ m.answers = s.answers /\ m.checks = s.checks /\ m.paid = s.paid
      /\ m.applications[a] # None /\ m.applications[a].version = old.version
      /\ m.applications[a].status = "submitted" /\ m.applications[a].step = old.step
  <2>1. /\ "submitted" \in {"verifying", "submitted"} \cup Past /\ old.step \in Portal!Steps \cup {None}
        /\ "resubmit" \in {"submit", "resubmit", "verify", "disburse"} \cup Portal!DecisionActions
    BY <1>1
  <2> QED BY <2>1, MovedFacts
<1> HIDE DEF m
<1>3. /\ \A type : Portal!OfType(m, old.version, type) = Portal!OfType(s, old.version, type)
      /\ \A i, j : Portal!Before(m, i, j) <=> Portal!Before(s, i, j)
      /\ Portal!Valid(m, a) /\ Pinned(m, a)
      /\ \A i : /\ PassedOnce(s, a, i) => PassedOnce(m, a, i)
                /\ ApprovedAt(s, a, i) => ApprovedAt(m, a, i)
  BY <1>2, MovedSame
<1>4. r \in Portal!WorkflowState
  BY <1>2 DEF Portal!ChecksReset, Sound, Portal!WorkflowState
<1>5. /\ r.applications = m.applications /\ r.answers = m.answers /\ r.paid = m.paid
      /\ r.steps = m.steps /\ r.versions = m.versions /\ r.lastId = m.lastId
      /\ r.events = m.events /\ r.verifyResults = m.verifyResults
      /\ r.checks = {c \in s.checks : c.app # a}
  BY <1>2 DEF Portal!WorkflowState, Portal!ChecksReset
<1> HIDE DEF r
<1>6. ActsOn(s, r, a) /\ Kept(s, r) /\ ChecksOf(r, a) = {}
  BY <1>2, <1>5 DEF ActsOn, Kept, ChecksOf
<1>7. /\ \A type : Portal!OfType(r, old.version, type) = Portal!OfType(m, old.version, type)
      /\ \A i, j : Portal!Before(r, i, j) <=> Portal!Before(m, i, j)
      /\ \A o : Portal!StepsOf(r, o) = Portal!StepsOf(m, o)
  BY <1>5, StepsStay
<1>8. Placed(r, a) /\ Pinned(r, a)
  BY <1>1, <1>2, <1>3, <1>5, <1>7 DEF Placed, Pinned, Portal!Valid
<1>9. Cleared(r, a)
  <2>1. \A i : /\ PassedOnce(m, a, i) => PassedOnce(r, a, i)
               /\ ApprovedAt(m, a, i) => ApprovedAt(r, a, i)
    BY <1>5 DEF PassedOnce, ApprovedAt
  <2> QED BY <1>2, <1>3, <1>5, <1>7, <2>1, FiledFacts DEF Cleared, Past
<1>10. AppSound(r, a)
  BY <1>1, <1>2, <1>5, <1>6, <1>8, <1>9 DEF AppSound, CheckedAsAnswered
<1>11. Sound(r)
  BY <1>1, <1>4, <1>6, <1>10, ActKeeps
<1> QED BY <1>11 DEF r, m

\* The outcome of a face check is recorded.
LEMMA ResultSound ==
  ASSUME Portal!Assumptions, NEW s, Sound(s), NEW a \in Portal!Filed(s), s.applications[a].status = "verifying",
         NEW passed \in BOOLEAN
  PROVE  LET results == Append(s.verifyResults,
                               [app |-> a, step |-> s.applications[a].step, passed |-> passed])
             after == [s EXCEPT !.verifyResults = results] IN
         /\ Sound(after) /\ after.applications = s.applications /\ after.steps = s.steps
         /\ after.answers = s.answers /\ after.verifyResults = results
<1> DEFINE result == [app |-> a, step |-> s.applications[a].step, passed |-> passed]
           results == Append(s.verifyResults, result)
           r == [s EXCEPT !.verifyResults = results]
<1>1. a \in Applications /\ s.applications[a].step \in Portal!Steps
  BY FiledFacts, TypedSteps DEF Placed
<1>2. result \in Portal!Result
  BY <1>1 DEF Portal!Result
<1>3. s.verifyResults \in Seq(Portal!Result)
  BY DEF Sound, Portal!WorkflowState
<1> HIDE DEF result
<1>4. /\ results \in Seq(Portal!Result) /\ Len(results) = Len(s.verifyResults) + 1
      /\ Len(s.verifyResults) \in Nat
      /\ \A n \in 1 .. Len(s.verifyResults) : results[n] = s.verifyResults[n]
  BY <1>2, <1>3
<1> HIDE DEF results
<1>5. r \in Portal!WorkflowState
  BY <1>4 DEF Sound, Portal!WorkflowState
<1>6. /\ r.versions = s.versions /\ r.steps = s.steps /\ r.lastId = s.lastId
      /\ r.applications = s.applications /\ r.paid = s.paid /\ r.checks = s.checks
      /\ r.events = s.events /\ r.verifyResults = results /\ r.answers = s.answers
  BY DEF Sound, Portal!WorkflowState
<1> HIDE DEF r
<1>7. ActsOn(s, r, a)
  BY <1>6 DEF ActsOn, ChecksOf
<1>8. Kept(s, r)
  BY <1>4, <1>6 DEF Kept
<1>9. AppSound(r, a)
  <2>1. AppSound(s, a) /\ ChecksOf(r, a) = ChecksOf(s, a) /\ Pinned(r, a)
    BY <1>1, <1>6, FiledFacts DEF Sound, ChecksOf, Pinned
  <2>2. SameSteps(s, r, s.applications[a].version)
    BY <1>6 DEF SameSteps
  <2> QED BY <1>1, <1>6, <1>8, <2>1, <2>2, Untouched
<1>10. Sound(r)
  BY <1>1, <1>5, <1>7, <1>8, <1>9, ActKeeps
<1> QED BY <1>6, <1>10 DEF r, results, result

LEMMA VerifySound ==
  ASSUME Portal!Assumptions, NEW s, Sound(s), NEW a \in Portal!Filed(s), NEW passed \in BOOLEAN,
         s.applications[a].status = "verifying"
  PROVE  LET p == s.applications[a]
             results == Append(s.verifyResults,
                               [app |-> a, step |-> p.step, passed |-> passed])
             verify == Portal!PendingVerifyStep(s, a, results)
             review == Portal!FirstOf(s, Portal!OfType(s, p.version, "review"))
             after == [s EXCEPT !.verifyResults = results] IN
         ~passed \/ verify # None \/ review # None =>
           Sound(IF ~passed THEN after
                 ELSE IF verify # None
                 THEN Portal!Moved(after, a, "verify", "verifying", verify)
                 ELSE Portal!Moved(after, a, "verify", "submitted", review))
<1> DEFINE p == s.applications[a]
           results == Append(s.verifyResults, [app |-> a, step |-> p.step, passed |-> passed])
           verify == Portal!PendingVerifyStep(s, a, results)
           review == Portal!FirstOf(s, Portal!OfType(s, p.version, "review"))
           after == [s EXCEPT !.verifyResults = results]
<1>1. /\ Sound(after) /\ after.applications = s.applications /\ after.steps = s.steps
      /\ after.answers = s.answers /\ after.verifyResults = results
  BY ResultSound
<1>2. Portal!Valid(s, a)
  BY FiledFacts DEF Placed
<1> HIDE DEF after, results
<1>3. /\ \A o : Portal!StepsOf(after, o) = Portal!StepsOf(s, o)
      /\ \A o, type : Portal!OfType(after, o, type) = Portal!OfType(s, o, type)
      /\ \A i, j : Portal!Before(after, i, j) <=> Portal!Before(s, i, j)
  BY <1>1, StepsStay
<1>4. \A type : \A ids \in SUBSET Portal!OfType(s, p.version, type) :
        Portal!FirstOf(after, ids) = Portal!FirstOf(s, ids)
  BY <1>1, FirstSame
<1>5. verify = Portal!PendingVerifyStep(after, a, after.verifyResults)
  <2> DEFINE pending == {i \in Portal!OfType(s, p.version, "verify") : ~Portal!Passed(results, a, i)}
  <2>1. verify = Portal!FirstOf(s, pending) /\ pending \in SUBSET Portal!OfType(s, p.version, "verify")
    BY DEF Portal!PendingVerifyStep
  <2>2. Portal!PendingVerifyStep(after, a, after.verifyResults) = Portal!FirstOf(after, pending)
    BY <1>1, <1>3 DEF Portal!PendingVerifyStep
  <2> HIDE DEF pending
  <2> QED BY <1>4, <2>1, <2>2
<1>6. review = Portal!FirstOf(after, Portal!OfType(after, after.applications[a].version, "review"))
  BY <1>1, <1>3, <1>4
<1>7. a \in Portal!Filed(after) /\ Portal!Valid(after, a) /\ after.applications[a].status = "verifying"
  BY <1>1, <1>2, <1>3 DEF Portal!Filed, Portal!Valid
<1>8. /\ verify # None => Sound(Portal!Moved(after, a, "verify", "verifying", verify))
      /\ verify = None /\ review # None => Sound(Portal!Moved(after, a, "verify", "submitted", review))
  BY <1>1, <1>5, <1>6, <1>7, AdvanceSound
<1> QED BY <1>1, <1>8 DEF after, results

LEMMA VerdictSound ==
  ASSUME Portal!Assumptions, NEW s, Sound(s), NEW a \in Portal!Filed(s), s.applications[a].status = "submitted",
         NEW verdict \in {"approved", "rejected"}, NEW x \in Portal!ReviewItems(s, a)
  PROVE  LET p == s.applications[a]
             here == {c \in s.checks : c.app = a /\ c.step = p.step /\ c.item = x}
             new == [app |-> a, step |-> p.step, item |-> x,
                     verdict |-> verdict, seen |-> s.answers[a][x]] IN
         Sound([s EXCEPT !.checks = IF \E c \in here : c.verdict = verdict
                                    THEN @ \ here ELSE (@ \ here) \cup {new}])
<1> DEFINE p == s.applications[a]
           here == {c \in s.checks : c.app = a /\ c.step = p.step /\ c.item = x}
           new == [app |-> a, step |-> p.step, item |-> x,
                   verdict |-> verdict, seen |-> s.answers[a][x]]
           checks == IF \E c \in here : c.verdict = verdict
                     THEN s.checks \ here ELSE (s.checks \ here) \cup {new}
           r == [s EXCEPT !.checks = checks]
<1>1. a \in Applications /\ p.step \in Portal!Steps
  BY FiledFacts, TypedSteps DEF Placed
<1>2. x \in Portal!Steps \X Keys /\ s.answers[a][x] \in Values
  BY <1>1 DEF Portal!ReviewItems, Portal!StepsOf, Sound, Portal!WorkflowState
<1>3. new \in Portal!Check /\ new.app = a /\ new.item = x /\ new.seen = s.answers[a][x]
  BY <1>1, <1>2 DEF Portal!Check
<1> HIDE DEF new
<1>4. /\ checks \in SUBSET Portal!Check
      /\ \A c \in checks : c.app # a => c \in s.checks
      /\ \A c \in s.checks : c.app # a => c \in checks
      /\ \A c \in checks : c \in s.checks \/ c = new
  BY <1>3 DEF Sound, Portal!WorkflowState
<1> HIDE DEF checks
<1>5. r \in Portal!WorkflowState
  BY <1>4 DEF Sound, Portal!WorkflowState
<1>6. /\ r.versions = s.versions /\ r.steps = s.steps /\ r.lastId = s.lastId
      /\ r.applications = s.applications /\ r.paid = s.paid /\ r.checks = checks
      /\ r.events = s.events /\ r.verifyResults = s.verifyResults /\ r.answers = s.answers
  BY DEF Sound, Portal!WorkflowState
<1> HIDE DEF r
<1>7. ActsOn(s, r, a) /\ Kept(s, r)
  BY <1>4, <1>6 DEF ActsOn, ChecksOf, Kept
<1>8. CheckedAsAnswered(r, a)
  BY <1>3, <1>4, <1>6, FiledFacts DEF CheckedAsAnswered, ChecksOf, Past
<1>9. Placed(r, a) /\ Cleared(r, a) /\ Pinned(r, a)
  <2>1. /\ \A type : Portal!OfType(r, p.version, type) = Portal!OfType(s, p.version, type)
        /\ \A i, j : Portal!Before(r, i, j) <=> Portal!Before(s, i, j)
        /\ Portal!Valid(r, a) <=> Portal!Valid(s, a)
        /\ \A o : Portal!StepsOf(r, o) = Portal!StepsOf(s, o)
    BY <1>6, StepsStay DEF Portal!Valid
  <2>2. \A i : /\ PassedOnce(r, a, i) <=> PassedOnce(s, a, i)
               /\ ApprovedAt(r, a, i) <=> ApprovedAt(s, a, i)
    BY <1>6 DEF PassedOnce, ApprovedAt
  <2> QED BY <1>6, <2>1, <2>2, FiledFacts DEF Placed, Cleared, Pinned
<1>10. AppSound(r, a)
  BY <1>6, <1>8, <1>9, FiledFacts DEF AppSound
<1>11. Sound(r)
  BY <1>1, <1>5, <1>7, <1>10, ActKeeps
<1> QED BY <1>11 DEF r, checks, new

\* An approval moves it to the next review step, or to the disbursement.
LEMMA ApproveSound ==
  ASSUME Portal!Assumptions, NEW s, Sound(s), NEW a \in Portal!Filed(s), s.applications[a].status = "submitted",
         Portal!ReviewComplete(s, a, s.applications[a].step)
  PROVE  Sound(Portal!Approved(s, a))
<1> DEFINE p == s.applications[a]
           rounds == Portal!OfType(s, p.version, "review")
           later == {i \in rounds : Portal!Before(s, p.step, i)}
           next == IF later # {} THEN "submitted" ELSE "approved"
           to == IF later # {} THEN Portal!FirstOf(s, later)
                 ELSE Portal!FirstOf(s, Portal!OfType(s, p.version, "disbursement"))
           r == Portal!Moved(s, a, "approve", next, to)
<1>1. a \in Applications /\ p.step \in rounds /\ s.paid[a] = 0 /\ Portal!Valid(s, a)
  BY FiledFacts DEF Placed
<1>2. rounds \in SUBSET Portal!Steps /\ \A i \in rounds : s.steps[i] # None
  BY TypedSteps
<1>3. later # {} => /\ Portal!FirstOf(s, later) \in later
                    /\ \A j \in later : ~Portal!Before(s, j, Portal!FirstOf(s, later))
  <2>1. later \in SUBSET rounds
    OBVIOUS
  <2> HIDE DEF later
  <2> QED BY <2>1, FirstOfType
<1>4. Portal!FirstOf(s, Portal!OfType(s, p.version, "disbursement"))
        \in Portal!OfType(s, p.version, "disbursement") \cup {None}
  BY FirstOfType
<1>5. to \in Portal!Steps \cup {None}
  BY <1>2, <1>3, <1>4, TypedSteps
<1>6. Portal!Approved(s, a) = r
  BY DEF Portal!Approved
<1>7. next \in {"submitted", "approved"} /\ (next = "submitted" <=> later # {})
  OBVIOUS
<1> HIDE DEF next
<1>8. /\ r \in Portal!WorkflowState /\ ActsOn(s, r, a) /\ Kept(s, r)
      /\ r.answers = s.answers /\ r.checks = s.checks /\ r.paid = s.paid
      /\ r.applications[a] # None /\ r.applications[a].version = p.version
      /\ r.applications[a].status = next /\ r.applications[a].step = to
      /\ ApprovedAt(r, a, p.step)
  <2>1. /\ "approve" \in {"submit", "resubmit", "verify", "disburse"} \cup Portal!DecisionActions
        /\ next \in {"verifying", "submitted"} \cup Past
    BY <1>7 DEF Portal!DecisionActions, Past
  <2> HIDE DEF to, later
  <2> QED BY <1>5, <2>1, MovedFacts
<1> HIDE DEF r
<1>9. /\ \A type : Portal!OfType(r, p.version, type) = Portal!OfType(s, p.version, type)
      /\ \A i, j : Portal!Before(r, i, j) <=> Portal!Before(s, i, j)
      /\ Portal!Valid(r, a) /\ Pinned(r, a) /\ Portal!ReviewItems(r, a) = Portal!ReviewItems(s, a)
      /\ \A i : /\ PassedOnce(s, a, i) => PassedOnce(r, a, i)
                /\ ApprovedAt(s, a, i) => ApprovedAt(r, a, i)
  BY <1>1, <1>8, MovedSame
<1>10. Placed(r, a)
  BY <1>3, <1>4, <1>7, <1>8, <1>9 DEF Placed
<1>11. \A i \in rounds : ~Portal!Before(s, p.step, i) => ApprovedAt(r, a, i)
  <2> SUFFICES ASSUME NEW i \in rounds, ~Portal!Before(s, p.step, i) PROVE ApprovedAt(r, a, i)
    OBVIOUS
  <2>1. i = p.step \/ Portal!Before(s, i, p.step)
    BY <1>1, <1>2, OrderTotal DEF Sound
  <2>2. Portal!Before(s, i, p.step) => ApprovedAt(s, a, i)
    BY FiledFacts DEF Cleared
  <2> QED BY <1>8, <1>9, <2>1, <2>2
<1>12. CASE later # {}
  <2>1. \A i \in rounds : Portal!Before(s, i, to) => ApprovedAt(r, a, i)
    BY <1>3, <1>11, <1>12
  <2>2. \A i \in Portal!OfType(s, p.version, "verify") : PassedOnce(r, a, i)
    BY <1>9, FiledFacts DEF Cleared, Past
  <2>3. Cleared(r, a)
    BY <1>7, <1>8, <1>9, <1>12, <2>1, <2>2 DEF Cleared
  <2>4. CheckedAsAnswered(r, a)
    BY <1>7, <1>8, <1>12, FiledFacts DEF CheckedAsAnswered, ChecksOf, Past
  <2>5. AppSound(r, a)
    BY <1>1, <1>7, <1>8, <1>9, <1>10, <1>12, <2>3, <2>4 DEF AppSound
  <2> QED BY <1>1, <1>6, <1>8, <2>5, ActKeeps
<1>13. CASE later = {}
  <2>1. \A i \in rounds : ApprovedAt(r, a, i)
    BY <1>11, <1>13
  <2>2. \A i \in Portal!OfType(s, p.version, "verify") : PassedOnce(r, a, i)
    BY <1>9, FiledFacts DEF Cleared, Past
  <2>3. CheckedOff(r, a)
    <3> SUFFICES ASSUME NEW x \in Portal!ReviewItems(r, a)
                 PROVE  \E c \in r.checks :
                           /\ c.app = a /\ c.item = x
                           /\ c.step \in Portal!OfType(r, p.version, "review")
                           /\ ~\E i \in Portal!OfType(r, p.version, "review") : Portal!Before(r, c.step, i)
                           /\ c.verdict = "approved"
                           /\ c.seen = r.answers[a][x]
      BY <1>8 DEF CheckedOff
    <3>1. PICK c \in s.checks : /\ c.app = a /\ c.step = p.step /\ c.item = x
                                /\ c.verdict = "approved"
      BY <1>9 DEF Portal!ReviewComplete
    <3>2. c.seen = s.answers[a][c.item]
      BY <3>1, FiledFacts DEF CheckedAsAnswered, ChecksOf
    <3> QED BY <1>1, <1>8, <1>9, <1>13, <3>1, <3>2
  <2>4. Cleared(r, a)
    BY <1>7, <1>8, <1>9, <1>13, <2>1, <2>2, <2>3 DEF Cleared
  <2>5. CheckedAsAnswered(r, a)
    BY <1>7, <1>8, <1>13, FiledFacts DEF CheckedAsAnswered, ChecksOf, Past
  <2>6. AppSound(r, a)
    BY <1>1, <1>7, <1>8, <1>9, <1>10, <1>13, <2>4, <2>5 DEF AppSound
  <2> QED BY <1>1, <1>6, <1>8, <2>6, ActKeeps
<1> QED BY <1>12, <1>13

\* Returned and rejected, it stays at the step.
LEMMA TurnedDownSound ==
  ASSUME Portal!Assumptions, NEW s, Sound(s), NEW a \in Portal!Filed(s), s.applications[a].status = "submitted",
         NEW action \in {"return", "reject"},
         NEW becomes \in {"returned", "rejected"}
  PROVE  Sound(Portal!Moved(s, a, action, becomes, s.applications[a].step))
<1> DEFINE p == s.applications[a]
           r == Portal!Moved(s, a, action, becomes, p.step)
<1>1. /\ a \in Applications /\ s.paid[a] = 0 /\ Portal!Valid(s, a)
      /\ p.step \in Portal!OfType(s, p.version, "review") /\ p.step \in Portal!Steps
  BY FiledFacts, TypedSteps DEF Placed
<1>2. /\ r \in Portal!WorkflowState /\ ActsOn(s, r, a) /\ Kept(s, r)
      /\ r.answers = s.answers /\ r.checks = s.checks /\ r.paid = s.paid
      /\ r.applications[a] # None /\ r.applications[a].version = p.version
      /\ r.applications[a].status = becomes /\ r.applications[a].step = p.step
  <2>1. /\ action \in {"submit", "resubmit", "verify", "disburse"} \cup Portal!DecisionActions
        /\ becomes \in {"verifying", "submitted"} \cup Past /\ p.step \in Portal!Steps \cup {None}
    BY <1>1 DEF Portal!DecisionActions, Past
  <2> QED BY <2>1, MovedFacts
<1> HIDE DEF r
<1>3. /\ \A type : Portal!OfType(r, p.version, type) = Portal!OfType(s, p.version, type)
      /\ \A i, j : Portal!Before(r, i, j) <=> Portal!Before(s, i, j)
      /\ Portal!Valid(r, a) /\ Pinned(r, a)
      /\ \A i : /\ PassedOnce(s, a, i) => PassedOnce(r, a, i)
                /\ ApprovedAt(s, a, i) => ApprovedAt(r, a, i)
  BY <1>1, <1>2, MovedSame
<1>4. Placed(r, a)
  BY <1>1, <1>2, <1>3 DEF Placed
<1>5. Cleared(r, a)
  BY <1>2, <1>3, FiledFacts DEF Cleared, Past
<1>6. CheckedAsAnswered(r, a)
  BY <1>2, FiledFacts DEF CheckedAsAnswered, ChecksOf, Past
<1>7. AppSound(r, a)
  BY <1>1, <1>2, <1>3, <1>4, <1>5, <1>6 DEF AppSound
<1>8. Sound(r)
  BY <1>1, <1>2, <1>7, ActKeeps
<1> QED BY <1>8 DEF r

LEMMA DisburseSound ==
  ASSUME Portal!Assumptions, NEW s, Sound(s), NEW a \in Portal!Filed(s), s.applications[a].status = "approved"
  PROVE  Sound([Portal!Moved(s, a, "disburse", "disbursed", None) EXCEPT !.paid[a] = @ + 1])
<1> DEFINE p == s.applications[a]
           m == Portal!Moved(s, a, "disburse", "disbursed", None)
           r == [m EXCEPT !.paid[a] = @ + 1]
<1>1. a \in Applications /\ s.paid[a] = 0
  BY FiledFacts
<1>2. /\ m \in Portal!WorkflowState /\ ActsOn(s, m, a) /\ Kept(s, m)
      /\ m.answers = s.answers /\ m.checks = s.checks /\ m.paid = s.paid
      /\ m.applications[a] # None /\ m.applications[a].version = p.version
      /\ m.applications[a].status = "disbursed" /\ m.applications[a].step = None
  <2>1. /\ "disburse" \in {"submit", "resubmit", "verify", "disburse"} \cup Portal!DecisionActions
        /\ "disbursed" \in {"verifying", "submitted"} \cup Past /\ None \in Portal!Steps \cup {None}
    BY DEF Past
  <2> QED BY <2>1, MovedFacts
<1> HIDE DEF m
<1>3. /\ r \in Portal!WorkflowState
      /\ r.applications = m.applications /\ r.answers = m.answers /\ r.checks = m.checks
      /\ r.steps = m.steps /\ r.versions = m.versions /\ r.lastId = m.lastId
      /\ r.events = m.events /\ r.verifyResults = m.verifyResults
      /\ \A b \in Applications : r.paid[b] = IF b = a THEN 1 ELSE s.paid[b]
  <2>1. m.paid \in [Applications -> 0 .. 2] /\ m.paid[a] + 1 = 1 /\ 1 \in 0 .. 2
    BY <1>1, <1>2 DEF Portal!WorkflowState
  <2>2. [m.paid EXCEPT ![a] = @ + 1] = [m.paid EXCEPT ![a] = 1]
    BY <2>1
  <2>3. r = [m EXCEPT !.paid = [m.paid EXCEPT ![a] = 1]]
    BY <2>2
  <2>4. [m.paid EXCEPT ![a] = 1] \in [Applications -> 0 .. 2]
    BY <2>1
  <2>5. \A b \in Applications : [m.paid EXCEPT ![a] = 1][b] = IF b = a THEN 1 ELSE s.paid[b]
    BY <1>2, <2>1
  <2> HIDE DEF r
  <2> QED BY <1>2, <2>3, <2>4, <2>5 DEF Portal!WorkflowState
<1> HIDE DEF r
<1>4. ActsOn(s, r, a) /\ Kept(s, r)
  BY <1>2, <1>3 DEF ActsOn, Kept, ChecksOf
<1>5. /\ \A type : Portal!OfType(r, p.version, type) = Portal!OfType(s, p.version, type)
      /\ \A i, j : Portal!Before(r, i, j) <=> Portal!Before(s, i, j)
      /\ Portal!ReviewItems(r, a) = Portal!ReviewItems(s, a) /\ Pinned(r, a)
      /\ \A i : /\ PassedOnce(s, a, i) => PassedOnce(r, a, i)
                /\ ApprovedAt(s, a, i) => ApprovedAt(r, a, i)
  BY <1>2, <1>3, <1>4, MovedSame
<1>6. Placed(r, a)
  BY <1>2, <1>3 DEF Placed
<1>7. CheckedOff(r, a)
  <2>1. CheckedOff(s, a)
    BY FiledFacts DEF Cleared
  <2> QED BY <1>2, <1>3, <1>5, <2>1 DEF CheckedOff
<1>8. Cleared(r, a)
  BY <1>2, <1>3, <1>5, <1>7, FiledFacts DEF Cleared, Past
<1>9. CheckedAsAnswered(r, a)
  BY <1>2, <1>3, FiledFacts DEF CheckedAsAnswered, ChecksOf, Past
<1>10. AppSound(r, a)
  BY <1>1, <1>2, <1>3, <1>5, <1>6, <1>8, <1>9 DEF AppSound
<1>11. Sound(r)
  BY <1>1, <1>3, <1>4, <1>10, ActKeeps
<1> QED BY <1>11 DEF r, m

----------------------------------------------------------------------------
(* The tabs *)

LEMMA SeedSound == ASSUME Portal!Assumptions PROVE Sound(Portal!Seed)
<1> DEFINE n == Len(SeedTypes)
           template == CHOOSE x \in Templates : TRUE
           source == Portal!Seeded(template, 1)
           copy == Portal!Seeded(1, n + 1)
<1>1. n \in Nat /\ MaxSteps \in Nat /\ 2 * n <= MaxSteps
      /\ \A i \in 1 .. n : SeedTypes[i] \in Portal!StepTypes
  BY DEF Portal!Assumptions
<1>2. template \in Templates /\ 1 \in Portal!Versions
  BY DEF Portal!Assumptions, Portal!Versions
<1>3. ASSUME NEW owner \in Templates \cup Portal!Versions, NEW first \in Nat \ {0}, NEW i \in Portal!Steps
      PROVE  /\ Portal!Seeded(owner, first)[i] \in Portal!Step \cup {None}
             /\ Portal!Seeded(owner, first)[i] # None => i <= first + n - 1
  <2>1. CASE i \in first .. first + n - 1
    <3> DEFINE k == i - first + 1
    <3>1. k \in 1 .. n /\ k \in Portal!Steps
      BY <1>1, <2>1 DEF Portal!Steps
    <3>2. SeedTypes[k] \in Portal!StepTypes
      BY <1>1, <3>1
    <3> DEFINE type == SeedTypes[k]
               demanded == IF type = "form" THEN Keys ELSE {}
    <3>3. Portal!NewStep(owner, k, type) \in Portal!Step
      <4> HIDE DEF k
      <4> QED BY <3>1, <3>2 DEF Portal!NewStep, Portal!Step, Portal!StepTypes, Portal!DecisionActions, Portal!Assumptions
    <3>4. [Portal!NewStep(owner, k, type) EXCEPT !.fields = demanded] \in Portal!Step
      BY <3>3 DEF Portal!Step
    <3>5. Portal!Seeded(owner, first)[i] = [Portal!NewStep(owner, k, type) EXCEPT !.fields = demanded]
      BY <2>1 DEF Portal!Seeded
    <3> QED BY <1>1, <2>1, <3>4, <3>5
  <2>2. CASE i \notin first .. first + n - 1
    BY <2>2 DEF Portal!Seeded
  <2> QED BY <2>1, <2>2
<1>4. \A i \in Portal!Steps : /\ source[i] \in Portal!Step \cup {None}
                              /\ copy[i] \in Portal!Step \cup {None}
                              /\ copy[i] # None => i <= n + n
  <2>1. 1 \in Nat \ {0} /\ n + 1 \in Nat \ {0} /\ n + 1 + n - 1 = n + n
    BY <1>1
  <2> HIDE DEF n, template
  <2> QED BY <1>2, <1>3, <2>1
<1> DEFINE seeded == [i \in Portal!Steps |-> IF i <= n THEN source[i] ELSE copy[i]]
<1>5. seeded \in [Portal!Steps -> Portal!Step \cup {None}] /\ \A i \in Portal!Steps : seeded[i] # None => i <= 2 * n
  <2>1. \A i \in Portal!Steps : i \in Nat
    BY <1>1 DEF Portal!Steps
  <2>2. ASSUME NEW i \in Portal!Steps
        PROVE  seeded[i] \in Portal!Step \cup {None} /\ (seeded[i] # None => i <= 2 * n)
    <3>1. seeded[i] = IF i <= n THEN source[i] ELSE copy[i]
      OBVIOUS
    <3> HIDE DEF seeded
    <3>2. i <= n => i <= 2 * n
      BY <1>1, <2>1
    <3>3. i <= n + n => i <= 2 * n
      BY <1>1, <2>1
    <3>4. /\ source[i] \in Portal!Step \cup {None}
          /\ copy[i] \in Portal!Step \cup {None}
          /\ copy[i] # None => i <= n + n
      BY <1>4
    <3> HIDE DEF source, copy, n
    <3>5. CASE i <= n
      BY <3>1, <3>2, <3>4, <3>5
    <3>6. CASE ~(i <= n)
      BY <3>1, <3>3, <3>4, <3>6
    <3> QED BY <3>5, <3>6
  <2> HIDE DEF source, copy, n
  <2> QED BY <2>2
<1>6. /\ Portal!Seed.steps = seeded /\ Portal!Seed.lastId = 2 * n
      /\ Portal!Seed.applications = [a \in Applications |-> None]
      /\ Portal!Seed.paid = [a \in Applications |-> 0] /\ Portal!Seed.checks = {}
  BY DEF Portal!Seed
<1>7. Portal!Seed \in Portal!WorkflowState
  <2>1. 2 * n \in 0 .. MaxSteps
    BY <1>1
  <2>2. [x \in Templates |-> IF x = template THEN "published" ELSE None]
          \in [Templates -> Portal!Statuses \cup {None}]
    BY DEF Portal!Statuses
  <2>3. [v \in Portal!Versions |-> IF v = 1 THEN [program |-> 1, status |-> "published"] ELSE None]
          \in [Portal!Versions -> Portal!Version \cup {None}]
    BY <1>2 DEF Portal!Version, Portal!Statuses
  <2>4. [a \in Applications |-> [x \in Portal!Steps \X Keys |-> None]]
          \in [Applications -> [Portal!Steps \X Keys -> Values \cup {None}]]
    OBVIOUS
  <2>5. <<>> \in Seq(Portal!Result)
    OBVIOUS
  <2>6. [a \in Applications |-> 0] \in [Applications -> 0 .. 2]
    OBVIOUS
  <2> HIDE DEF seeded, n, template
  <2> QED BY <1>5, <2>1, <2>2, <2>3, <2>4, <2>5, <2>6
          DEF Portal!Seed, Portal!WorkflowState, seeded, source, copy, n, template
<1> HIDE DEF seeded, n
<1>8. Numbered(Portal!Seed)
  BY <1>5, <1>6 DEF Numbered
<1>9. \A a \in Applications : AppSound(Portal!Seed, a)
  BY <1>6 DEF AppSound, ChecksOf
<1> QED BY <1>7, <1>8, <1>9 DEF Sound

PortalInv ==
  /\ tab = [t \in Tabs |-> tab[t]]
  /\ \A t \in Tabs : Sound(tab[t])
  /\ Sound(storage)
  /\ edits \in 0 .. MaxEdits

LEMMA SaveKeeps ==
  ASSUME PortalInv, NEW t \in Tabs, NEW s, Sound(s), Portal!Save(t, s), edits' \in 0 .. MaxEdits
  PROVE  PortalInv'
<1>1. tab' = [tab EXCEPT ![t] = s] /\ storage' = s
  BY DEF Portal!Save
<1>2. tab' = [u \in Tabs |-> tab'[u]]
  BY <1>1 DEF PortalInv
<1>3. \A u \in Tabs : Sound(tab'[u])
  BY <1>1 DEF PortalInv
<1> QED BY <1>1, <1>2, <1>3 DEF PortalInv

LEMMA ApplyKeeps ==
  ASSUME PortalInv, NEW t \in Tabs, NEW s, Sound(s), Portal!Apply(t, s)
  PROVE  PortalInv'
BY SaveKeeps DEF Portal!Apply, PortalInv

LEMMA EditKeeps ==
  ASSUME Portal!Assumptions, PortalInv, edits < MaxEdits, NEW t \in Tabs, NEW s, Sound(s), Portal!Edit(t, s)
  PROVE  PortalInv'
<1>1. edits' \in 0 .. MaxEdits
  BY DEF Portal!Edit, PortalInv, Portal!Assumptions
<1> QED BY <1>1, SaveKeeps DEF Portal!Edit

LEMMA BuildStep ==
  ASSUME Portal!Assumptions, PortalInv, NEW t \in Tabs, Portal!Build(t)
  PROVE  PortalInv'
<1> DEFINE s == tab[t]
<1>0. Sound(s) /\ s \in Portal!WorkflowState
  BY DEF PortalInv, Sound
<1>1. CASE Portal!CreateTemplate(t)
  BY <1>0, <1>1, CreateTemplateSound, ApplyKeeps DEF Portal!CreateTemplate, Portal!Statuses
<1>2. CASE Portal!PublishTemplate(t)
  BY <1>0, <1>2, CreateTemplateSound, ApplyKeeps DEF Portal!PublishTemplate, Portal!Statuses
<1>3. CASE Portal!ArchiveTemplate(t)
  BY <1>0, <1>3, CreateTemplateSound, ApplyKeeps DEF Portal!ArchiveTemplate, Portal!Statuses
<1>4. CASE edits < MaxEdits /\ Portal!AddStep(t)
  <2>1. PICK owner \in Portal!Owners(s), type \in Portal!StepTypes :
           /\ Portal!Editable(s, owner)
           /\ s.lastId < MaxSteps
           /\ Portal!Edit(t, [s EXCEPT
                 !.lastId = @ + 1,
                 !.steps[s.lastId + 1] =
                    Portal!NewStep(owner, Portal!Cardinality(Portal!StepsOf(s, owner)) + 1, type)])
    BY <1>4 DEF Portal!AddStep
  <2> HIDE DEF s
  <2>2. Sound([s EXCEPT
                 !.lastId = @ + 1,
                 !.steps[s.lastId + 1] =
                    Portal!NewStep(owner, Portal!Cardinality(Portal!StepsOf(s, owner)) + 1, type)])
    BY <1>0, <2>1, AddStepSound
  <2> QED BY <1>4, <2>1, <2>2, EditKeeps
<1>5. CASE edits < MaxEdits /\ Portal!UpdateStep(t)
  BY <1>0, <1>5, EditSound, EditKeeps DEF Portal!UpdateStep
<1>6. CASE edits < MaxEdits /\ Portal!MoveStep(t)
  BY <1>0, <1>6, MoveStepSound, EditKeeps DEF Portal!MoveStep
<1>7. CASE edits < MaxEdits /\ Portal!RemoveStep(t)
  BY <1>0, <1>7, EditSound, EditKeeps DEF Portal!RemoveStep
<1>8. CASE edits < MaxEdits /\ Portal!EditFields(t)
  BY <1>0, <1>8, EditSound, EditKeeps DEF Portal!EditFields
<1>9. CASE edits < MaxEdits /\ Portal!SetActionEnabled(t)
  BY <1>0, <1>9, EditSound, EditKeeps DEF Portal!SetActionEnabled
<1>10. CASE Portal!CreateProgram(t)
  <2>1. PICK v \in Portal!Versions :
           /\ Portal!NextVersion(s, v)
           /\ \/ Portal!Apply(t, [s EXCEPT !.versions[v] = Portal!Draft(v)])
              \/ \E n \in Templates :
                    /\ s.templates[n] = "published"
                    /\ s.lastId + Portal!Cardinality(Portal!StepsOf(s, n)) <= MaxSteps
                    /\ Portal!Apply(t, Portal!Copied([s EXCEPT !.versions[v] = Portal!Draft(v)], n, v))
    BY <1>10 DEF Portal!CreateProgram
  <2> HIDE DEF s
  <2>2. s.versions[v] = None
    BY <2>1 DEF Portal!NextVersion
  <2>3. Sound([s EXCEPT !.versions[v] = Portal!Draft(v)])
    BY <1>0, <2>2, BlankSound
  <2>4. \A n \in Templates :
          s.lastId + Portal!Cardinality(Portal!StepsOf(s, n)) <= MaxSteps =>
            Sound(Portal!Copied([s EXCEPT !.versions[v] = Portal!Draft(v)], n, v))
    BY <1>0, <2>2, DraftSound
  <2> QED BY <2>1, <2>3, <2>4, ApplyKeeps
<1>11. CASE Portal!CreateDraftFromPublished(t)
  <2>1. PICK v \in Portal!Versions, w \in Portal!Versions :
           /\ Portal!NextVersion(s, v)
           /\ s.versions[w] # None
           /\ s.versions[w].status = "published"
           /\ Portal!Draft(s.versions[w].program) \notin {s.versions[x] : x \in Portal!Versions}
           /\ s.lastId + Portal!Cardinality(Portal!StepsOf(s, w)) <= MaxSteps
           /\ Portal!Apply(t, Portal!Copied([s EXCEPT !.versions[v] = Portal!Draft(s.versions[w].program)], w, v))
    BY <1>11 DEF Portal!CreateDraftFromPublished
  <2>2. s.versions[w].program \in Portal!Versions /\ s.versions[v] = None
    BY <1>0, <2>1 DEF Portal!WorkflowState, Portal!Version, Portal!NextVersion
  <2>3. Sound(Portal!Copied([s EXCEPT !.versions[v] = Portal!Draft(s.versions[w].program)], w, v))
    BY <1>0, <2>1, <2>2, DraftSound
  <2> QED BY <2>1, <2>3, ApplyKeeps
<1>12. CASE Portal!PublishVersion(t)
  BY <1>0, <1>12, PublishVersionSound, ApplyKeeps DEF Portal!PublishVersion
<1> QED BY <1>1, <1>2, <1>3, <1>4, <1>5, <1>6, <1>7, <1>8, <1>9, <1>10, <1>11, <1>12 DEF Portal!Build

LEMMA RunStep ==
  ASSUME Portal!Assumptions, PortalInv, NEW t \in Tabs, Portal!Run(t)
  PROVE  PortalInv'
<1> DEFINE s == tab[t]
<1>0. Sound(s)
  BY DEF PortalInv
<1>1. CASE Portal!StartApplication(t)
  BY <1>0, <1>1, StartSound, ApplyKeeps DEF Portal!StartApplication
<1>2. CASE Portal!SetAnswer(t)
  BY <1>0, <1>2, SetAnswerSound, ApplyKeeps DEF Portal!SetAnswer
<1>3. CASE Portal!Submit(t)
  BY <1>0, <1>3, AdvanceSound, ApplyKeeps DEF Portal!Submit
<1>4. CASE Portal!Resubmit(t)
  BY <1>0, <1>4, ResubmitSound, ApplyKeeps DEF Portal!Resubmit
<1>5. CASE Portal!Verify(t)
  BY <1>0, <1>5, VerifySound, ApplyKeeps DEF Portal!Verify
<1>6. CASE Portal!SetReviewVerdict(t)
  BY <1>0, <1>6, VerdictSound, ApplyKeeps DEF Portal!SetReviewVerdict
<1>7. CASE Portal!Decide(t)
  <2>1. PICK a \in Portal!Filed(s), u \in Users, action \in Portal!DecisionActions :
           /\ Portal!Allowed(s, a, u, action)
           /\ Portal!Apply(t, CASE action = "approve" -> Portal!Approved(s, a)
                         [] action = "return" ->
                               Portal!Moved(s, a, "return", "returned", s.applications[a].step)
                         [] action = "reject" ->
                               Portal!Moved(s, a, "reject", "rejected", s.applications[a].step))
    BY <1>7 DEF Portal!Decide
  <2>2. /\ s.applications[a].status = "submitted"
        /\ action = "approve" => Portal!ReviewComplete(s, a, s.applications[a].step)
    BY <2>1 DEF Portal!Allowed
  <2>3. CASE action = "approve"
    BY <1>0, <2>1, <2>2, <2>3, ApproveSound, ApplyKeeps
  <2>4. CASE action = "return"
    BY <1>0, <2>1, <2>2, <2>4, TurnedDownSound, ApplyKeeps
  <2>5. CASE action = "reject"
    BY <1>0, <2>1, <2>2, <2>5, TurnedDownSound, ApplyKeeps
  <2> QED BY <2>3, <2>4, <2>5 DEF Portal!DecisionActions
<1>8. CASE Portal!Disburse(t)
  BY <1>0, <1>8, DisburseSound, ApplyKeeps DEF Portal!Disburse
<1> QED BY <1>1, <1>2, <1>3, <1>4, <1>5, <1>6, <1>7, <1>8 DEF Portal!Run

LEMMA PortalStep == ASSUME Portal!Assumptions, PortalInv, [Portal!Next]_(Portal!vars) PROVE PortalInv'
<1>1. CASE UNCHANGED Portal!vars
  BY <1>1 DEF PortalInv, Portal!vars
<1>2. ASSUME NEW t \in Tabs, Portal!Hydrate(t) PROVE PortalInv'
  <2>1. tab' = [tab EXCEPT ![t] = storage] /\ storage' = storage /\ edits' = edits
    BY <1>2 DEF Portal!Hydrate
  <2>2. tab' = [u \in Tabs |-> tab'[u]] /\ \A u \in Tabs : Sound(tab'[u])
    BY <2>1 DEF PortalInv
  <2> QED BY <2>1, <2>2 DEF PortalInv
<1>3. ASSUME NEW t \in Tabs, Portal!ResetAll(t) PROVE PortalInv'
  BY <1>3, SeedSound, ApplyKeeps DEF Portal!ResetAll
<1> QED BY <1>1, <1>2, <1>3, BuildStep, RunStep DEF Portal!Next

LEMMA PortalInit == ASSUME Portal!Assumptions, Portal!Init PROVE PortalInv
<1>1. edits \in 0 .. MaxEdits
  BY DEF Portal!Init, Portal!Assumptions
<1> QED BY <1>1, SeedSound DEF Portal!Init, PortalInv

\* In every tab of the portal, and at whatever point of whoever's work, the store
\* is sound: the steps of every version are numbered apart, no published version
\* was changed since, and every application stands where its pinned version and
\* its reviews say (store.tsx, engine.ts).
THEOREM PortalHolds == ASSUME Portal!Assumptions PROVE Portal!Spec => []PortalInv
BY PortalInit, PortalStep, PTL DEF Portal!Spec

LEMMA PortalTyped == PortalInv => Portal!TypeOK
BY DEF PortalInv, Portal!TypeOK, Portal!Held, Sound

\* What the storage and the tabs hold has its shape in every reachable state.
THEOREM PortalTypeCorrect == ASSUME Portal!Assumptions PROVE Portal!Spec => []Portal!TypeOK
BY PortalTyped, PortalHolds, PTL

LEMMA SoundAtAStep ==
  ASSUME Portal!Assumptions, PortalInv
  PROVE  Portal!AtAStepOfItsVersion
<1> SUFFICES ASSUME NEW s, Sound(s), NEW a \in Portal!Filed(s)
             PROVE  LET p == s.applications[a]
                        at == {type \in Portal!StepTypes :
                                  \E i \in Portal!StepsOf(s, p.version) :
                                      i = p.step /\ s.steps[i].type = type} IN
                    CASE p.status = "draft" -> p.step = None
                      [] p.status = "verifying" -> at = {"verify"} /\ Portal!Valid(s, a)
                      [] p.status \in {"submitted", "rejected"} ->
                            at = {"review"} /\ Portal!Valid(s, a)
                      [] p.status = "returned" -> at = {"review"}
                      [] p.status = "approved" ->
                            at = {"disbursement"} \/ p.step = None
                      [] p.status = "disbursed" -> p.step = None
  BY DEF Portal!AtAStepOfItsVersion, PortalInv, Portal!Held
<1> DEFINE p == s.applications[a]
           at == {type \in Portal!StepTypes :
                     \E i \in Portal!StepsOf(s, p.version) : i = p.step /\ s.steps[i].type = type}
<1>1. ASSUME NEW type \in Portal!StepTypes, p.step \in Portal!OfType(s, p.version, type) PROVE at = {type}
  BY <1>1 DEF Portal!OfType
<1>2. Placed(s, a) /\ p \in Portal!Application
  BY FiledFacts
<1> HIDE DEF at
<1>3. p.status = "draft" => p.step = None
  BY <1>2 DEF Placed
<1>4. p.status = "verifying" => at = {"verify"} /\ Portal!Valid(s, a)
  BY <1>1, <1>2 DEF Placed, Portal!StepTypes
<1>5. p.status \in {"submitted", "returned", "rejected"} => at = {"review"}
  BY <1>1, <1>2 DEF Placed, Portal!StepTypes
<1>6. p.status \in {"submitted", "rejected"} => Portal!Valid(s, a)
  BY <1>2 DEF Placed
<1>7. p.status = "approved" => at = {"disbursement"} \/ p.step = None
  BY <1>1, <1>2 DEF Placed, Portal!StepTypes
<1>8. p.status = "disbursed" => p.step = None
  BY <1>2 DEF Placed
<1>9. p.status \in {"draft", "verifying", "submitted", "returned", "approved",
                    "disbursed", "rejected"}
  BY <1>2 DEF Portal!Application
<1> QED BY <1>3, <1>4, <1>5, <1>6, <1>7, <1>8, <1>9 DEF at

LEMMA SoundApproved ==
  ASSUME Portal!Assumptions, PortalInv
  PROVE  Portal!ApprovedAsVerified
<1> SUFFICES ASSUME NEW s \in Portal!Held, NEW a \in Portal!Filed(s)
             PROVE  LET p == s.applications[a]
                        rounds == Portal!OfType(s, p.version, "review") IN
                    /\ s.paid[a] = IF p.status = "disbursed" THEN 1 ELSE 0
                    /\ p.status \in {"approved", "disbursed"} =>
                          /\ \A i \in Portal!StepsOf(s, p.version) :
                                /\ s.steps[i].type = "verify" =>
                                      \E n \in 1 .. Len(s.verifyResults) :
                                          s.verifyResults[n] =
                                              [app |-> a, step |-> i, passed |-> TRUE]
                                /\ s.steps[i].type = "review" =>
                                      \E e \in s.events :
                                          e.app = a /\ e.action = "approve" /\ e.from = i
                          /\ \A x \in Portal!ReviewItems(s, a) :
                                \E c \in s.checks :
                                    /\ c.app = a /\ c.item = x
                                    /\ c.step \in rounds
                                    /\ ~\E i \in rounds : Portal!Before(s, c.step, i)
                                    /\ c.verdict = "approved"
                                    /\ c.seen = s.answers[a][x]
  BY DEF Portal!ApprovedAsVerified
<1>0. Sound(s)
  BY DEF PortalInv, Portal!Held
<1> DEFINE p == s.applications[a]
<1>1. Cleared(s, a) /\ s.paid[a] = IF p.status = "disbursed" THEN 1 ELSE 0
  BY <1>0, FiledFacts
<1>2. ASSUME p.status \in {"approved", "disbursed"}
      PROVE  /\ \A i \in Portal!OfType(s, p.version, "verify") : PassedOnce(s, a, i)
             /\ \A i \in Portal!OfType(s, p.version, "review") : ApprovedAt(s, a, i)
             /\ CheckedOff(s, a)
  BY <1>1, <1>2 DEF Cleared, Past
<1> QED BY <1>1, <1>2 DEF Portal!OfType, PassedOnce, ApprovedAt, CheckedOff

=============================================================================
