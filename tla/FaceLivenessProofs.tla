------------------------ MODULE FaceLivenessProofs ------------------------
(***************************************************************************)
(* What is proved of FaceLiveness: nobody is logged in without a face      *)
(* check somebody saw, and as long as answers arrive the outcome the phone *)
(* is about to enrol with is the one the backend will find.                *)
(***************************************************************************)
EXTENDS FaceLiveness, TLAPS

\* Somebody was in front of the camera, or the provider saw somebody.
Present(s) ==
  IF row[s].source = "sdk"
  THEN \E k \in 1 .. MaxCaptures : captured[k] = s
  ELSE provider[s] \in {"HIGH", "LOW"}

\* A call, by how far the backend is with it.
CallFits(c) ==
  /\ c.kind = "create" => c.label \in {"create", "ok"}
  /\ c.kind = "bind" => c.label \in {"find", "save", "ok", "failed"}
  /\ c.label = "create" => c.kind = "create"
  /\ c.label \in {"touch", "record"} => c.kind = "complete"
  /\ c.label = "query" => c.kind = "enrol"
  /\ IF c.label = "create" THEN c.session = None ELSE c.session \in Made

\* What it has read is of the session, and a session passes that somebody was
\* present in.
CallKnows(c) ==
  /\ c.kind = "bind" =>
       /\ c.capture \in 1 .. MaxCaptures /\ captured[c.capture] = c.session
       /\ row[c.session].source = "sdk"
  /\ c.label = "result" =>
       c.row \in Row /\ c.row.source = "api" /\ row[c.session].source = "api"
  /\ c.label = "save" =>
       /\ c.row \in Row /\ c.row.source = row[c.session].source
       /\ c.status \in Status
       /\ c.status \in {"HIGH", "LOW"} => Present(c.session)
       /\ c.row.source = "api" /\ c.status # "CREATED" => provider[c.session] = c.status
  /\ c.label \in {"touch", "record"} => Present(c.session)
  /\ c.kind = "complete" /\ c.label = "ok" => c.session \in recorded
  /\ c.kind = "enrol" => recorded # {}

Good(c) == CallFits(c) /\ CallKnows(c)

CallsOK == \A n \in Sent : Good(call[n])

PhoneOK ==
  /\ phone.session # None => phone.session \in Made
  /\ phone.passed # None => phone.passed \in Made
  /\ phone.screen = "camera" => phone.session # None

RowsOK ==
  /\ recorded \subseteq Made
  /\ \A s \in Made : row[s].source = "sdk" /\ row[s].status = "HIGH" => Present(s)

FaceInv == TypeOK /\ CallsOK /\ PhoneOK /\ RowsOK /\ PresenceBeforeSession

\* the calls that make, bind and verify a session, and those that use it
Holds(n, s) == n \in Sent /\ call[n].session = s /\ call[n].kind \in {"create", "bind", "verify"}
Uses(n, s)  == n \in Sent /\ call[n].session = s /\ call[n].kind \in {"complete", "enrol"}

\* A check that passed with a capture, for good
Settled(s, k) ==
  /\ row[s].status = "HIGH" /\ row[s].capture = k
  /\ row[s].source = "api" => provider[s] = "HIGH"

\* One call at a time makes, binds or verifies a session; the phone waits for
\* it while the session is on the screen.
OneHolder ==
  \A s \in Sessions, n \in Calls : Holds(n, s) =>
    /\ \A m \in Calls : Holds(m, s) => m = n
    /\ phone.session = s => n \in waiting /\ call[n].kind # "create"

\* A session that is used is not bound or verified any more.
UsedAlone ==
  \A s \in Sessions : phone.passed = s \/ (\E n \in Calls : Uses(n, s)) =>
    phone.session # s /\ \A n \in Calls : ~Holds(n, s)

\* What the onboarding uses is settled, and so is what is about to be used.
PassedSettled ==
  /\ phone.at = "onboarding" /\ phone.passed # None =>
       /\ Settled(phone.passed, phone.capture)
       /\ \A n \in Calls : Uses(n, phone.passed) =>
            /\ call[n].kind = "enrol" /\ call[n].capture = phone.capture
            /\ call[n].label = "save" => call[n].status = "HIGH"
  /\ \A n \in Sent : call[n].kind = "verify" /\ call[n].label = "ok" =>
       Settled(call[n].session, call[n].capture)

ReliableInv == OneHolder /\ UsedAlone /\ PassedSettled

Inv == FaceInv /\ (mode = "reliable" => ReliableInv)

----------------------------------------------------------------------------
(* What no step takes back *)

\* A session keeps its source, the provider its result, a capture its session.
Grow ==
  /\ \A s \in Made : s \in Made' /\ row'[s].source = row[s].source
  /\ \A s \in Made : provider[s] # "CREATED" => provider'[s] = provider[s]
  /\ \A k \in 1 .. MaxCaptures : captured[k] # None => captured'[k] = captured[k]
  /\ recorded \subseteq recorded'

LEMMA PresentKept ==
  ASSUME Assumptions, TypeOK, Grow, NEW s \in Made, Present(s)
  PROVE  Present(s)'
<1>1. s \in Sessions /\ row'[s].source = row[s].source
  BY DEF Grow, Made
<1>2. CASE row[s].source = "sdk"
  <2>1. PICK k \in 1 .. MaxCaptures : captured[k] = s
    BY <1>2 DEF Present
  <2>2. captured'[k] = s
    BY <1>1, <2>1 DEF Grow, Assumptions
  <2> QED  BY <1>1, <1>2, <2>2 DEF Present
<1>3. CASE row[s].source # "sdk"
  BY <1>1, <1>3 DEF Present, Grow
<1> QED  BY <1>2, <1>3

LEMMA GoodKept ==
  ASSUME Assumptions, TypeOK, Grow, NEW c \in Call, Good(c)
  PROVE  Good(c)'
<1>1. CallFits(c)'
  BY DEF Good, CallFits, Grow
<1>2. ASSUME c.label # "create"  PROVE  c.session \in Made /\ c.session \in Sessions
  BY <1>2 DEF Good, CallFits, Made
<1>3. (c.kind = "bind" => c.label # "create")
  BY DEF Good, CallFits
<1>4. ASSUME c.label # "create", Present(c.session)  PROVE  Present(c.session)'
  BY <1>2, <1>4, PresentKept
<1>5. c.kind = "bind" => /\ c.capture \in 1 .. MaxCaptures
                         /\ captured'[c.capture] = c.session
                         /\ row'[c.session].source = "sdk"
  BY <1>2, <1>3 DEF Good, CallKnows, Grow, Assumptions
<1>6. c.label = "result" =>
        c.row \in Row /\ c.row.source = "api" /\ row'[c.session].source = "api"
  BY <1>2 DEF Good, CallKnows, Grow
<1>7. c.label = "save" =>
        /\ c.row \in Row /\ c.row.source = row'[c.session].source
        /\ c.status \in Status
        /\ c.status \in {"HIGH", "LOW"} => Present(c.session)'
        /\ c.row.source = "api" /\ c.status # "CREATED" => provider'[c.session] = c.status
  BY <1>2, <1>4 DEF Good, CallKnows, Grow
<1>8. c.label \in {"touch", "record"} => Present(c.session)'
  BY <1>4 DEF Good, CallKnows
<1>9. /\ c.kind = "complete" /\ c.label = "ok" => c.session \in recorded'
      /\ c.kind = "enrol" => recorded' # {}
  BY DEF Good, CallKnows, Grow
<1> QED  BY <1>1, <1>5, <1>6, <1>7, <1>8, <1>9 DEF Good, CallKnows

\* The calls a step leaves alone or forgets stay what they are.
LEMMA CallsKept ==
  ASSUME Assumptions, TypeOK, CallsOK, Grow,
         \A m \in Calls : call'[m] = call[m] \/ call'[m] = None \/ Good(call[m])'
  PROVE  CallsOK'
<1> SUFFICES ASSUME NEW m \in Calls, call'[m] # None  PROVE  Good(call[m])'
  BY DEF CallsOK, Sent
<1>1. CASE Good(call[m])'
  BY <1>1
<1>2. CASE call'[m] = call[m]
  <2>1. PICK c \in Call : c = call[m]
    BY <1>2 DEF TypeOK
  <2>2. Good(c)
    BY <1>2, <2>1 DEF CallsOK, Sent
  <2>3. Good(c)'
    BY <2>2, GoodKept
  <2>4. c = call'[m]
    BY <1>2, <2>1
  <2> QED  BY <2>3, <2>4 DEF Good, CallFits, CallKnows, Present
<1> QED  BY <1>1, <1>2

\* So do the calls before a new one.
LEMMA SendGood ==
  ASSUME Assumptions, TypeOK, CallsOK, Grow,
         NEW kind, NEW label, NEW s, NEW c, Send(kind, label, s, c),
         Good(NewCall(kind, label, s, c))'
  PROVE  CallsOK'
<1>1. PICK n \in Calls \ Sent : call' = [call EXCEPT ![n] = NewCall(kind, label, s, c)]
  BY DEF Send
<1>2. PICK x : x = NewCall(kind, label, s, c)
  OBVIOUS
<1>3. Good(x)'
  BY <1>2
<1>4. call'[n] = x
  BY <1>1, <1>2 DEF TypeOK
<1>5. Good(call[n])'
  BY <1>3, <1>4 DEF Good, CallFits, CallKnows, Present
<1>6. \A m \in Calls : m # n => call'[m] = call[m]
  BY <1>1 DEF TypeOK
<1> QED  BY <1>5, <1>6, CallsKept

LEMMA StepGood ==
  ASSUME Assumptions, TypeOK, CallsOK, Grow,
         NEW n \in Calls, NEW x \in Call, Step(n, x), Good(x)'
  PROVE  CallsOK'
<1>1. \A m \in Calls : m # n => call'[m] = call[m]
  BY DEF Step, TypeOK
<1>2. call'[n] = x \/ call'[n] = None
  BY DEF Step, TypeOK
<1>3. call'[n] = x => Good(call[n])'
  BY DEF Good, CallFits, CallKnows, Present
<1> QED  BY <1>1, <1>2, <1>3, CallsKept

LEMMA ForgottenGood ==
  ASSUME Assumptions, TypeOK, CallsOK, Grow, NEW W, call' = Forgotten(W)
  PROVE  CallsOK'
<1>1. \A m \in Calls : call'[m] = call[m] \/ call'[m] = None
  BY DEF Forgotten
<1> QED  BY <1>1, CallsKept

----------------------------------------------------------------------------
(* Types *)

CallTypes == call \in [Calls -> Call \cup {None}] /\ waiting \subseteq Sent

LEMMA SendType ==
  ASSUME Assumptions, TypeOK,
         NEW kind \in {"create", "bind", "verify", "complete", "enrol"},
         NEW label \in {"create", "find"},
         NEW s \in Sessions \cup {None}, NEW c \in 0 .. MaxCaptures,
         Send(kind, label, s, c)
  PROVE  CallTypes' /\ NewCall(kind, label, s, c) \in Call
<1>1. PICK x : x = NewCall(kind, label, s, c)
  OBVIOUS
<1>2. x \in Call
  BY <1>1 DEF NewCall, Call
<1>3. x # None
  BY <1>2 DEF Assumptions
<1>4. PICK n \in Calls \ Sent :
        call' = [call EXCEPT ![n] = x] /\ waiting' = waiting \cup {n}
  BY <1>1 DEF Send
<1>5. call' \in [Calls -> Call \cup {None}]
  BY <1>2, <1>4 DEF TypeOK
<1>6. call'[n] # None /\ \A m \in Calls : m # n => call'[m] = call[m]
  BY <1>3, <1>4 DEF TypeOK
<1>7. waiting' \subseteq Sent'
  BY <1>4, <1>6 DEF TypeOK, Sent
<1> QED  BY <1>1, <1>2, <1>5, <1>7 DEF CallTypes

LEMMA StepType ==
  ASSUME Assumptions, TypeOK, NEW n \in Sent, NEW x \in Call, Step(n, x)
  PROVE  CallTypes'
<1>1. x # None /\ n \in Calls
  BY DEF Assumptions, Sent
<1>2. call' \in [Calls -> Call \cup {None}] /\ waiting' = waiting
  BY DEF Step, TypeOK
<1>3. n \in waiting => call'[n] = x
  BY <1>1 DEF Step, TypeOK
<1>4. \A m \in Calls : m # n => call'[m] = call[m]
  BY <1>1 DEF Step, TypeOK
<1>5. waiting' \subseteq Sent'
  BY <1>1, <1>2, <1>3, <1>4 DEF TypeOK, Sent
<1> QED  BY <1>2, <1>5 DEF CallTypes

LEMMA ForgottenType ==
  ASSUME Assumptions, TypeOK, NEW W, call' = Forgotten(W),
         waiting' = waiting \ W \/ waiting' = {}
  PROVE  CallTypes'
<1>1. call' \in [Calls -> Call \cup {None}]
  BY DEF Forgotten, TypeOK
<1>2. \A m \in Calls \ W : call'[m] = call[m]
  BY DEF Forgotten
<1>3. waiting' \subseteq Sent'
  BY <1>2 DEF TypeOK, Sent
<1> QED  BY <1>1, <1>3 DEF CallTypes

\* A call of the backend, with what a step knows of it.
LEMMA CallRead ==
  ASSUME Assumptions, TypeOK, CallsOK, NEW n \in Sent
  PROVE  n \in Calls /\ call[n] \in Call /\ Good(call[n])
BY DEF TypeOK, CallsOK, Sent

LEMMA PhoneTypes ==
  ASSUME Assumptions, TypeOK, NEW s \in Sessions \cup {None},
         NEW c \in 0 .. MaxCaptures
  PROVE  /\ Closed \in Phone
         /\ Popped(s, c) \in Phone
         /\ \A b \in BOOLEAN : [phone EXCEPT !.handled = b] \in Phone
         /\ \A z \in {"closed", "loading", "error", "camera"} :
              [phone EXCEPT !.screen = z] \in Phone
         /\ \A z \in {"login", "onboarding", "home"} :
              [phone EXCEPT !.passed = None, !.capture = 0, !.at = z] \in Phone
         /\ [phone EXCEPT !.screen = "loading", !.handled = FALSE] \in Phone
         /\ [phone EXCEPT !.screen = "camera", !.session = s] \in Phone
         /\ [phone EXCEPT !.at = "login", !.passed = None, !.capture = 0] \in Phone
         /\ [phone EXCEPT !.passed = None, !.capture = 0] \in Phone
         /\ [Closed EXCEPT !.passed = None, !.capture = 0] \in Phone
<1> USE DEF Phone, Assumptions, TypeOK
<1>0. 0 \in 0 .. MaxCaptures /\ None \in Sessions \cup {None}
  OBVIOUS
<1>1. Closed \in Phone
  BY DEF Closed
<1>2. Popped(s, c) \in Phone
  BY <1>1 DEF Popped
<1>3. \A b \in BOOLEAN : [phone EXCEPT !.handled = b] \in Phone
  OBVIOUS
<1>4. \A z \in {"closed", "loading", "error", "camera"} :
        [phone EXCEPT !.screen = z] \in Phone
  OBVIOUS
<1>5. \A z \in {"login", "onboarding", "home"} :
        [phone EXCEPT !.passed = None, !.capture = 0, !.at = z] \in Phone
  BY <1>0
<1>6. /\ [phone EXCEPT !.screen = "loading", !.handled = FALSE] \in Phone
      /\ [phone EXCEPT !.screen = "camera", !.session = s] \in Phone
  BY <1>0
<1>7. /\ [phone EXCEPT !.at = "login", !.passed = None, !.capture = 0] \in Phone
      /\ [phone EXCEPT !.passed = None, !.capture = 0] \in Phone
  BY <1>0
<1>8. [Closed EXCEPT !.passed = None, !.capture = 0] \in Phone
  BY <1>0, <1>1
<1> QED  BY <1>1, <1>2, <1>3, <1>4, <1>5, <1>6, <1>7, <1>8

LEMMA AcceptType ==
  ASSUME Assumptions, TypeOK, NEW c \in Call, Accept(c)
  PROVE  phone' \in Phone
<1>1. c.kind \in {"create", "bind", "verify", "complete", "enrol"}
      /\ c.session \in Sessions \cup {None} /\ c.capture \in 0 .. MaxCaptures
  BY DEF Call
<1>2. CASE c.kind = "create"
  BY <1>1, <1>2, PhoneTypes DEF Accept
<1>3. CASE (c.kind = "bind" /\ phone.at = "login") \/ c.kind = "verify"
  BY <1>1, <1>3, PhoneTypes DEF Accept
<1>4. CASE c.kind = "bind" /\ phone.at # "login"
  BY <1>4 DEF Accept, TypeOK
<1>5. CASE c.kind = "complete"
  BY <1>1, <1>5, PhoneTypes DEF Accept
<1>6. CASE c.kind = "enrol"
  BY <1>1, <1>6, PhoneTypes DEF Accept
<1> QED  BY <1>1, <1>2, <1>3, <1>4, <1>5, <1>6

LEMMA ReportType ==
  ASSUME Assumptions, TypeOK, NEW c \in Call, Report(c)
  PROVE  phone' \in Phone
<1>1. c.kind \in {"create", "bind", "verify", "complete", "enrol"}
      /\ None \in Sessions \cup {None} /\ 0 \in 0 .. MaxCaptures
  BY DEF Call, Assumptions
<1>2. CASE c.kind = "create"
  BY <1>1, <1>2, PhoneTypes DEF Report
<1>3. CASE c.kind \in {"bind", "verify"}
  BY <1>1, <1>3, PhoneTypes DEF Report
<1>4. CASE c.kind = "complete"
  BY <1>1, <1>4, PhoneTypes DEF Report
<1>5. CASE c.kind = "enrol"
  BY <1>5 DEF Report, TypeOK
<1> QED  BY <1>1, <1>2, <1>3, <1>4, <1>5

----------------------------------------------------------------------------
(* The steps of the phone *)

LEMMA BackendStays ==
  ASSUME Assumptions, TypeOK, UNCHANGED backend
  PROVE  Grow
BY DEF backend, Grow, Made

LEMMA PresenceKept ==
  ASSUME Assumptions, FaceInv, TypeOK', Grow,
         phone'.at # "login" => recorded' # {},
         \A s \in recorded' \ recorded : Present(s)'
  PROVE  PresenceBeforeSession'
<1>1. ASSUME NEW s \in recorded'  PROVE  Present(s)'
  <2>1. CASE s \in recorded
    <3>1. s \in Made /\ Present(s)
      BY <2>1 DEF FaceInv, RowsOK, PresenceBeforeSession, Present
    <3> QED  BY <3>1, PresentKept DEF FaceInv
  <2>2. CASE s \notin recorded
    BY <1>1, <2>2
  <2> QED  BY <2>1, <2>2
<1> QED  BY <1>1 DEF PresenceBeforeSession, Present

LEMMA PhoneStep ==
  ASSUME Assumptions, FaceInv, UNCHANGED <<backend, mode>>,
         CallTypes', CallsOK', phone' \in Phone, PhoneOK',
         phone'.at # "login" => recorded # {}
  PROVE  FaceInv'
<1>1. TypeOK'
  BY DEF FaceInv, TypeOK, backend, CallTypes
<1>2. Grow
  BY BackendStays DEF FaceInv
<1>3. RowsOK'
  BY DEF FaceInv, RowsOK, Made, Present, backend
<1>4. recorded' = recorded
  BY DEF backend
<1>5. PresenceBeforeSession'
  BY <1>1, <1>2, <1>4, PresenceKept
<1> QED  BY <1>1, <1>3, <1>5 DEF FaceInv

\* The phone sends a call about a session that is there, or about none.
LEMMA SendStep ==
  ASSUME Assumptions, FaceInv, UNCHANGED <<backend, mode>>,
         NEW kind, NEW label, NEW s \in Sessions \cup {None},
         NEW c \in 0 .. MaxCaptures, Send(kind, label, s, c),
         \/ kind = "create" /\ label = "create" /\ s = None
         \/ kind \in {"verify", "complete", "enrol"} /\ label = "find" /\ s \in Made,
         kind = "enrol" => recorded # {}
  PROVE  CallTypes' /\ CallsOK'
<1>1. Grow
  BY BackendStays DEF FaceInv
<1>2. CallTypes' /\ NewCall(kind, label, s, c) \in Call
  BY SendType DEF FaceInv
<1>3. Good(NewCall(kind, label, s, c))'
  BY <1>1 DEF Good, CallFits, CallKnows, NewCall, Grow
<1>4. CallsOK'
  BY <1>1, <1>3, SendGood DEF FaceInv
<1> QED  BY <1>2, <1>4

LEMMA BootstrapStep ==
  ASSUME Assumptions, FaceInv, Bootstrap
  PROVE  FaceInv'
<1>0. None \in Sessions \cup {None} /\ 0 \in 0 .. MaxCaptures
  BY DEF Assumptions
<1>1. CallTypes' /\ CallsOK'
  BY <1>0, SendStep DEF Bootstrap
<1>2. phone' \in Phone
  BY <1>0, PhoneTypes DEF Bootstrap, FaceInv
<1>3. /\ phone'.at = phone.at /\ phone'.session = phone.session
      /\ phone'.passed = phone.passed /\ phone'.screen = "loading"
  BY DEF Bootstrap, FaceInv, TypeOK, Phone
<1>4. PhoneOK'
  BY <1>3 DEF PhoneOK, FaceInv, Bootstrap, backend, Made
<1>5. phone'.at # "login" => recorded # {}
  BY <1>3 DEF FaceInv, PresenceBeforeSession
<1> QED  BY <1>1, <1>2, <1>4, <1>5, PhoneStep DEF Bootstrap

\* The phone closes the screen: it waits for nothing.
LEMMA CloseStep ==
  ASSUME Assumptions, FaceInv, UNCHANGED <<backend, mode>>,
         waiting' = {}, call' = Forgotten(waiting),
         NEW s \in Made \cup {None}, NEW c \in 0 .. MaxCaptures,
         \/ phone' = Closed
         \/ phone' = Popped(s, c)
         \/ phone' = [Closed EXCEPT !.passed = None, !.capture = 0]
  PROVE  FaceInv'
<1>0. s \in Sessions \cup {None}
  BY DEF Made
<1>1. CallTypes'
  BY ForgottenType DEF FaceInv
<1>2. CallsOK'
  BY BackendStays, ForgottenGood DEF FaceInv
<1>3. phone' \in Phone
  BY <1>0, PhoneTypes DEF FaceInv
<1>4. /\ phone'.at = phone.at /\ phone'.session = None
      /\ phone'.passed \in {phone.passed, s, None} /\ phone'.screen = "closed"
  BY DEF Closed, Popped, FaceInv, TypeOK, Phone
<1>5. PhoneOK'
  BY <1>4 DEF PhoneOK, FaceInv, backend, Made
<1>6. phone'.at # "login" => recorded # {}
  BY <1>4 DEF FaceInv, PresenceBeforeSession
<1> QED  BY <1>1, <1>2, <1>3, <1>5, <1>6, PhoneStep

LEMMA CancelStep ==
  ASSUME Assumptions, FaceInv, Cancel \/ Kill
  PROVE  FaceInv'
<1>1. None \in Made \cup {None} /\ 0 \in 0 .. MaxCaptures
  BY DEF Assumptions
<1>2. CASE Cancel
  BY <1>1, <1>2, CloseStep DEF Cancel
<1>3. CASE Kill
  BY <1>1, <1>3, CloseStep DEF Kill
<1> QED  BY <1>2, <1>3

LEMMA PressVerifyStep ==
  ASSUME Assumptions, FaceInv, PressVerify
  PROVE  FaceInv'
<1>1. PICK s : s = phone.session
  OBVIOUS
<1>2. s \in Made /\ s \in Sessions /\ 0 \in 0 .. MaxCaptures
  BY <1>1 DEF PressVerify, FaceInv, PhoneOK, Made, Assumptions
<1>3. CASE phone.at = "login"
  <2>1. phone' = Popped(s, 0) /\ waiting' = {} /\ call' = Forgotten(waiting)
        /\ UNCHANGED <<backend, mode>>
    BY <1>1, <1>3 DEF PressVerify
  <2> QED  BY <1>2, <2>1, CloseStep
<1>4. CASE phone.at # "login"
  <2>1. Send("verify", "find", s, 0) /\ phone' = phone /\ UNCHANGED <<backend, mode>>
    BY <1>1, <1>4 DEF PressVerify
  <2>2. CallTypes' /\ CallsOK'
    BY <1>2, <2>1, SendStep
  <2>3. phone' \in Phone /\ PhoneOK' /\ (phone'.at # "login" => recorded # {})
    BY <2>1 DEF FaceInv, TypeOK, PhoneOK, Made, backend, PresenceBeforeSession
  <2> QED  BY <2>1, <2>2, <2>3, PhoneStep
<1> QED  BY <1>3, <1>4

LEMMA UseStep ==
  ASSUME Assumptions, FaceInv, CompleteLogin \/ Enrol
  PROVE  FaceInv'
<1>1. PICK s : s = phone.passed
  OBVIOUS
<1>2. PICK c : c = phone.capture
  OBVIOUS
<1>3. s \in Made /\ s \in Sessions /\ 0 \in 0 .. MaxCaptures /\ c \in 0 .. MaxCaptures
  BY <1>1, <1>2 DEF CompleteLogin, Enrol, FaceInv, TypeOK, Phone, PhoneOK, Made, Assumptions
<1>4. \/ Send("complete", "find", s, 0)
      \/ Send("enrol", "find", s, c) /\ recorded # {}
  BY <1>1, <1>2 DEF CompleteLogin, Enrol, FaceInv, PresenceBeforeSession
<1>5. phone' = phone /\ UNCHANGED <<backend, mode>>
  BY DEF CompleteLogin, Enrol
<1>6. CallTypes' /\ CallsOK'
  BY <1>3, <1>4, <1>5, SendStep
<1>7. phone' \in Phone /\ PhoneOK' /\ (phone'.at # "login" => recorded # {})
  BY <1>5 DEF FaceInv, TypeOK, PhoneOK, Made, backend, PresenceBeforeSession
<1> QED  BY <1>5, <1>6, <1>7, PhoneStep

LEMMA SignOutStep ==
  ASSUME Assumptions, FaceInv, SignOut
  PROVE  FaceInv'
<1>0. None \in Sessions \cup {None} /\ 0 \in 0 .. MaxCaptures
  BY DEF Assumptions
<1>1. phone' \in Phone
  BY <1>0, PhoneTypes DEF SignOut, FaceInv
<1>2. /\ phone'.at = "login" /\ phone'.session = phone.session
      /\ phone'.passed = None /\ phone'.screen = phone.screen
  BY DEF SignOut, FaceInv, TypeOK, Phone
<1>3. PhoneOK'
  BY <1>2 DEF PhoneOK, FaceInv, SignOut, backend, Made
<1>4. CallTypes'
  BY DEF SignOut, FaceInv, TypeOK, CallTypes, Sent
<1>5. CallsOK'
  <2>1. \A m \in Calls : call'[m] = call[m]
    BY DEF SignOut
  <2> QED  BY <2>1, BackendStays, CallsKept DEF FaceInv, SignOut
<1>6. UNCHANGED <<backend, mode>>
  BY DEF SignOut
<1> QED  BY <1>1, <1>2, <1>3, <1>4, <1>5, <1>6, PhoneStep

\* A capture: of the phone and of the camera page.
LEMMA CaptureStep ==
  ASSUME Assumptions, FaceInv, NEW k \in 1 .. MaxCaptures, Capture(k)
  PROVE  FaceInv'
<1>1. PICK s : s = phone.session
  OBVIOUS
<1>2. s \in Made /\ s \in Sessions /\ row[s].source = "sdk" /\ k \in 0 .. MaxCaptures
  BY <1>1 DEF Capture, FaceInv, PhoneOK, Made, Assumptions
<1>3. /\ captured' = [captured EXCEPT ![k] = s] /\ captured[k] = None
      /\ UNCHANGED <<row, provider, failures, recorded, enrolled, mode>>
  BY <1>1 DEF Capture
<1>4. Grow
  BY <1>3 DEF Grow, Made, FaceInv, TypeOK
<1>5. captured'[k] = s /\ row'[s].source = "sdk"
  BY <1>2, <1>3 DEF FaceInv, TypeOK
<1>6. CallTypes' /\ CallsOK'
  <2>1. CASE Occupied
    <3>1. UNCHANGED <<phone, call, waiting>>
      BY <2>1 DEF Capture
    <3>2. \A m \in Calls : call'[m] = call[m]
      BY <3>1
    <3> QED  BY <1>4, <3>1, <3>2, CallsKept DEF CallTypes, FaceInv, TypeOK, Sent
  <2>2. CASE ~Occupied
    <3>1. Send("bind", "find", s, k)
      BY <1>1, <2>2 DEF Capture
    <3>2. CallTypes' /\ NewCall("bind", "find", s, k) \in Call
      BY <1>2, <3>1, SendType DEF FaceInv
    <3>3. Good(NewCall("bind", "find", s, k))'
      BY <1>2, <1>4, <1>5 DEF Good, CallFits, CallKnows, NewCall, Grow
    <3> QED  BY <1>4, <3>1, <3>2, <3>3, SendGood DEF FaceInv
  <2> QED  BY <2>1, <2>2
<1>7. /\ phone' \in Phone /\ phone'.at = phone.at /\ phone'.session = phone.session
      /\ phone'.passed = phone.passed /\ phone'.screen = phone.screen
  BY DEF Capture, FaceInv, TypeOK, Phone
<1>8. TypeOK'
  BY <1>2, <1>3, <1>6, <1>7 DEF FaceInv, TypeOK, CallTypes
<1>9. PhoneOK'
  BY <1>3, <1>7 DEF FaceInv, PhoneOK, Made
<1>10. RowsOK'
  <2>1. ASSUME NEW t \in Made', row'[t].source = "sdk", row'[t].status = "HIGH"
        PROVE  Present(t)'
    BY <1>3, <1>4, <2>1, PresentKept DEF FaceInv, RowsOK, Made
  <2> QED  BY <1>3, <2>1 DEF FaceInv, RowsOK, Made
<1>11. PresenceBeforeSession'
  BY <1>3, <1>4, <1>7, <1>8, PresenceKept DEF FaceInv, PresenceBeforeSession
<1> QED  BY <1>6, <1>8, <1>9, <1>10, <1>11 DEF FaceInv

LEMMA ReceiveStep ==
  ASSUME Assumptions, FaceInv, NEW n \in Sent, Receive(n)
  PROVE  FaceInv'
<1>1. PICK c : c = call[n]
  OBVIOUS
<1>2. c \in Call /\ Good(c) /\ n \in Calls
  BY <1>1, CallRead DEF FaceInv
<1>3. /\ n \in waiting /\ c.label \in {"ok", "failed"}
      /\ UNCHANGED <<backend, mode>>
      /\ c.label = "ok" => Accept(c)
      /\ c.label # "ok" => Report(c)
  BY <1>1 DEF Receive, Answered
<1>4. c.session \in Made /\ c.session \in Sessions /\ c.capture \in 0 .. MaxCaptures
  BY <1>2, <1>3 DEF Good, CallFits, Made, Call
<1>5. phone' \in Phone
  BY <1>2, <1>3, AcceptType, ReportType DEF FaceInv
<1>6. Grow
  BY <1>3, BackendStays DEF FaceInv
<1>7. CallTypes' /\ CallsOK'
  <2>1. CASE c.label = "ok" /\ c.kind = "bind" /\ phone.at # "login"
    <3>1. PICK x : x = NewCall("verify", "find", c.session, c.capture)
      OBVIOUS
    <3>2. x \in Call /\ x # None
      BY <1>4, <3>1 DEF NewCall, Call, Assumptions
    <3>3. call' = [call EXCEPT ![n] = x] /\ waiting' = waiting
      BY <1>1, <2>1, <3>1 DEF Receive
    <3>4. Good(x)'
      BY <1>4, <1>6, <3>1 DEF Good, CallFits, CallKnows, NewCall, Grow
    <3>5. call'[n] = x /\ \A m \in Calls : m # n => call'[m] = call[m]
      BY <1>2, <3>3 DEF FaceInv, TypeOK
    <3>6. Good(call[n])'
      BY <3>4, <3>5 DEF Good, CallFits, CallKnows, Present
    <3>7. CallsOK'
      BY <1>6, <3>5, <3>6, CallsKept DEF FaceInv
    <3>8. CallTypes'
      BY <1>2, <3>2, <3>3, <3>5 DEF FaceInv, TypeOK, CallTypes, Sent
    <3> QED  BY <3>7, <3>8
  <2>2. CASE ~(c.label = "ok" /\ c.kind = "bind" /\ phone.at # "login")
    <3>1. call' = [call EXCEPT ![n] = None] /\ waiting' = waiting \ {n}
      BY <1>1, <2>2 DEF Receive
    <3>2. \A m \in Calls : call'[m] = call[m] \/ call'[m] = None
      BY <3>1 DEF FaceInv, TypeOK
    <3>3. CallsOK'
      BY <1>6, <3>2, CallsKept DEF FaceInv
    <3>4. \A m \in Calls : m # n => call'[m] = call[m]
      BY <3>1 DEF FaceInv, TypeOK
    <3>5. CallTypes'
      BY <3>1, <3>4 DEF FaceInv, TypeOK, CallTypes, Sent
    <3> QED  BY <3>3, <3>5
  <2> QED  BY <2>1, <2>2
<1>8. PhoneOK' /\ (phone'.at # "login" => recorded # {})
  <2>0. phone \in Phone /\ Made' = Made /\ None \notin Made
    BY <1>3 DEF FaceInv, TypeOK, Made, backend, Assumptions
  <2>1. CASE c.label # "ok"
    <3>1. /\ phone'.session = phone.session /\ phone'.at = phone.at
          /\ phone'.passed \in {phone.passed, None}
          /\ phone'.screen \in {phone.screen, "error"}
      BY <1>2, <1>3, <2>0, <2>1 DEF Report, Phone, Call
    <3> QED  BY <2>0, <3>1 DEF FaceInv, PhoneOK, PresenceBeforeSession
  <2>2. CASE c.label = "ok" /\ c.kind = "create"
    <3>1. /\ phone'.session = c.session /\ phone'.at = phone.at
          /\ phone'.passed = phone.passed
      BY <1>3, <2>0, <2>2 DEF Accept, Phone
    <3> QED  BY <1>4, <2>0, <3>1 DEF FaceInv, PhoneOK, PresenceBeforeSession
  <2>3. CASE c.label = "ok" /\ ((c.kind = "bind" /\ phone.at = "login") \/ c.kind = "verify")
    <3>1. phone' = Popped(c.session, c.capture)
      BY <1>3, <2>3 DEF Accept
    <3>2. /\ phone'.session = None /\ phone'.at = phone.at
          /\ phone'.passed = c.session /\ phone'.screen = "closed"
      BY <2>0, <3>1 DEF Popped, Closed, Phone
    <3> QED  BY <1>4, <2>0, <3>2 DEF FaceInv, PhoneOK, PresenceBeforeSession
  <2>4. CASE c.label = "ok" /\ c.kind = "bind" /\ phone.at # "login"
    <3>1. phone' = phone
      BY <1>3, <2>4 DEF Accept
    <3> QED  BY <2>0, <3>1 DEF FaceInv, PhoneOK, PresenceBeforeSession
  <2>5. CASE c.label = "ok" /\ c.kind \in {"complete", "enrol"}
    <3>1. /\ phone'.session = phone.session /\ phone'.passed = None
          /\ phone'.screen = phone.screen
      BY <1>3, <2>0, <2>5 DEF Accept, Phone
    <3>2. recorded # {} \/ phone.at # "login"
      BY <1>2, <2>5 DEF Good, CallKnows
    <3> QED  BY <2>0, <3>1, <3>2 DEF FaceInv, PhoneOK, PresenceBeforeSession
  <2> QED  BY <1>2, <2>1, <2>2, <2>3, <2>4, <2>5 DEF Call
<1> QED  BY <1>3, <1>5, <1>7, <1>8, PhoneStep

LEMMA LoseStep ==
  ASSUME Assumptions, FaceInv, NEW n \in Sent, Lose(n)
  PROVE  FaceInv'
<1>1. PICK c : c = call[n]
  OBVIOUS
<1>2. c \in Call
  BY <1>1, CallRead DEF FaceInv
<1>3. /\ Report(c) /\ waiting' = waiting \ {n} /\ call' = Forgotten({n})
      /\ UNCHANGED <<backend, mode>>
  BY <1>1 DEF Lose
<1>4. CallTypes'
  BY <1>3, ForgottenType DEF FaceInv
<1>5. CallsOK'
  BY <1>3, BackendStays, ForgottenGood DEF FaceInv
<1>6. phone' \in Phone
  BY <1>2, <1>3, ReportType DEF FaceInv
<1>7. /\ phone'.session = phone.session /\ phone'.at = phone.at
      /\ phone'.passed \in {phone.passed, None}
      /\ phone'.screen \in {phone.screen, "error"}
  BY <1>2, <1>3 DEF Report, Phone, Call, FaceInv, TypeOK
<1>8. PhoneOK' /\ (phone'.at # "login" => recorded # {})
  BY <1>3, <1>7 DEF FaceInv, PhoneOK, PresenceBeforeSession, Made, backend
<1> QED  BY <1>3, <1>4, <1>5, <1>6, <1>8, PhoneStep

----------------------------------------------------------------------------
(* The steps of the backend *)

Tables ==
  /\ row \in [Sessions -> Row \cup {None}]
  /\ provider \in [Sessions -> Status]
  /\ captured \in [1 .. MaxCaptures -> Sessions \cup {None}]
  /\ failures \in [0 .. MaxCaptures -> 0 .. 2]
  /\ recorded \subseteq Sessions
  /\ enrolled \in BOOLEAN

LEMMA BackendStep ==
  ASSUME Assumptions, FaceInv, Grow, Tables', RowsOK',
         NEW n \in Sent, NEW x \in Call, Step(n, x), Good(x)',
         \A s \in recorded' \ recorded : Present(s)'
  PROVE  FaceInv'
<1>1. phone' = phone /\ mode' = mode /\ n \in Calls
  BY DEF Step, Sent
<1>2. CallTypes'
  BY StepType DEF FaceInv
<1>3. TypeOK'
  BY <1>1, <1>2 DEF Tables, FaceInv, TypeOK, CallTypes
<1>4. CallsOK'
  BY <1>1, StepGood DEF FaceInv
<1>5. PhoneOK'
  BY <1>1 DEF FaceInv, PhoneOK, Grow
<1>6. phone'.at # "login" => recorded' # {}
  BY <1>1 DEF FaceInv, PresenceBeforeSession, Grow
<1>7. PresenceBeforeSession'
  BY <1>3, <1>6, PresenceKept
<1> QED  BY <1>3, <1>4, <1>5, <1>7 DEF FaceInv

\* A step that reads only.
LEMMA ReadStep ==
  ASSUME Assumptions, FaceInv, UNCHANGED backend,
         NEW n \in Sent, NEW x \in Call, Step(n, x), Good(x)
  PROVE  FaceInv'
<1>1. Grow
  BY BackendStays DEF FaceInv
<1>2. Good(x)'
  BY <1>1, GoodKept DEF FaceInv
<1>3. Tables' /\ RowsOK' /\ recorded' = recorded
  BY DEF Tables, FaceInv, TypeOK, RowsOK, Made, Present, backend
<1> QED  BY <1>1, <1>2, <1>3, BackendStep

LEMMA CreateSessionStep ==
  ASSUME Assumptions, FaceInv, NEW n \in Sent, CreateSession(n)
  PROVE  FaceInv'
<1>1. PICK s \in Sessions \ Made, source \in {"sdk", "api"} :
        /\ call[n].label = "create"
        /\ row' = [row EXCEPT ![s] = [source |-> source, status |-> "pending",
                                      capture |-> 0]]
        /\ provider' = [provider EXCEPT ![s] = "CREATED"]
        /\ Step(n, [call[n] EXCEPT !.label = "ok", !.session = s])
        /\ UNCHANGED <<captured, failures, recorded, enrolled>>
  BY DEF CreateSession
<1>2. PICK c : c = call[n]
  OBVIOUS
<1>3. c \in Call /\ Good(c) /\ n \in Calls
  BY <1>2, CallRead DEF FaceInv
<1>4. PICK x : x = [c EXCEPT !.label = "ok", !.session = s]
  OBVIOUS
<1>5. x \in Call
  BY <1>3, <1>4 DEF Call
<1>6. PICK r : r = [source |-> source, status |-> "pending", capture |-> 0]
  OBVIOUS
<1>7. r \in Row /\ r # None
  BY <1>6 DEF Row, Assumptions
<1>8. row' = [row EXCEPT ![s] = r] /\ s \notin Made /\ row[s] = None
  BY <1>1, <1>6 DEF Made
<1>9. Tables'
  BY <1>1, <1>7, <1>8 DEF Tables, FaceInv, TypeOK, Status
<1>10. row'[s] = r /\ \A t \in Sessions : t # s => row'[t] = row[t]
  BY <1>8 DEF FaceInv, TypeOK
<1>11. s \in Made' /\ \A t \in Made : t # s /\ t \in Made' /\ row'[t] = row[t]
  BY <1>7, <1>8, <1>10 DEF Made
<1>12. \A t \in Made' : t = s \/ t \in Made
  BY <1>10 DEF Made
<1>13. \A t \in Made : provider'[t] = provider[t]
  BY <1>1, <1>11 DEF FaceInv, TypeOK, Made
<1>14. Grow
  BY <1>1, <1>11, <1>13 DEF Grow
<1>15. Good(x)'
  <2>1. c.kind = "create"
    BY <1>1, <1>2, <1>3 DEF Good, CallFits
  <2>2. x.kind = "create" /\ x.label = "ok" /\ x.session = s
    BY <1>3, <1>4, <2>1 DEF Call
  <2> QED  BY <1>11, <2>2 DEF Good, CallFits, CallKnows
<1>16. RowsOK'
  <2>1. recorded' \subseteq Made'
    BY <1>1, <1>11 DEF FaceInv, RowsOK
  <2>2. ASSUME NEW t \in Made', row'[t].source = "sdk", row'[t].status = "HIGH"
        PROVE  Present(t)'
    <3>1. t # s
      BY <1>6, <1>10, <2>2
    <3>2. t \in Made /\ row'[t] = row[t]
      BY <1>11, <1>12, <3>1
    <3> QED  BY <1>14, <2>2, <3>2, PresentKept DEF FaceInv, RowsOK
  <2> QED  BY <2>1, <2>2 DEF RowsOK
<1>17. Step(n, x) /\ recorded' = recorded
  BY <1>1, <1>2, <1>4
<1> QED  BY <1>5, <1>9, <1>14, <1>15, <1>16, <1>17, BackendStep

LEMMA ResultStep ==
  ASSUME Assumptions, FaceInv, NEW s \in Sessions, Result(s)
  PROVE  FaceInv'
<1>1. PICK status \in Status : provider' = [provider EXCEPT ![s] = status]
  BY DEF Result
<1>2. /\ s \in Made /\ provider[s] = "CREATED"
      /\ UNCHANGED <<row, captured, failures, recorded, enrolled, phone, call,
                     waiting, mode>>
  BY DEF Result
<1>3. Grow
  BY <1>1, <1>2 DEF Grow, Made, FaceInv, TypeOK
<1>4. TypeOK'
  BY <1>1, <1>2 DEF FaceInv, TypeOK, Sent
<1>5. CallsOK'
  <2>1. \A m \in Calls : call'[m] = call[m]
    BY <1>2
  <2> QED  BY <1>3, <2>1, CallsKept DEF FaceInv
<1>6. PhoneOK'
  BY <1>2 DEF FaceInv, PhoneOK, Made
<1>7. RowsOK'
  <2>1. ASSUME NEW t \in Made, row[t].source = "sdk", row[t].status = "HIGH"
        PROVE  Present(t)'
    BY <1>3, <2>1, PresentKept DEF FaceInv, RowsOK
  <2> QED  BY <1>2, <2>1 DEF FaceInv, RowsOK, Made
<1>8. PresenceBeforeSession'
  BY <1>2, <1>3, <1>4, PresenceKept DEF FaceInv, PresenceBeforeSession
<1> QED  BY <1>4, <1>5, <1>6, <1>7, <1>8 DEF FaceInv

\* A call past the creation of its session, with the row it is about.
LEMMA CallOfRow ==
  ASSUME Assumptions, FaceInv, NEW n \in Sent, NEW c, c = call[n], c.label # "create"
  PROVE  /\ n \in Calls /\ c \in Call /\ Good(c)
         /\ c.session \in Made /\ c.session \in Sessions
         /\ row[c.session] \in Row
BY CallRead DEF FaceInv, Good, CallFits, Made, TypeOK

LEMMA FindStep ==
  ASSUME Assumptions, FaceInv, NEW n \in Sent, Find(n)
  PROVE  FaceInv'
<1>1. PICK c : c = call[n]
  OBVIOUS
<1>2. PICK r : r = row[c.session]
  OBVIOUS
<1>3. c.label = "find"
  BY <1>1 DEF Find
<1>4. /\ n \in Calls /\ c \in Call /\ Good(c)
      /\ c.session \in Made /\ c.session \in Sessions /\ r \in Row
  BY <1>1, <1>2, <1>3, CallOfRow
<1>5. CASE c.kind = "bind" \/ (Finds(c) /\ r.source = "sdk" /\ r.status = "HIGH")
  <2>1. PICK x : x = [[c EXCEPT !.row = r] EXCEPT !.label = "save", !.status = "HIGH",
                        !.capture = IF c.kind = "bind" THEN c.capture ELSE r.capture]
    OBVIOUS
  <2>2. Step(n, x) /\ UNCHANGED backend
    BY <1>1, <1>2, <1>5, <2>1 DEF Find
  <2>3. x \in Call /\ x.kind = c.kind /\ x.label = "save" /\ x.session = c.session
        /\ x.row = r /\ x.status = "HIGH" /\ (c.kind = "bind" => x.capture = c.capture)
    BY <1>4, <2>1 DEF Call, Row, Status
  <2>4. r.source = "sdk" /\ Present(c.session)
    BY <1>2, <1>3, <1>4, <1>5 DEF Good, CallKnows, CallFits, Present, FaceInv, RowsOK
  <2>5. Good(x)
    BY <1>2, <1>3, <1>4, <2>3, <2>4 DEF Good, CallKnows, CallFits, Status
  <2> QED  BY <2>2, <2>3, <2>5, ReadStep
<1>6. CASE /\ ~(c.kind = "bind" \/ (Finds(c) /\ r.source = "sdk" /\ r.status = "HIGH"))
           /\ c.kind # "bind" /\ Finds(c) /\ r.source = "api"
  <2>1. PICK x : x = [[c EXCEPT !.row = r] EXCEPT !.label = "result"]
    OBVIOUS
  <2>2. Step(n, x) /\ UNCHANGED backend
    BY <1>1, <1>2, <1>6, <2>1 DEF Find
  <2>3. x \in Call /\ x.kind = c.kind /\ x.label = "result" /\ x.session = c.session
        /\ x.row = r
    BY <1>4, <2>1 DEF Call
  <2>4. Good(x)
    BY <1>2, <1>3, <1>4, <1>6, <2>3 DEF Good, CallKnows, CallFits
  <2> QED  BY <2>2, <2>3, <2>4, ReadStep
<1>7. CASE /\ ~(c.kind = "bind" \/ (Finds(c) /\ r.source = "sdk" /\ r.status = "HIGH"))
           /\ ~(c.kind # "bind" /\ Finds(c) /\ r.source = "api")
  <2>1. PICK x : x = [c EXCEPT !.label = "failed"]
    OBVIOUS
  <2>2. Step(n, x) /\ UNCHANGED backend
    BY <1>1, <1>2, <1>7, <2>1 DEF Find, Done
  <2>3. x \in Call /\ x.kind = c.kind /\ x.label = "failed" /\ x.session = c.session
        /\ x.capture = c.capture
    BY <1>4, <2>1 DEF Call
  <2>4. c.kind # "create"
    BY <1>3, <1>4 DEF Good, CallFits
  <2>5. Good(x)
    BY <1>3, <1>4, <2>3, <2>4 DEF Good, CallKnows, CallFits
  <2> QED  BY <2>2, <2>3, <2>5, ReadStep
<1> QED  BY <1>5, <1>6, <1>7

LEMMA GetResultStep ==
  ASSUME Assumptions, FaceInv, NEW n \in Sent, GetResult(n)
  PROVE  FaceInv'
<1>1. PICK c : c = call[n]
  OBVIOUS
<1>2. c.label = "result"
  BY <1>1 DEF GetResult
<1>3. /\ n \in Calls /\ c \in Call /\ Good(c)
      /\ c.session \in Made /\ c.session \in Sessions
  BY <1>1, <1>2, CallOfRow
<1>4. PICK x : x = [c EXCEPT !.label = "save", !.status = provider[c.session]]
  OBVIOUS
<1>5. Step(n, x) /\ UNCHANGED backend
  BY <1>1, <1>4 DEF GetResult
<1>6. x \in Call /\ x.kind = c.kind /\ x.label = "save" /\ x.session = c.session
      /\ x.row = c.row /\ x.capture = c.capture /\ x.status = provider[c.session]
      /\ x.status \in Status
  BY <1>3, <1>4 DEF Call, FaceInv, TypeOK
<1>7. c.row \in Row /\ c.row.source = "api" /\ row[c.session].source = "api"
  BY <1>2, <1>3 DEF Good, CallKnows
<1>8. x.status \in {"HIGH", "LOW"} => Present(x.session)
  BY <1>6, <1>7 DEF Present
<1>9. Good(x)
  BY <1>2, <1>3, <1>6, <1>7, <1>8 DEF Good, CallKnows, CallFits
<1> QED  BY <1>5, <1>6, <1>9, ReadStep

LEMMA SaveRowStep ==
  ASSUME Assumptions, FaceInv, NEW n \in Sent, SaveRow(n)
  PROVE  FaceInv'
<1>1. PICK c : c = call[n]
  OBVIOUS
<1>2. PICK s : s = c.session
  OBVIOUS
<1>3. c.label = "save"
  BY <1>1 DEF SaveRow
<1>4. /\ n \in Calls /\ c \in Call /\ Good(c) /\ s \in Made /\ s \in Sessions
      /\ c.kind \in {"bind", "verify", "complete", "enrol"}
  BY <1>1, <1>2, <1>3, CallOfRow DEF Good, CallFits, Call
<1>5. /\ c.row \in Row /\ c.row.source = row[s].source /\ c.status \in Status
      /\ c.status \in {"HIGH", "LOW"} => Present(s)
  BY <1>2, <1>3, <1>4 DEF Good, CallKnows
<1>6. PICK r : r = [c.row EXCEPT !.status = c.status, !.capture = c.capture]
  OBVIOUS
<1>7. r \in Row /\ r # None /\ r.source = row[s].source /\ r.status = c.status
  BY <1>4, <1>5, <1>6 DEF Row, Call, Assumptions
<1>8. /\ row' = [row EXCEPT ![s] = r]
      /\ UNCHANGED <<provider, captured, failures, recorded, enrolled>>
  BY <1>1, <1>2, <1>6 DEF SaveRow, Outcome
<1>9. row'[s] = r /\ \A t \in Sessions : t # s => row'[t] = row[t]
  BY <1>4, <1>8 DEF FaceInv, TypeOK
<1>10. Made' = Made
  BY <1>4, <1>7, <1>9 DEF Made
<1>11. Grow
  BY <1>7, <1>8, <1>9, <1>10 DEF Grow, Made
<1>12. Tables'
  BY <1>7, <1>8 DEF Tables, FaceInv, TypeOK
<1>13. RowsOK'
  <2>1. ASSUME NEW t \in Made, row'[t].source = "sdk", row'[t].status = "HIGH"
        PROVE  Present(t)
    BY <1>5, <1>7, <1>9, <2>1 DEF Made, FaceInv, RowsOK
  <2>2. ASSUME NEW t \in Made, row'[t].source = "sdk", row'[t].status = "HIGH"
        PROVE  Present(t)'
    BY <1>11, <2>1, <2>2, PresentKept DEF FaceInv
  <2> QED  BY <1>8, <1>10, <2>2 DEF FaceInv, RowsOK
<1>14. PICK next : next =
          CASE c.kind = "bind" -> "ok"
            [] c.kind # "bind" /\ ~Passes(c) -> "failed"
            [] c.kind = "verify" /\ Passes(c) -> "ok"
            [] c.kind = "complete" /\ Passes(c) -> "touch"
            [] c.kind = "enrol" /\ Passes(c) -> "query"
  OBVIOUS
<1>15. /\ next \in {"ok", "failed", "touch", "query"}
       /\ next = "touch" => c.kind = "complete" /\ Passes(c)
       /\ next = "query" => c.kind = "enrol"
       /\ next = "ok" => c.kind \in {"bind", "verify"}
  BY <1>4, <1>14
<1>16. PICK x : x = [c EXCEPT !.label = next]
  OBVIOUS
<1>17. x \in Call /\ x.kind = c.kind /\ x.label = next /\ x.session = s
       /\ x.capture = c.capture
  BY <1>2, <1>4, <1>15, <1>16 DEF Call
<1>18. Step(n, x)
  BY <1>1, <1>14, <1>16 DEF SaveRow
<1>19. Good(x)
  <2>1. next = "touch" => Present(s)
    BY <1>5, <1>15 DEF Passes
  <2> QED  BY <1>2, <1>3, <1>4, <1>15, <1>17, <2>1 DEF Good, CallKnows, CallFits
<1>20. Good(x)'
  BY <1>11, <1>17, <1>19, GoodKept DEF FaceInv
<1> QED  BY <1>8, <1>11, <1>12, <1>13, <1>17, <1>18, <1>20, BackendStep

LEMMA TouchStep ==
  ASSUME Assumptions, FaceInv, NEW n \in Sent, Touch(n)
  PROVE  FaceInv'
<1>1. PICK c : c = call[n]
  OBVIOUS
<1>2. c.label = "touch"
  BY <1>1 DEF Touch
<1>3. n \in Calls /\ c \in Call /\ Good(c)
  BY <1>1, <1>2, CallOfRow
<1>4. PICK x : x = [c EXCEPT !.label = "record"]
  OBVIOUS
<1>5. Step(n, x) /\ UNCHANGED backend
  BY <1>1, <1>4 DEF Touch
<1>6. x \in Call /\ x.kind = c.kind /\ x.label = "record" /\ x.session = c.session
  BY <1>3, <1>4 DEF Call
<1>7. Good(x)
  BY <1>2, <1>3, <1>6 DEF Good, CallKnows, CallFits
<1> QED  BY <1>5, <1>6, <1>7, ReadStep

LEMMA RecordLoginStep ==
  ASSUME Assumptions, FaceInv, NEW n \in Sent, RecordLogin(n)
  PROVE  FaceInv'
<1>1. PICK c : c = call[n]
  OBVIOUS
<1>2. c.label = "record"
  BY <1>1 DEF RecordLogin
<1>3. /\ n \in Calls /\ c \in Call /\ Good(c)
      /\ c.session \in Made /\ c.session \in Sessions /\ c.kind = "complete"
      /\ Present(c.session)
  BY <1>1, <1>2, CallOfRow DEF Good, CallFits, CallKnows
<1>4. PICK x : x = [c EXCEPT !.label = "ok"]
  OBVIOUS
<1>5. /\ Step(n, x) /\ recorded' = recorded \cup {c.session}
      /\ UNCHANGED <<row, provider, captured, failures, enrolled>>
  BY <1>1, <1>4 DEF RecordLogin
<1>6. x \in Call /\ x.kind = "complete" /\ x.label = "ok" /\ x.session = c.session
  BY <1>3, <1>4 DEF Call
<1>7. Grow
  BY <1>5 DEF Grow, Made
<1>8. Tables'
  BY <1>3, <1>5 DEF Tables, FaceInv, TypeOK
<1>9. RowsOK'
  BY <1>3, <1>5 DEF FaceInv, RowsOK, Made, Present
<1>10. Good(x)'
  BY <1>3, <1>5, <1>6, <1>7 DEF Good, CallKnows, CallFits, Grow
<1>11. Present(c.session)'
  BY <1>3, <1>7, PresentKept DEF FaceInv
<1>12. \A t \in recorded' \ recorded : Present(t)'
  <2>1. TAKE t \in recorded' \ recorded
  <2>2. t = c.session
    BY <1>5, <2>1
  <2> QED  BY <1>5, <2>2, <1>3 DEF Present
<1> QED  BY <1>5, <1>6, <1>7, <1>8, <1>9, <1>10, <1>12, BackendStep

LEMMA QueryStep ==
  ASSUME Assumptions, FaceInv, NEW n \in Sent, Query(n)
  PROVE  FaceInv'
<1>1. PICK c : c = call[n]
  OBVIOUS
<1>2. c.label = "query"
  BY <1>1 DEF Query
<1>3. n \in Calls /\ c \in Call /\ Good(c) /\ c.kind = "enrol"
      /\ c.session \in Made /\ c.capture \in 0 .. MaxCaptures
  BY <1>1, <1>2, CallOfRow DEF Good, CallFits, Call
<1>4. PICK label \in {"ok", "failed"} : Step(n, [c EXCEPT !.label = label])
  BY <1>1 DEF Query
<1>5. PICK x : x = [c EXCEPT !.label = label]
  OBVIOUS
<1>6. x \in Call /\ x.kind = "enrol" /\ x.label = label /\ x.session = c.session
  BY <1>3, <1>5 DEF Call
<1>7. UNCHANGED <<row, provider, captured, recorded>>
  BY DEF Query
<1>8. enrolled' \in BOOLEAN /\ failures' \in [0 .. MaxCaptures -> 0 .. 2]
  <2>1. CASE enrolled' = TRUE /\ UNCHANGED failures
    BY <2>1 DEF FaceInv, TypeOK
  <2>2. CASE /\ enrolled' = enrolled
             /\ failures' = [failures EXCEPT ![c.capture] = IF @ = 2 THEN 2 ELSE @ + 1]
    <3>1. failures[c.capture] \in 0 .. 2
      BY <1>3 DEF FaceInv, TypeOK
    <3>2. (IF failures[c.capture] = 2 THEN 2 ELSE failures[c.capture] + 1) \in 0 .. 2
      BY <3>1
    <3>3. failures' \in [0 .. MaxCaptures -> 0 .. 2]
      BY <2>2, <3>2 DEF FaceInv, TypeOK
    <3> QED  BY <2>2, <3>3 DEF FaceInv, TypeOK
  <2> QED  BY <1>1, <2>1, <2>2 DEF Query
<1>9. Grow
  BY <1>7 DEF Grow, Made
<1>10. Tables' /\ RowsOK'
  BY <1>7, <1>8 DEF Tables, FaceInv, TypeOK, RowsOK, Made, Present
<1>11. Good(x)
  BY <1>2, <1>3, <1>6 DEF Good, CallKnows, CallFits
<1>12. Good(x)'
  BY <1>6, <1>9, <1>11, GoodKept DEF FaceInv
<1> QED  BY <1>4, <1>5, <1>6, <1>7, <1>9, <1>10, <1>12, BackendStep

LEMMA FaceInit == Assumptions /\ Init => FaceInv
<1> SUFFICES ASSUME Assumptions, Init  PROVE  FaceInv
  OBVIOUS
<1>1. TypeOK
  <2>1. phone \in Phone
    <3>1. 0 \in 0 .. MaxCaptures
      BY DEF Assumptions
    <3> QED  BY <3>1 DEF Init, Phone
  <2>2. row \in [Sessions -> Row \cup {None}] /\ provider \in [Sessions -> Status]
    BY DEF Init, Status
  <2>3. failures \in [0 .. MaxCaptures -> 0 .. 2]
    BY DEF Init
  <2>4. call \in [Calls -> Call \cup {None}] /\ waiting \subseteq Sent
    BY DEF Init
  <2>5. captured \in [1 .. MaxCaptures -> Sessions \cup {None}]
    BY DEF Init
  <2> QED  BY <2>1, <2>2, <2>3, <2>4, <2>5 DEF Init, TypeOK
<1>2. Made = {} /\ Sent = {}
  BY DEF Init, Made, Sent
<1> QED  BY <1>1, <1>2 DEF Init, FaceInv, CallsOK, PhoneOK, RowsOK, PresenceBeforeSession

LEMMA FaceStep == Assumptions /\ FaceInv /\ [Next]_vars => FaceInv'
<1> SUFFICES ASSUME Assumptions, FaceInv, [Next]_vars  PROVE  FaceInv'
  OBVIOUS
<1>1. CASE Bootstrap \/ Cancel \/ PressVerify \/ CompleteLogin \/ Enrol \/ SignOut \/ Kill
  BY <1>1, BootstrapStep, CancelStep, PressVerifyStep, UseStep, SignOutStep
<1>2. CASE \E k \in 1 .. MaxCaptures : Capture(k)
  BY <1>2, CaptureStep
<1>3. CASE \E s \in Sessions : Result(s)
  BY <1>3, ResultStep
<1>4. CASE \E n \in Sent : Receive(n) \/ Lose(n) \/ CreateSession(n) \/ Find(n)
  BY <1>4, ReceiveStep, LoseStep, CreateSessionStep, FindStep
<1>5. CASE \E n \in Sent : GetResult(n) \/ SaveRow(n) \/ Touch(n) \/ RecordLogin(n) \/ Query(n)
  BY <1>5, GetResultStep, SaveRowStep, TouchStep, RecordLoginStep, QueryStep
<1>6. CASE UNCHANGED vars
  <2>1. UNCHANGED <<backend, mode>> /\ UNCHANGED <<phone, call, waiting>>
    BY <1>6 DEF vars, backend
  <2>2. \A m \in Calls : call'[m] = call[m]
    BY <2>1
  <2>3. CallsOK'
    BY <2>1, <2>2, BackendStays, CallsKept DEF FaceInv
  <2>4. CallTypes' /\ PhoneOK' /\ phone' \in Phone
    BY <2>1 DEF FaceInv, TypeOK, CallTypes, Sent, PhoneOK, Made, backend
  <2> QED  BY <2>1, <2>3, <2>4, PhoneStep DEF FaceInv, PresenceBeforeSession
<1> QED  BY <1>1, <1>2, <1>3, <1>4, <1>5, <1>6 DEF Next

----------------------------------------------------------------------------
(* While answers arrive *)

\* The phone forgets calls, and shows, or passes, a session no other call holds.
LEMMA ShrunkReliable ==
  ASSUME Assumptions, FaceInv, FaceInv', ReliableInv, row' = row,
         \A s \in Made : \A k : Settled(s, k) => Settled(s, k)',
         \A m \in Calls : call'[m] = call[m] \/ call'[m] = None,
         \/ phone'.session = None
         \/ /\ phone'.session = phone.session
            /\ \A m \in waiting : call'[m] # None => m \in waiting'
         \/ \A m \in Calls : call'[m] # None => call'[m].session # phone'.session,
         \/ phone'.passed = None
         \/ /\ phone'.passed = phone.passed /\ phone'.at = phone.at
            /\ phone'.capture = phone.capture
            /\ phone'.passed # phone'.session
         \/ /\ phone'.session = None
            /\ \A m \in Calls : call'[m] # None /\ call'[m].session = phone'.passed =>
                 call'[m].kind \in {"complete", "enrol"} /\ phone'.at # "onboarding"
            /\ phone'.at = "onboarding" => Settled(phone'.passed, phone'.capture)
  PROVE  ReliableInv'
<1>1. PICK t : t = phone'.session
  OBVIOUS
<1>2. PICK p : p = phone'.passed
  OBVIOUS
<1>3. PICK k : k = phone'.capture
  OBVIOUS
<1>4. \A s \in Sessions, m \in Calls : Holds(m, s)' => Holds(m, s) /\ call'[m] = call[m]
  BY DEF Holds, Sent
<1>5. \A s \in Sessions, m \in Calls : Uses(m, s)' => Uses(m, s) /\ call'[m] = call[m]
  BY DEF Uses, Sent
<1>6. p # None => p \in Made
  BY <1>2 DEF FaceInv, PhoneOK, Made
<1>7. t \in Sessions \cup {None} /\ p \in Sessions \cup {None} /\ None \notin Sessions
  BY <1>1, <1>2 DEF FaceInv, TypeOK, Phone, Assumptions
<1>8. OneHolder'
  <2> SUFFICES ASSUME NEW s \in Sessions, NEW n \in Calls, Holds(n, s)'
               PROVE  /\ \A m \in Calls : Holds(m, s)' => m = n
                      /\ t = s => n \in waiting' /\ call'[n].kind # "create"
    BY <1>1 DEF OneHolder
  <2>1. Holds(n, s) /\ call'[n] = call[n] /\ call'[n] # None /\ call'[n].session = s
    BY <1>4 DEF Holds, Sent
  <2>2. \A m \in Calls : Holds(m, s)' => m = n
    BY <1>4, <2>1 DEF ReliableInv, OneHolder
  <2>3. ASSUME t = s  PROVE  n \in waiting' /\ call'[n].kind # "create"
    BY <1>1, <1>7, <2>1, <2>3 DEF ReliableInv, OneHolder
  <2> QED  BY <2>2, <2>3
<1>9. UsedAlone'
  <2> SUFFICES ASSUME NEW s \in Sessions, p = s \/ \E n \in Calls : Uses(n, s)'
               PROVE  t # s /\ \A n \in Calls : ~Holds(n, s)'
    BY <1>1, <1>2 DEF UsedAlone
  <2>1. CASE \E n \in Calls : Uses(n, s)'
    <3>1. phone.session # s /\ \A n \in Calls : ~Holds(n, s)
      BY <1>5, <2>1 DEF ReliableInv, UsedAlone
    <3>2. t # s
      BY <1>1, <1>7, <2>1, <3>1 DEF Uses, Sent
    <3> QED  BY <1>4, <3>1, <3>2
  <2>2. CASE p = s
    <3>1. CASE phone'.passed = phone.passed /\ t # p
      BY <1>2, <1>4, <2>2, <3>1 DEF ReliableInv, UsedAlone
    <3>2. CASE ~(phone'.passed = phone.passed /\ t # p)
      <4>1. /\ t = None
            /\ \A m \in Calls : call'[m] # None /\ call'[m].session = p =>
                 call'[m].kind \in {"complete", "enrol"}
        BY <1>1, <1>2, <1>7, <2>2, <3>2
      <4> QED  BY <1>7, <2>2, <4>1 DEF Holds, Sent
    <3> QED  BY <3>1, <3>2
  <2> QED  BY <2>1, <2>2
<1>10. PassedSettled'
  <2>1. ASSUME phone'.at = "onboarding", p # None
        PROVE  /\ Settled(p, k)'
               /\ \A n \in Calls : Uses(n, p)' =>
                    /\ call'[n].kind = "enrol" /\ call'[n].capture = k
                    /\ call'[n].label = "save" => call'[n].status = "HIGH"
    <3>1. CASE /\ phone'.passed = phone.passed /\ phone'.at = phone.at
               /\ phone'.capture = phone.capture
      <4>1. /\ Settled(p, k)
            /\ \A n \in Calls : Uses(n, p) =>
                    /\ call[n].kind = "enrol" /\ call[n].capture = k
                    /\ call[n].label = "save" => call[n].status = "HIGH"
        BY <1>2, <1>3, <2>1, <3>1 DEF ReliableInv, PassedSettled
      <4> QED  BY <1>5, <1>6, <1>7, <2>1, <4>1
    <3>2. CASE ~(/\ phone'.passed = phone.passed /\ phone'.at = phone.at
                 /\ phone'.capture = phone.capture)
      BY <1>2, <1>3, <1>6, <2>1, <3>2 DEF Uses, Sent
    <3> QED  BY <3>1, <3>2
  <2>2. ASSUME NEW n \in Calls, call'[n] # None, call'[n].kind = "verify",
               call'[n].label = "ok"
        PROVE  Settled(call[n].session, call[n].capture)'
    <3>1. call'[n] = call[n] /\ n \in Sent
      BY <2>2 DEF Sent
    <3>2. PICK v : v = call[n]
      OBVIOUS
    <3>3. Settled(v.session, v.capture)
      BY <2>2, <3>1, <3>2 DEF ReliableInv, PassedSettled
    <3>4. v.session \in Made
      BY <2>2, <3>1, <3>2, CallOfRow
    <3>5. Settled(v.session, v.capture)'
      BY <3>3, <3>4
    <3> QED  BY <3>1, <3>2, <3>5 DEF Settled
  <2> QED  BY <1>2, <1>3, <2>1, <2>2 DEF PassedSettled, Sent
<1> QED  BY <1>8, <1>9, <1>10 DEF ReliableInv

\* A new call is about the session on the screen, nothing else being under way,
\* or about the one that passed.
LEMMA SendReliable ==
  ASSUME Assumptions, FaceInv, FaceInv', ReliableInv, UNCHANGED <<row, provider>>,
         phone'.session = phone.session, phone'.passed = phone.passed,
         phone'.at = phone.at, phone'.capture = phone.capture,
         NEW kind, NEW label \in {"create", "find"}, NEW s, NEW k,
         Send(kind, label, s, k),
         \/ kind = "create" /\ s = None
         \/ kind \in {"bind", "verify"} /\ s = phone.session /\ s # None /\ ~Verifying
         \/ kind = "complete" /\ s = phone.passed /\ phone.at = "login"
         \/ kind = "enrol" /\ s = phone.passed /\ k = phone.capture
  PROVE  ReliableInv'
<1>1. PICK x : x = NewCall(kind, label, s, k)
  OBVIOUS
<1>2. PICK n \in Calls \ Sent :
        call' = [call EXCEPT ![n] = x] /\ waiting' = waiting \cup {n}
  BY <1>1 DEF Send
<1>3. /\ x.kind = kind /\ x.label = label /\ x.session = s /\ x.capture = k
      /\ call'[n] = x /\ call[n] = None /\ n \in waiting'
  BY <1>1, <1>2 DEF NewCall, Sent, FaceInv, TypeOK
<1>4. \A m \in Calls : m # n => call'[m] = call[m]
  BY <1>2 DEF FaceInv, TypeOK
<1>5. \A t \in Sessions, m \in Calls : Holds(m, t)' =>
        \/ m # n /\ Holds(m, t) /\ call'[m] = call[m]
        \/ m = n /\ t = s /\ kind \in {"bind", "verify"}
  <2>1. s = None => s \notin Sessions
    BY DEF Assumptions
  <2> QED  BY <1>3, <1>4, <2>1 DEF Holds, Sent
<1>6. \A t \in Sessions, m \in Calls : Uses(m, t)' =>
        \/ m # n /\ Uses(m, t) /\ call'[m] = call[m]
        \/ m = n /\ t = s /\ kind \in {"complete", "enrol"} /\ s = phone.passed
  BY <1>3, <1>4 DEF Uses, Sent
<1>7. PICK o : o = phone.session
  OBVIOUS
<1>8. PICK p : p = phone.passed
  OBVIOUS
<1>9. PICK j : j = phone.capture
  OBVIOUS
<1>10. phone'.session = o /\ phone'.passed = p /\ phone'.capture = j
  BY <1>7, <1>8, <1>9
<1>11. kind \in {"bind", "verify"} => \A m \in Calls : ~Holds(m, s)
  <2> SUFFICES ASSUME kind \in {"bind", "verify"}, NEW m \in Calls, Holds(m, s)
               PROVE  FALSE
    OBVIOUS
  <2>1. s \in Sessions /\ s = phone.session /\ ~Verifying
    BY DEF FaceInv, TypeOK, Phone
  <2>2. m \in waiting /\ call[m].kind # "create"
    BY <2>1 DEF ReliableInv, OneHolder
  <2> QED  BY <2>1, <2>2 DEF Verifying
<1>12. OneHolder'
  <2> SUFFICES ASSUME NEW t \in Sessions, NEW i \in Calls, Holds(i, t)'
               PROVE  /\ \A m \in Calls : Holds(m, t)' => m = i
                      /\ o = t => i \in waiting' /\ call'[i].kind # "create"
    BY <1>10 DEF OneHolder
  <2>1. \A m \in Calls : Holds(m, t)' => m = i
    BY <1>5, <1>11 DEF ReliableInv, OneHolder
  <2>2. ASSUME o = t  PROVE  i \in waiting' /\ call'[i].kind # "create"
    BY <1>2, <1>3, <1>5, <1>7, <2>2 DEF ReliableInv, OneHolder
  <2> QED  BY <2>1, <2>2
<1>13. UsedAlone'
  <2> SUFFICES ASSUME NEW t \in Sessions, p = t \/ \E m \in Calls : Uses(m, t)'
               PROVE  o # t /\ \A m \in Calls : ~Holds(m, t)'
    BY <1>10 DEF UsedAlone
  <2>1. p = t \/ \E m \in Calls : Uses(m, t)
    BY <1>6, <1>8
  <2>2. o # t /\ \A m \in Calls : ~Holds(m, t)
    BY <1>7, <1>8, <2>1 DEF ReliableInv, UsedAlone
  <2> QED  BY <1>5, <1>7, <2>2
<1>14. \A t, i : Settled(t, i) => Settled(t, i)'
  BY DEF Settled
<1>15. PassedSettled'
  <2>1. ASSUME phone'.at = "onboarding", p # None
        PROVE  /\ Settled(p, j)'
               /\ \A m \in Calls : Uses(m, p)' =>
                    /\ call'[m].kind = "enrol" /\ call'[m].capture = j
                    /\ call'[m].label = "save" => call'[m].status = "HIGH"
    <3>0. p \in Sessions /\ phone.at = "onboarding"
      BY <1>8, <2>1 DEF FaceInv, TypeOK, Phone
    <3>1. /\ Settled(p, j)
          /\ \A m \in Calls : Uses(m, p) =>
                    /\ call[m].kind = "enrol" /\ call[m].capture = j
                    /\ call[m].label = "save" => call[m].status = "HIGH"
      BY <1>8, <1>9, <2>1, <3>0 DEF ReliableInv, PassedSettled
    <3>2. ASSUME NEW m \in Calls, Uses(m, p)'
          PROVE  /\ call'[m].kind = "enrol" /\ call'[m].capture = j
                 /\ call'[m].label = "save" => call'[m].status = "HIGH"
      <4>1. CASE m # n
        BY <1>6, <3>0, <3>1, <3>2, <4>1
      <4>2. CASE m = n
        <5>1. kind \in {"complete", "enrol"}
          BY <1>6, <3>0, <3>2, <4>2
        <5>2. kind = "enrol" /\ k = j
          BY <1>9, <3>0, <5>1
        <5> QED  BY <1>3, <4>2, <5>2
      <4> QED  BY <4>1, <4>2
    <3> QED  BY <1>14, <3>1, <3>2
  <2>2. ASSUME NEW m \in Calls, call'[m] # None, call'[m].kind = "verify",
               call'[m].label = "ok"
        PROVE  Settled(call[m].session, call[m].capture)'
    <3>1. m # n /\ call'[m] = call[m] /\ m \in Sent
      BY <1>3, <1>4, <2>2 DEF Sent
    <3>2. Settled(call[m].session, call[m].capture)
      BY <2>2, <3>1 DEF ReliableInv, PassedSettled
    <3> QED  BY <3>1, <3>2 DEF Settled
  <2> QED  BY <1>10, <2>1, <2>2 DEF PassedSettled, Sent
<1> QED  BY <1>12, <1>13, <1>15 DEF ReliableInv

\* A call goes on about its session, and changes what no other call relies on.
Advances(n, c, x) ==
  /\ UNCHANGED <<phone, waiting>>
  /\ \A m \in Calls : m # n => call'[m] = call[m]
  /\ call'[n] \in {x, None} /\ (n \in waiting => call'[n] = x)
  /\ x.session = c.session
  /\ x.kind = c.kind \/ (c.kind = "bind" /\ x.kind = "verify")
  /\ \A s \in Made : \A k : s # c.session /\ Settled(s, k) => Settled(s, k)'
  /\ phone.at = "onboarding" /\ phone.passed = c.session =>
       /\ \A k : k = phone.capture /\ Settled(c.session, k) => Settled(c.session, k)'
       /\ x.kind = "enrol" => /\ x.capture = phone.capture
                              /\ x.label = "save" => x.status = "HIGH"
  /\ x.kind = "verify" /\ x.label = "ok" => Settled(x.session, x.capture)'

LEMMA AdvanceReliable ==
  ASSUME Assumptions, FaceInv, FaceInv', ReliableInv,
         NEW n \in Sent, NEW c, c = call[n], c.label # "create",
         NEW x \in Call, Advances(n, c, x)
  PROVE  ReliableInv'
<1> USE DEF Advances
<1>1. /\ n \in Calls /\ c \in Call /\ Good(c)
      /\ c.session \in Made /\ c.session \in Sessions
  BY CallOfRow
<1>2. c # None /\ x # None
  BY <1>1 DEF Assumptions
<1>3. \A t \in Sessions, m \in Calls : Holds(m, t)' =>
        /\ Holds(m, t)
        /\ m # n => call'[m] = call[m]
        /\ m = n => call'[m] = x /\ t = c.session
  BY <1>1, <1>2 DEF Holds, Sent
<1>4. \A t \in Sessions, m \in Calls : Uses(m, t)' =>
        /\ Uses(m, t)
        /\ m # n => call'[m] = call[m]
        /\ m = n => call'[m] = x /\ t = c.session
  BY <1>1, <1>2 DEF Uses, Sent
<1>5. PICK o : o = phone.session
  OBVIOUS
<1>6. PICK p : p = phone.passed
  OBVIOUS
<1>7. PICK j : j = phone.capture
  OBVIOUS
<1>8. phone'.session = o /\ phone'.passed = p /\ phone'.capture = j
  BY <1>5, <1>6, <1>7
<1>9. OneHolder'
  <2> SUFFICES ASSUME NEW t \in Sessions, NEW i \in Calls, Holds(i, t)'
               PROVE  /\ \A m \in Calls : Holds(m, t)' => m = i
                      /\ o = t => i \in waiting' /\ call'[i].kind # "create"
    BY <1>8 DEF OneHolder
  <2>1. \A m \in Calls : Holds(m, t)' => m = i
    BY <1>3 DEF ReliableInv, OneHolder
  <2>2. ASSUME o = t  PROVE  i \in waiting' /\ call'[i].kind # "create"
    <3>1. i \in waiting /\ call[i].kind # "create"
      BY <1>3, <1>5, <2>2 DEF ReliableInv, OneHolder
    <3> QED  BY <1>3, <3>1
  <2> QED  BY <2>1, <2>2
<1>10. UsedAlone'
  <2> SUFFICES ASSUME NEW t \in Sessions, p = t \/ \E m \in Calls : Uses(m, t)'
               PROVE  o # t /\ \A m \in Calls : ~Holds(m, t)'
    BY <1>8 DEF UsedAlone
  <2>1. o # t /\ \A m \in Calls : ~Holds(m, t)
    BY <1>4, <1>5, <1>6 DEF ReliableInv, UsedAlone
  <2> QED  BY <1>3, <2>1
<1>11. PassedSettled'
  <2>1. ASSUME phone'.at = "onboarding", p # None
        PROVE  /\ Settled(p, j)'
               /\ \A m \in Calls : Uses(m, p)' =>
                    /\ call'[m].kind = "enrol" /\ call'[m].capture = j
                    /\ call'[m].label = "save" => call'[m].status = "HIGH"
    <3>0. p \in Sessions /\ p \in Made /\ phone.at = "onboarding"
      BY <1>6, <2>1 DEF FaceInv, PhoneOK, Made
    <3>1. /\ Settled(p, j)
          /\ \A m \in Calls : Uses(m, p) =>
                    /\ call[m].kind = "enrol" /\ call[m].capture = j
                    /\ call[m].label = "save" => call[m].status = "HIGH"
      BY <1>6, <1>7, <2>1, <3>0 DEF ReliableInv, PassedSettled
    <3>2. Settled(p, j)'
      <4>1. CASE p = c.session
        BY <1>6, <1>7, <3>0, <3>1, <4>1
      <4>2. CASE p # c.session
        BY <3>0, <3>1, <4>2
      <4> QED  BY <4>1, <4>2
    <3>3. ASSUME NEW m \in Calls, Uses(m, p)'
          PROVE  /\ call'[m].kind = "enrol" /\ call'[m].capture = j
                 /\ call'[m].label = "save" => call'[m].status = "HIGH"
      <4>1. CASE m # n
        BY <1>4, <3>0, <3>1, <3>3, <4>1
      <4>2. CASE m = n
        <5>1. Uses(n, p) /\ call'[n] = x /\ p = c.session
          BY <1>4, <3>0, <3>3, <4>2
        <5>2. c.kind = "enrol"
          BY <1>1, <3>1, <5>1
        <5> QED  BY <1>6, <1>7, <3>0, <4>2, <5>1, <5>2
      <4> QED  BY <4>1, <4>2
    <3> QED  BY <3>2, <3>3
  <2>2. ASSUME NEW m \in Calls, call'[m] # None, call'[m].kind = "verify",
               call'[m].label = "ok"
        PROVE  Settled(call[m].session, call[m].capture)'
    <3>1. PICK v : v = call'[m]
      OBVIOUS
    <3>2. CASE m = n
      <4>1. v = x
        BY <2>2, <3>1, <3>2
      <4>2. Settled(x.session, x.capture)'
        BY <2>2, <3>1, <4>1
      <4> QED  BY <3>1, <4>1, <4>2 DEF Settled
    <3>3. CASE m # n
      <4>1. v = call[m] /\ m \in Sent
        BY <2>2, <3>1, <3>3 DEF Sent
      <4>2. v.session \in Made /\ v.session \in Sessions
        BY <2>2, <3>1, <4>1, CallOfRow
      <4>3. Settled(v.session, v.capture) /\ Holds(m, v.session)
        BY <2>2, <3>1, <4>1 DEF ReliableInv, PassedSettled, Holds
      <4>4. CASE v.session # c.session
        <5>1. Settled(v.session, v.capture)'
          BY <4>2, <4>3, <4>4
        <5> QED  BY <3>1, <5>1 DEF Settled
      <4>5. CASE v.session = c.session
        <5>1. Holds(n, v.session) \/ Uses(n, v.session)
          BY <1>1, <4>5 DEF Holds, Uses, Call
        <5> QED  BY <1>1, <3>3, <4>2, <4>3, <5>1 DEF ReliableInv, OneHolder, UsedAlone
      <4> QED  BY <4>4, <4>5
    <3> QED  BY <3>2, <3>3
  <2> QED  BY <1>8, <2>1, <2>2 DEF PassedSettled, Sent
<1> QED  BY <1>9, <1>10, <1>11 DEF ReliableInv

\* A step of the backend that leaves what is settled.
LEMMA StepReliable ==
  ASSUME Assumptions, FaceInv, FaceInv', ReliableInv, UNCHANGED <<row, provider>>,
         NEW n \in Sent, NEW c, c = call[n], c.label # "create",
         NEW x \in Call, Step(n, x), x.session = c.session, x.kind = c.kind,
         ~(x.kind = "verify" /\ x.label = "ok"),
         phone.at = "onboarding" /\ phone.passed = c.session /\ x.kind = "enrol" =>
           x.capture = phone.capture /\ (x.label = "save" => x.status = "HIGH")
  PROVE  ReliableInv'
<1>1. \A s, k : Settled(s, k) => Settled(s, k)'
  BY DEF Settled
<1>2. \A m \in Calls : m # n => call'[m] = call[m]
  BY DEF Step, FaceInv, TypeOK
<1>3. call'[n] \in {x, None} /\ (n \in waiting => call'[n] = x)
  BY DEF Step, FaceInv, TypeOK, Sent
<1>4. UNCHANGED <<phone, waiting>>
  BY DEF Step
<1>5. \A s \in Made : \A k : s # c.session /\ Settled(s, k) => Settled(s, k)'
  BY <1>1
<1>6. \A k : k = phone.capture /\ Settled(c.session, k) => Settled(c.session, k)'
  BY <1>1
<1>7. ~(x.kind = "verify" /\ x.label = "ok")
  OBVIOUS
<1>8. Advances(n, c, x)
  BY <1>2, <1>3, <1>4, <1>5, <1>6, <1>7 DEF Advances
<1> QED  BY <1>8, AdvanceReliable

LEMMA SettledStays ==
  ASSUME UNCHANGED <<row, provider>>
  PROVE  \A s \in Made : \A k : Settled(s, k) => Settled(s, k)'
BY DEF Settled

LEMMA NotOnScreen ==
  ASSUME Assumptions, FaceInv, ReliableInv, phone.passed # None
  PROVE  phone.passed # phone.session
BY DEF FaceInv, TypeOK, Phone, ReliableInv, UsedAlone

LEMMA PhoneActsReliable ==
  ASSUME Assumptions, FaceInv, FaceInv', ReliableInv,
         Bootstrap \/ Cancel \/ CompleteLogin \/ Enrol \/ SignOut
  PROVE  ReliableInv'
<1>0. UNCHANGED <<row, provider>>
  BY DEF Bootstrap, Cancel, CompleteLogin, Enrol, SignOut, backend
<1>1. CASE Bootstrap
  <2>1. /\ phone'.at = phone.at /\ phone'.session = phone.session
        /\ phone'.passed = phone.passed /\ phone'.capture = phone.capture
    BY <1>1 DEF Bootstrap, FaceInv, TypeOK, Phone
  <2>2. Send("create", "create", None, 0)
    BY <1>1 DEF Bootstrap
  <2> QED  BY <1>0, <2>1, <2>2, SendReliable
<1>2. CASE Cancel
  <2>1. /\ phone'.at = phone.at /\ phone'.session = None
        /\ phone'.passed = phone.passed /\ phone'.capture = phone.capture
    BY <1>2 DEF Cancel, Closed, FaceInv, TypeOK, Phone
  <2>2. \A m \in Calls : call'[m] = call[m] \/ call'[m] = None
    BY <1>2 DEF Cancel, Forgotten
  <2> QED  BY <1>0, <2>1, <2>2, SettledStays, ShrunkReliable
<1>3. CASE CompleteLogin
  <2>1. PICK s : s = phone.passed
    OBVIOUS
  <2>2. Send("complete", "find", s, 0) /\ phone.at = "login" /\ phone' = phone
    BY <1>3, <2>1 DEF CompleteLogin
  <2> QED  BY <1>0, <2>1, <2>2, SendReliable
<1>4. CASE Enrol
  <2>1. PICK s : s = phone.passed
    OBVIOUS
  <2>2. PICK k : k = phone.capture
    OBVIOUS
  <2>3. Send("enrol", "find", s, k) /\ phone' = phone
    BY <1>4, <2>1, <2>2 DEF Enrol
  <2> QED  BY <1>0, <2>1, <2>2, <2>3, SendReliable
<1>5. CASE SignOut
  <2>1. phone'.session = phone.session /\ phone'.passed = None
    BY <1>5 DEF SignOut, FaceInv, TypeOK, Phone
  <2>2. call' = call /\ waiting' = waiting
    BY <1>5 DEF SignOut
  <2> QED  BY <1>0, <2>1, <2>2, SettledStays, ShrunkReliable
<1> QED  BY <1>1, <1>2, <1>3, <1>4, <1>5

LEMMA PressVerifyReliable ==
  ASSUME Assumptions, FaceInv, FaceInv', ReliableInv, PressVerify
  PROVE  ReliableInv'
<1>0. UNCHANGED <<row, provider>>
  BY DEF PressVerify, backend
<1>1. PICK s : s = phone.session
  OBVIOUS
<1>2. s \in Made /\ s \in Sessions /\ s # None /\ ~Verifying
  BY <1>1 DEF PressVerify, FaceInv, PhoneOK, Made
<1>3. CASE phone.at = "login"
  <2>1. phone' = Popped(s, 0) /\ waiting' = {} /\ call' = Forgotten(waiting)
    BY <1>1, <1>3 DEF PressVerify
  <2>2. phone'.at = "login" /\ phone'.session = None /\ phone'.passed = s
    BY <1>3, <2>1 DEF Popped, Closed, FaceInv, TypeOK, Phone
  <2>3. \A m \in Calls : call'[m] = call[m] \/ call'[m] = None
    BY <2>1 DEF Forgotten
  <2>4. ASSUME NEW m \in Calls, call'[m] # None, call'[m].session = s
        PROVE  call'[m].kind \in {"complete", "enrol"}
    <3>1. call'[m] = call[m] /\ m \in Sent /\ call[m] \in Call
      BY <2>3, <2>4 DEF Sent, FaceInv, TypeOK
    <3>2. ~Holds(m, s)
      <4>1. ASSUME Holds(m, s)  PROVE  FALSE
        <5>1. m \in waiting /\ call[m].kind # "create"
          BY <1>1, <1>2, <4>1 DEF ReliableInv, OneHolder
        <5> QED  BY <1>2, <5>1 DEF Verifying
      <4> QED  BY <4>1
    <3> QED  BY <2>4, <3>1, <3>2 DEF Holds, Call
  <2> QED  BY <1>0, <2>2, <2>3, <2>4, SettledStays, ShrunkReliable
<1>4. CASE phone.at # "login"
  <2>1. Send("verify", "find", s, 0) /\ phone' = phone
    BY <1>1, <1>4 DEF PressVerify
  <2> QED  BY <1>0, <1>1, <1>2, <2>1, SendReliable
<1> QED  BY <1>3, <1>4

LEMMA CaptureReliable ==
  ASSUME Assumptions, FaceInv, FaceInv', ReliableInv,
         NEW k \in 1 .. MaxCaptures, Capture(k)
  PROVE  ReliableInv'
<1>0. UNCHANGED <<row, provider>>
  BY DEF Capture
<1>1. PICK s : s = phone.session
  OBVIOUS
<1>2. s # None
  BY <1>1 DEF Capture, FaceInv, PhoneOK
<1>3. CASE Occupied
  <2>1. UNCHANGED <<phone, call, waiting>>
    BY <1>3 DEF Capture
  <2> QED  BY <1>0, <2>1, SettledStays, NotOnScreen, ShrunkReliable
<1>4. CASE ~Occupied
  <2>1. Send("bind", "find", s, k) /\ phone' = [phone EXCEPT !.handled = TRUE]
    BY <1>1, <1>4 DEF Capture
  <2>2. /\ phone'.at = phone.at /\ phone'.session = phone.session
        /\ phone'.passed = phone.passed /\ phone'.capture = phone.capture
    BY <2>1 DEF FaceInv, TypeOK, Phone
  <2>3. ~Verifying
    BY <1>4 DEF Occupied
  <2> QED  BY <1>0, <1>1, <1>2, <2>1, <2>2, <2>3, SendReliable
<1> QED  BY <1>3, <1>4

LEMMA ReceiveReliable ==
  ASSUME Assumptions, FaceInv, FaceInv', ReliableInv, NEW n \in Sent, Receive(n)
  PROVE  ReliableInv'
<1>0. UNCHANGED <<row, provider>>
  BY DEF Receive, backend
<1>1. PICK c : c = call[n]
  OBVIOUS
<1>2. c.label \in {"ok", "failed"} /\ n \in waiting
  BY <1>1 DEF Receive, Answered
<1>3. /\ n \in Calls /\ c \in Call /\ Good(c)
      /\ c.session \in Made /\ c.session \in Sessions
  BY <1>1, <1>2, CallOfRow
<1>4. PICK s : s = c.session
  OBVIOUS
<1>5. PICK k : k = c.capture
  OBVIOUS
<1>6. phone \in Phone
  BY DEF FaceInv, TypeOK
<1>7. CASE c.label = "ok" /\ c.kind = "bind" /\ phone.at # "login"
  <2>1. PICK x : x = NewCall("verify", "find", s, k)
    OBVIOUS
  <2>2. x \in Call /\ x.kind = "verify" /\ x.label = "find" /\ x.session = s
    BY <1>3, <1>4, <1>5, <2>1 DEF NewCall, Call
  <2>3. call' = [call EXCEPT ![n] = x] /\ waiting' = waiting /\ phone' = phone
    BY <1>1, <1>4, <1>5, <1>7, <2>1 DEF Receive, Accept
  <2>4. call'[n] = x /\ \A m \in Calls : m # n => call'[m] = call[m]
    BY <1>3, <2>3 DEF FaceInv, TypeOK
  <2>5. \A t, j : Settled(t, j) => Settled(t, j)'
    BY <1>0 DEF Settled
  <2>6. Advances(n, c, x)
    BY <1>4, <1>7, <2>2, <2>3, <2>4, <2>5 DEF Advances
  <2> QED  BY <1>1, <1>2, <2>2, <2>6, AdvanceReliable
<1>8. CASE ~(c.label = "ok" /\ c.kind = "bind" /\ phone.at # "login")
  <2>1. call' = [call EXCEPT ![n] = None] /\ waiting' = waiting \ {n}
    BY <1>1, <1>8 DEF Receive
  <2>2. call'[n] = None /\ \A m \in Calls : m # n => call'[m] = call[m]
    BY <1>3, <2>1 DEF FaceInv, TypeOK
  <2>3. \A m \in Calls : call'[m] = call[m] \/ call'[m] = None
    BY <2>2
  <2>4. \A m \in waiting : call'[m] # None => m \in waiting'
    BY <2>1, <2>2
  <2>5. ASSUME c.kind \in {"create", "bind", "verify"}
        PROVE  \A m \in Calls : call'[m] # None /\ call'[m].session = s =>
                 FALSE
    <3> SUFFICES ASSUME NEW m \in Calls, call'[m] # None, call'[m].session = s
                 PROVE  FALSE
      OBVIOUS
    <3>1. Holds(n, s)
      BY <1>1, <1>4, <2>5 DEF Holds
    <3>2. m # n /\ call'[m] = call[m] /\ m \in Sent /\ call[m] \in Call
      BY <2>2 DEF Sent, FaceInv, TypeOK
    <3>3. Holds(m, s) \/ Uses(m, s)
      BY <3>2 DEF Holds, Uses, Call
    <3> QED  BY <1>3, <1>4, <3>1, <3>2, <3>3 DEF ReliableInv, OneHolder, UsedAlone
  <2>6. CASE c.label # "ok"
    <3>1. Report(c)
      BY <1>1, <2>6 DEF Receive
    <3>2. /\ phone'.session = phone.session /\ phone'.at = phone.at
          /\ \/ phone'.passed = None
             \/ phone'.passed = phone.passed /\ phone'.capture = phone.capture
      BY <1>3, <1>6, <3>1 DEF Report, Phone, Call
    <3> QED  BY <1>0, <2>3, <2>4, <3>2, SettledStays, NotOnScreen, ShrunkReliable
  <2>7. CASE c.label = "ok" /\ c.kind = "create"
    <3>1. Accept(c)
      BY <1>1, <2>7 DEF Receive
    <3>2. /\ phone'.session = s /\ phone'.at = phone.at
          /\ phone'.passed = phone.passed /\ phone'.capture = phone.capture
      BY <1>4, <1>6, <2>7, <3>1 DEF Accept, Phone
    <3>3. phone.passed # s
      <4>1. Holds(n, s)
        BY <1>1, <1>4, <2>7 DEF Holds
      <4> QED  BY <1>3, <1>4, <4>1 DEF ReliableInv, UsedAlone
    <3> QED  BY <1>0, <2>3, <2>5, <2>7, <3>2, <3>3, SettledStays, ShrunkReliable
  <2>8. CASE c.label = "ok" /\ ((c.kind = "bind" /\ phone.at = "login") \/ c.kind = "verify")
    <3>1. phone' = Popped(s, k)
      BY <1>1, <1>4, <1>5, <2>8 DEF Receive, Accept
    <3>2. /\ phone'.session = None /\ phone'.at = phone.at
          /\ phone'.passed = s /\ phone'.capture = k
      BY <1>6, <3>1 DEF Popped, Closed, Phone
    <3>3. phone.at = "onboarding" => Settled(s, k)
      <4>1. c.kind = "verify" => Settled(c.session, c.capture)
        BY <1>1, <2>8 DEF ReliableInv, PassedSettled
      <4>2. phone.at = "onboarding" => c.kind = "verify"
        BY <2>8
      <4> QED  BY <1>4, <1>5, <4>1, <4>2
    <3>4. phone'.at = "onboarding" => Settled(phone'.passed, phone'.capture)
      BY <3>2, <3>3
    <3>5. c.kind \in {"create", "bind", "verify"}
      BY <2>8
    <3> QED  BY <1>0, <2>3, <2>5, <3>2, <3>4, <3>5, SettledStays, ShrunkReliable
  <2>9. CASE c.label = "ok" /\ c.kind \in {"complete", "enrol"}
    <3>1. Accept(c)
      BY <1>1, <2>9 DEF Receive
    <3>2. phone'.session = phone.session /\ phone'.passed = None
      BY <1>6, <2>9, <3>1 DEF Accept, Phone
    <3> QED  BY <1>0, <2>3, <2>4, <3>2, SettledStays, ShrunkReliable
  <2> QED  BY <1>3, <1>8, <2>6, <2>7, <2>8, <2>9 DEF Call
<1> QED  BY <1>7, <1>8

LEMMA ResultReliable ==
  ASSUME Assumptions, FaceInv, FaceInv', ReliableInv, NEW s \in Sessions, Result(s)
  PROVE  ReliableInv'
<1>1. /\ provider[s] = "CREATED"
      /\ \A t \in Sessions : t # s => provider'[t] = provider[t]
      /\ row' = row /\ UNCHANGED <<phone, call, waiting>>
  BY DEF Result, FaceInv, TypeOK
<1>2. row[s].source = "api"
  BY DEF Result
<1>3. \A t \in Made : \A k : Settled(t, k) => Settled(t, k)'
  <2> SUFFICES ASSUME NEW t \in Made, NEW k, Settled(t, k)  PROVE  Settled(t, k)'
    OBVIOUS
  <2>1. CASE t = s
    BY <1>1, <1>2, <2>1 DEF Settled
  <2>2. CASE t # s
    BY <1>1, <2>2 DEF Settled, Made
  <2> QED  BY <2>1, <2>2
<1> QED  BY <1>1, <1>3, NotOnScreen, ShrunkReliable

LEMMA CreateReliable ==
  ASSUME Assumptions, FaceInv, FaceInv', ReliableInv, NEW n \in Sent, CreateSession(n)
  PROVE  ReliableInv'
<1>1. PICK s \in Sessions \ Made :
        /\ call[n].label = "create"
        /\ \A t \in Made : row'[t] = row[t] /\ provider'[t] = provider[t]
        /\ Step(n, [call[n] EXCEPT !.label = "ok", !.session = s])
  BY DEF CreateSession, FaceInv, TypeOK, Made
<1>2. PICK c : c = call[n]
  OBVIOUS
<1>3. PICK x : x = [c EXCEPT !.label = "ok", !.session = s]
  OBVIOUS
<1>4. n \in Calls /\ c \in Call /\ Good(c) /\ c.kind = "create"
  BY <1>1, <1>2, CallRead DEF FaceInv, Good, CallFits
<1>5. x.kind = "create" /\ x.label = "ok" /\ x.session = s
  BY <1>3, <1>4 DEF Call
<1>6. /\ UNCHANGED <<phone, waiting>> /\ call'[n] \in {x, None}
      /\ \A m \in Calls : m # n => call'[m] = call[m]
  BY <1>1, <1>2, <1>3, <1>4 DEF Step, FaceInv, TypeOK
<1>7. s \in Sessions /\ s # None /\ s # phone.session /\ s # phone.passed
  BY <1>1 DEF FaceInv, PhoneOK, Assumptions
<1>8. \A m \in Sent : call[m].session # s
  BY <1>1, <1>7, CallRead DEF FaceInv, Good, CallFits
<1>9. \A t \in Sessions, m \in Calls : Holds(m, t)' =>
        \/ m # n /\ t # s /\ Holds(m, t) /\ call'[m] = call[m]
        \/ m = n /\ t = s
  BY <1>5, <1>6, <1>8 DEF Holds, Sent
<1>10. \A t \in Sessions, m \in Calls : Uses(m, t)' =>
         m # n /\ t # s /\ Uses(m, t) /\ call'[m] = call[m]
  BY <1>5, <1>6, <1>8 DEF Uses, Sent
<1>11. \A t \in Made : \A k : Settled(t, k) => Settled(t, k)'
  BY <1>1 DEF Settled
<1>12. PICK o : o = phone.session
  OBVIOUS
<1>13. PICK p : p = phone.passed
  OBVIOUS
<1>14. PICK j : j = phone.capture
  OBVIOUS
<1>15. phone'.session = o /\ phone'.passed = p /\ phone'.capture = j
  BY <1>6, <1>12, <1>13, <1>14
<1>16. OneHolder'
  <2> SUFFICES ASSUME NEW t \in Sessions, NEW i \in Calls, Holds(i, t)'
               PROVE  /\ \A m \in Calls : Holds(m, t)' => m = i
                      /\ o = t => i \in waiting' /\ call'[i].kind # "create"
    BY <1>15 DEF OneHolder
  <2>1. \A m \in Calls : Holds(m, t)' => m = i
    BY <1>9 DEF ReliableInv, OneHolder
  <2>2. ASSUME o = t  PROVE  i \in waiting' /\ call'[i].kind # "create"
    BY <1>6, <1>7, <1>9, <1>12, <2>2 DEF ReliableInv, OneHolder
  <2> QED  BY <2>1, <2>2
<1>17. UsedAlone'
  <2> SUFFICES ASSUME NEW t \in Sessions, p = t \/ \E m \in Calls : Uses(m, t)'
               PROVE  o # t /\ \A m \in Calls : ~Holds(m, t)'
    BY <1>15 DEF UsedAlone
  <2>1. t # s /\ (p = t \/ \E m \in Calls : Uses(m, t))
    BY <1>7, <1>10, <1>13
  <2>2. o # t /\ \A m \in Calls : ~Holds(m, t)
    BY <1>12, <1>13, <2>1 DEF ReliableInv, UsedAlone
  <2> QED  BY <1>9, <2>1, <2>2
<1>18. PassedSettled'
  <2>1. ASSUME phone'.at = "onboarding", p # None
        PROVE  /\ Settled(p, j)'
               /\ \A m \in Calls : Uses(m, p)' =>
                    /\ call'[m].kind = "enrol" /\ call'[m].capture = j
                    /\ call'[m].label = "save" => call'[m].status = "HIGH"
    <3>1. p \in Made /\ p \in Sessions /\ phone.at = "onboarding"
      BY <1>6, <1>13, <2>1 DEF FaceInv, PhoneOK, Made
    <3>2. /\ Settled(p, j)
          /\ \A m \in Calls : Uses(m, p) =>
                    /\ call[m].kind = "enrol" /\ call[m].capture = j
                    /\ call[m].label = "save" => call[m].status = "HIGH"
      BY <1>13, <1>14, <2>1, <3>1 DEF ReliableInv, PassedSettled
    <3>3. Settled(p, j)'
      BY <1>11, <3>1, <3>2
    <3> QED  BY <1>10, <3>1, <3>2, <3>3
  <2>2. ASSUME NEW m \in Calls, call'[m] # None, call'[m].kind = "verify",
               call'[m].label = "ok"
        PROVE  Settled(call[m].session, call[m].capture)'
    <3>1. call'[m] = call[m] /\ m \in Sent
      BY <1>5, <1>6, <2>2 DEF Sent
    <3>2. PICK v : v = call[m]
      OBVIOUS
    <3>3. Settled(v.session, v.capture) /\ v.session \in Made
      BY <2>2, <3>1, <3>2, CallOfRow DEF ReliableInv, PassedSettled
    <3>4. Settled(v.session, v.capture)'
      BY <1>11, <3>3
    <3> QED  BY <3>1, <3>2, <3>4 DEF Settled
  <2> QED  BY <1>15, <2>1, <2>2 DEF PassedSettled, Sent
<1> QED  BY <1>16, <1>17, <1>18 DEF ReliableInv

\* What the onboarding enrols with, at the backend.
LEMMA EnrolSettled ==
  ASSUME Assumptions, FaceInv, ReliableInv, NEW n \in Sent, NEW c, c = call[n],
         c.kind \in {"complete", "enrol"}, c.label # "create",
         phone.at = "onboarding", phone.passed = c.session
  PROVE  /\ c.kind = "enrol" /\ c.capture = phone.capture
         /\ Settled(c.session, c.capture)
         /\ c.label = "save" => c.status = "HIGH"
<1>1. c.session \in Sessions /\ c.session # None /\ n \in Calls
  BY CallOfRow DEF Made, FaceInv, TypeOK, Assumptions
<1>2. Uses(n, phone.passed)
  BY <1>1 DEF Uses
<1> QED  BY <1>1, <1>2 DEF ReliableInv, PassedSettled

LEMMA FindReliable ==
  ASSUME Assumptions, FaceInv, FaceInv', ReliableInv, NEW n \in Sent, Find(n)
  PROVE  ReliableInv'
<1>0. UNCHANGED <<row, provider>>
  BY DEF Find, Done, backend
<1>1. PICK c : c = call[n]
  OBVIOUS
<1>2. PICK r : r = row[c.session]
  OBVIOUS
<1>3. c.label = "find"
  BY <1>1 DEF Find
<1>4. n \in Calls /\ c \in Call /\ r \in Row
  BY <1>1, <1>2, <1>3, CallOfRow
<1>5. PICK x : \/ x = [[c EXCEPT !.row = r] EXCEPT !.label = "save", !.status = "HIGH",
                         !.capture = IF c.kind = "bind" THEN c.capture ELSE r.capture]
                  /\ Step(n, x)
               \/ x = [[c EXCEPT !.row = r] EXCEPT !.label = "result"] /\ Step(n, x)
               \/ x = [c EXCEPT !.label = "failed"] /\ Step(n, x)
  BY <1>1, <1>2 DEF Find, Done
<1>6. /\ x \in Call /\ x.kind = c.kind /\ x.session = c.session /\ Step(n, x)
      /\ x.label \in {"save", "result", "failed"}
      /\ x.label = "save" => x.status = "HIGH"
      /\ x.kind # "bind" => x.capture \in {c.capture, r.capture}
  BY <1>4, <1>5 DEF Call, Row, Status
<1>7. phone.at = "onboarding" /\ phone.passed = c.session /\ x.kind = "enrol" =>
        x.capture = phone.capture
  <2> SUFFICES ASSUME phone.at = "onboarding", phone.passed = c.session,
                      c.kind = "enrol"
               PROVE  x.capture = phone.capture
    BY <1>6
  <2>1. c.capture = phone.capture /\ Settled(c.session, c.capture)
    <3>1. c.kind \in {"complete", "enrol"} /\ c.label # "create"
      BY <1>3
    <3> QED  BY <1>1, <3>1, EnrolSettled
  <2>2. r.capture = phone.capture
    BY <1>2, <2>1 DEF Settled
  <2>3. x.capture \in {c.capture, r.capture}
    BY <1>6
  <2> QED  BY <2>1, <2>2, <2>3
<1> QED  BY <1>0, <1>1, <1>3, <1>6, <1>7, StepReliable

LEMMA GetResultReliable ==
  ASSUME Assumptions, FaceInv, FaceInv', ReliableInv, NEW n \in Sent, GetResult(n)
  PROVE  ReliableInv'
<1>0. UNCHANGED <<row, provider>>
  BY DEF GetResult, backend
<1>1. PICK c : c = call[n]
  OBVIOUS
<1>2. c.label = "result"
  BY <1>1 DEF GetResult
<1>3. n \in Calls /\ c \in Call /\ Good(c) /\ c.session \in Sessions
  BY <1>1, <1>2, CallOfRow
<1>4. PICK x : x = [c EXCEPT !.label = "save", !.status = provider[c.session]]
  OBVIOUS
<1>5. Step(n, x)
  BY <1>1, <1>4 DEF GetResult
<1>6. x \in Call /\ x.kind = c.kind /\ x.label = "save" /\ x.session = c.session
      /\ x.capture = c.capture /\ x.status = provider[c.session]
  BY <1>3, <1>4 DEF Call, FaceInv, TypeOK
<1>7. row[c.session].source = "api"
  BY <1>2, <1>3 DEF Good, CallKnows
<1>8. phone.at = "onboarding" /\ phone.passed = c.session /\ x.kind = "enrol" =>
        x.capture = phone.capture /\ x.status = "HIGH"
  <2> SUFFICES ASSUME phone.at = "onboarding", phone.passed = c.session, c.kind = "enrol"
               PROVE  c.capture = phone.capture /\ provider[c.session] = "HIGH"
    BY <1>6
  <2>1. c.capture = phone.capture /\ Settled(c.session, c.capture)
    BY <1>1, <1>2, EnrolSettled
  <2> QED  BY <1>7, <2>1 DEF Settled
<1> QED  BY <1>0, <1>1, <1>2, <1>5, <1>6, <1>8, StepReliable

LEMMA SaveRowReliable ==
  ASSUME Assumptions, FaceInv, FaceInv', ReliableInv, NEW n \in Sent, SaveRow(n)
  PROVE  ReliableInv'
<1>1. PICK c : c = call[n]
  OBVIOUS
<1>2. PICK s : s = c.session
  OBVIOUS
<1>3. c.label = "save"
  BY <1>1 DEF SaveRow
<1>4. /\ n \in Calls /\ c \in Call /\ Good(c) /\ s \in Made /\ s \in Sessions
      /\ c.kind \in {"bind", "verify", "complete", "enrol"}
  BY <1>1, <1>2, <1>3, CallOfRow DEF Good, CallFits, Call
<1>5. /\ c.row \in Row /\ c.row.source = row[s].source /\ c.status \in Status
      /\ c.row.source = "api" /\ c.status # "CREATED" => provider[s] = c.status
  BY <1>2, <1>3, <1>4 DEF Good, CallKnows
<1>6. PICK r : r = [c.row EXCEPT !.status = c.status, !.capture = c.capture]
  OBVIOUS
<1>7. r.source = row[s].source /\ r.status = c.status /\ r.capture = c.capture
  BY <1>4, <1>5, <1>6 DEF Row
<1>8. row' = [row EXCEPT ![s] = r] /\ provider' = provider
  BY <1>1, <1>2, <1>6 DEF SaveRow, Outcome
<1>9. row'[s] = r /\ \A t \in Sessions : t # s => row'[t] = row[t]
  BY <1>4, <1>8 DEF FaceInv, TypeOK
<1>10. \A t \in Made : \A k : t # s /\ Settled(t, k) => Settled(t, k)'
  BY <1>8, <1>9 DEF Settled, Made
<1>11. c.status = "HIGH" => \A k : k = c.capture => Settled(s, k)'
  BY <1>5, <1>7, <1>8, <1>9 DEF Settled
<1>12. PICK next : next =
          CASE c.kind = "bind" -> "ok"
            [] c.kind # "bind" /\ ~Passes(c) -> "failed"
            [] c.kind = "verify" /\ Passes(c) -> "ok"
            [] c.kind = "complete" /\ Passes(c) -> "touch"
            [] c.kind = "enrol" /\ Passes(c) -> "query"
  OBVIOUS
<1>13. /\ next \in {"ok", "failed", "touch", "query"}
       /\ next = "ok" /\ c.kind = "verify" => c.status = "HIGH"
  BY <1>4, <1>12 DEF Passes
<1>14. PICK x : x = [c EXCEPT !.label = next]
  OBVIOUS
<1>15. x \in Call /\ x.kind = c.kind /\ x.label = next /\ x.session = s
       /\ x.capture = c.capture
  BY <1>2, <1>4, <1>13, <1>14 DEF Call
<1>16. Step(n, x)
  BY <1>1, <1>12, <1>14 DEF SaveRow
<1>17. /\ UNCHANGED <<phone, waiting>>
       /\ \A m \in Calls : m # n => call'[m] = call[m]
       /\ call'[n] \in {x, None} /\ (n \in waiting => call'[n] = x)
  BY <1>4, <1>16 DEF Step, FaceInv, TypeOK
<1>18. x.kind = "verify" /\ x.label = "ok" => Settled(x.session, x.capture)'
  <2>1. PICK k : k = c.capture
    OBVIOUS
  <2>2. x.kind = "verify" /\ x.label = "ok" => Settled(s, k)'
    BY <1>11, <1>13, <1>15, <2>1
  <2> QED  BY <1>15, <2>1, <2>2
<1>19. ASSUME phone.at = "onboarding", phone.passed = c.session
       PROVE  /\ \A k : k = phone.capture => Settled(s, k)'
              /\ x.capture = phone.capture
  <2>1. c.kind \in {"complete", "enrol"}
    <3>1. phone.passed = s
      BY <1>2, <1>19
    <3>2. ~Holds(n, s)
      BY <1>4, <3>1 DEF ReliableInv, UsedAlone
    <3> QED  BY <1>1, <1>2, <1>4, <3>2 DEF Holds
  <2>2. c.capture = phone.capture /\ c.status = "HIGH"
    BY <1>1, <1>3, <1>19, <2>1, EnrolSettled
  <2> QED  BY <1>11, <1>15, <2>2
<1>20. Advances(n, c, x)
  BY <1>2, <1>10, <1>13, <1>15, <1>17, <1>18, <1>19 DEF Advances
<1> QED  BY <1>1, <1>3, <1>15, <1>20, AdvanceReliable

LEMMA TailReliable ==
  ASSUME Assumptions, FaceInv, FaceInv', ReliableInv, NEW n \in Sent,
         Touch(n) \/ RecordLogin(n) \/ Query(n)
  PROVE  ReliableInv'
<1>0. UNCHANGED <<row, provider>>
  BY DEF Touch, RecordLogin, Query, backend
<1>1. PICK c : c = call[n]
  OBVIOUS
<1>2. c.label \in {"touch", "record", "query"}
  BY <1>1 DEF Touch, RecordLogin, Query
<1>3. c \in Call /\ Good(c) /\ c.kind \in {"complete", "enrol"}
  BY <1>1, <1>2, CallOfRow DEF Good, CallFits
<1>4. PICK label \in {"record", "ok", "failed"} : Step(n, [c EXCEPT !.label = label])
  BY <1>1 DEF Touch, RecordLogin, Query
<1>5. PICK x : x = [c EXCEPT !.label = label]
  OBVIOUS
<1>6. x \in Call /\ x.kind = c.kind /\ x.label = label /\ x.session = c.session
      /\ x.capture = c.capture
  BY <1>3, <1>5 DEF Call
<1>7. phone.at = "onboarding" /\ phone.passed = c.session /\ x.kind = "enrol" =>
        x.capture = phone.capture
  BY <1>1, <1>2, <1>3, <1>6, EnrolSettled
<1>8. ~(x.kind = "verify" /\ x.label = "ok") /\ x.label # "save" /\ c.label # "create"
  BY <1>2, <1>3, <1>6
<1> QED  BY <1>0, <1>1, <1>4, <1>5, <1>6, <1>7, <1>8, StepReliable

LEMMA ReliableStep ==
  Assumptions /\ FaceInv /\ FaceInv' /\ mode = "reliable" /\ ReliableInv /\ [Next]_vars
    => ReliableInv'
<1> SUFFICES ASSUME Assumptions, FaceInv, FaceInv', mode = "reliable", ReliableInv,
                    [Next]_vars
             PROVE  ReliableInv'
  OBVIOUS
<1>1. CASE Bootstrap \/ Cancel \/ PressVerify \/ CompleteLogin \/ Enrol \/ SignOut
  BY <1>1, PhoneActsReliable, PressVerifyReliable
<1>2. CASE \E k \in 1 .. MaxCaptures : Capture(k)
  BY <1>2, CaptureReliable
<1>3. CASE \E s \in Sessions : Result(s)
  BY <1>3, ResultReliable
<1>4. CASE \E n \in Sent : Receive(n) \/ CreateSession(n) \/ Find(n) \/ GetResult(n)
  BY <1>4, ReceiveReliable, CreateReliable, FindReliable, GetResultReliable
<1>5. CASE \E n \in Sent : SaveRow(n) \/ Touch(n) \/ RecordLogin(n) \/ Query(n)
  BY <1>5, SaveRowReliable, TailReliable
<1>6. CASE UNCHANGED vars
  BY <1>6, SettledStays, NotOnScreen, ShrunkReliable DEF vars
<1>7. ~Kill /\ \A n \in Sent : ~Lose(n)
  BY DEF Kill, Lose
<1> QED  BY <1>1, <1>2, <1>3, <1>4, <1>5, <1>6, <1>7 DEF Next

LEMMA FaceHolds == ASSUME Assumptions PROVE Spec => []Inv
<1> USE Assumptions
<1>1. Init => Inv
  <2> SUFFICES ASSUME Init  PROVE  Inv
    OBVIOUS
  <2>1. FaceInv
    BY FaceInit
  <2>2. Sent = {} /\ phone.passed = None /\ phone.at = "login"
    BY DEF Init, Sent
  <2>3. ReliableInv
    BY <2>2 DEF ReliableInv, OneHolder, UsedAlone, PassedSettled, Holds, Uses, Assumptions
  <2> QED  BY <2>1, <2>3 DEF Inv
<1>2. Inv /\ [Next]_vars => Inv'
  <2> SUFFICES ASSUME Inv, [Next]_vars  PROVE  Inv'
    OBVIOUS
  <2>1. FaceInv'
    BY FaceStep DEF Inv
  <2>2. mode' = mode
    BY DEF Next, vars, Bootstrap, Cancel, PressVerify, CompleteLogin, Enrol, SignOut,
           Kill, Capture, Result, Receive, Lose, CreateSession, Find, GetResult,
           SaveRow, Touch, RecordLogin, Query, Step, Done
  <2>3. mode = "reliable" => ReliableInv'
    BY <2>1, ReliableStep DEF Inv
  <2> QED  BY <2>1, <2>2, <2>3 DEF Inv
<1> QED  BY <1>1, <1>2, PTL DEF Spec

\* The rows, the calls and the phone of a login check stay well formed, however
\* often the app is killed or an answer is lost (face-liveness.service.ts).
THEOREM TypeCorrect == ASSUME Assumptions PROVE Spec => []TypeOK
<1>1. Inv => TypeOK
  BY DEF Inv, FaceInv
<1> QED  BY <1>1, FaceHolds, PTL

\* A resident is let in only on a session the recogniser passed, once the row
\* says so, and a lost outcome costs no more than a new try
\* (face-liveness.service.ts, verify_liveness_screen.dart).
THEOREM FaceCheckSoundHolds == ASSUME Assumptions PROVE Spec => []FaceCheckSound
<1>1. Inv => FaceCheckSound
  BY DEF Inv, FaceInv, ReliableInv, PassedSettled, Settled, FaceCheckSound, OutcomeUsable
<1> QED  BY <1>1, FaceHolds, PTL
=============================================================================
