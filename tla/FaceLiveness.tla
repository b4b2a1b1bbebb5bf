---------------------------- MODULE FaceLiveness ----------------------------
(***************************************************************************)
(* The face check of one citizen, from the phone to the row it leaves:     *)
(* login_screen, face_liveness_screen and onboarding_screen (mobile/lib),  *)
(* createLivenessSession, bindEverifyLiveness, verifyLiveness,             *)
(* completeLogin and firstTimeEverify (auth.service.ts) and the provider   *)
(* of face checks.  A session of the source "sdk" is decided by the        *)
(* capture the phone binds to it, one of the source "api" by the provider. *)
(* When an answer is lost the phone reports an error and goes on; so does  *)
(* the backend.  What becomes of the profile is told in CitizenProfile.    *)
(***************************************************************************)
EXTENDS Naturals

CONSTANTS
    Sessions,     \* session tokens
    MaxCaptures,  \* bound: captures the camera page completes
    Calls,        \* bound: calls the backend works on at a time
    Modes,        \* "reliable"; "lossy": answers are lost, the app is killed
    None

VARIABLES
    row,        \* liveness_sessions, None if absent
    provider,   \* what the provider of face checks knows of a session
    captured,   \* the session a completed capture was made in, or None
    failures,   \* history: how often eVerify turned a capture down, to two
    recorded,   \* the sessions with a row in user_login_liveness
    enrolled,   \* everifyVerifiedAt is set
    phone,      \* the screen of the app
    call,       \* the calls not answered, or whose answer is not read
    waiting,    \* the calls the phone waits for
    mode

vars == <<row, provider, captured, failures, recorded, enrolled, phone, call,
          waiting, mode>>

backend == <<row, provider, captured, failures, recorded, enrolled>>

\* HIGH and LOW: SUCCEEDED with a confidence from and below the threshold
Status == {"CREATED", "HIGH", "LOW", "FAILED"}

Row == [source : {"sdk", "api"}, status : Status \cup {"pending"},
        capture : 0 .. MaxCaptures]

\* where the citizen is, the face screen with its _session and
\* _bridgeHandled, and the outcome it was closed with
Phone == [at : {"login", "onboarding", "home"},
          screen : {"closed", "loading", "error", "camera"},
          session : Sessions \cup {None}, handled : BOOLEAN,
          passed : Sessions \cup {None}, capture : 0 .. MaxCaptures]

\* what is asked, about which session and capture, and what was read so far
Call == [kind : {"create", "bind", "verify", "complete", "enrol"},
         label : {"create", "find", "result", "save", "touch", "record",
                  "query", "ok", "failed"},
         session : Sessions \cup {None}, capture : 0 .. MaxCaptures,
         row : Row \cup {None}, status : Status \cup {"none"}]

\* what is assumed of the constants
Assumptions ==
    /\ None \notin Sessions \cup Row \cup Call
    /\ MaxCaptures \in Nat
    /\ Modes \subseteq {"reliable", "lossy"}

Made == {s \in Sessions : row[s] # None}
Sent == {n \in Calls : call[n] # None}

----------------------------------------------------------------------------
(* The phone *)

\* _verifying, or the busy flag of the screen behind
Verifying == \E n \in waiting : call[n].kind # "create"

Answered(n) == n \in Sent /\ call[n].label \in {"ok", "failed"}

NewCall(kind, label, s, c) ==
    [kind |-> kind, label |-> label, session |-> s, capture |-> c,
     row |-> None, status |-> "none"]

Send(kind, label, s, c) ==
    \E n \in Calls \ Sent :
        /\ call' = [call EXCEPT ![n] = NewCall(kind, label, s, c)]
        /\ waiting' = waiting \cup {n}

\* the calls once the phone no longer waits for those of W
Forgotten(W) == [n \in Calls |-> IF n \in W /\ Answered(n) THEN None ELSE call[n]]

Closed == [phone EXCEPT !.screen = "closed", !.session = None,
                        !.handled = FALSE]

Popped(s, c) == [Closed EXCEPT !.passed = s, !.capture = c]

\* _bootstrap: the screen opens, or Retry, or the switch to the WebView and
\* back, which a session of the provider has at any time
Bootstrap ==
    /\ phone.at # "home"
    /\ phone.passed = None
    /\ phone.screen # "closed" =>
          \/ ~Verifying
          \/ phone.session # None /\ row[phone.session].source = "api"
    /\ Send("create", "create", None, 0)
    /\ phone' = [phone EXCEPT !.screen = "loading", !.handled = FALSE]
    /\ UNCHANGED <<backend, mode>>

\* Cancel, or back: later answers find the screen unmounted.
Cancel ==
    /\ phone.screen # "closed"
    /\ phone' = Closed
    /\ waiting' = {}
    /\ call' = Forgotten(waiting)
    /\ UNCHANGED <<backend, mode>>

\* The fault: every message of the page is forwarded.
NeverOccupied == FALSE

\* `if (_bridgeHandled || _verifying) return'
Occupied == phone.handled \/ Verifying

\* The page completes a capture and forwards it, once.
Capture(c) ==
    /\ phone.screen = "camera"
    /\ row[phone.session].source = "sdk"
    /\ captured[c] = None
    /\ c > 1 => captured[c - 1] # None
    /\ captured' = [captured EXCEPT ![c] = phone.session]
    /\ IF Occupied
       THEN UNCHANGED <<phone, call, waiting>>
       ELSE /\ Send("bind", "find", phone.session, c)
            /\ phone' = [phone EXCEPT !.handled = TRUE]
    /\ UNCHANGED <<row, provider, failures, recorded, enrolled, mode>>

\* `I finished - verify result': before the login the backend verifies
PressVerify ==
    LET s == phone.session IN
    /\ s # None
    /\ row[s].source = "api"
    /\ ~Verifying
    /\ IF phone.at = "login"
       THEN phone' = Popped(s, 0) /\ waiting' = {} /\ call' = Forgotten(waiting)
       ELSE Send("verify", "find", s, 0) /\ UNCHANGED phone
    /\ UNCHANGED <<backend, mode>>

\* login_screen, after the face screen was closed with an outcome
CompleteLogin ==
    /\ phone.at = "login"
    /\ phone.passed # None
    /\ ~Verifying
    /\ Send("complete", "find", phone.passed, 0)
    /\ UNCHANGED <<backend, phone, mode>>

\* _runEverify: `Verify with QR & finish'
Enrol ==
    /\ phone.at = "onboarding"
    /\ phone.passed # None
    /\ ~Verifying
    /\ Send("enrol", "find", phone.passed, phone.capture)
    /\ UNCHANGED <<backend, phone, mode>>

SignOut ==
    /\ phone.at = "onboarding"
    /\ phone.screen = "closed"
    /\ ~Verifying
    /\ phone' = [phone EXCEPT !.at = "login", !.passed = None, !.capture = 0]
    /\ UNCHANGED <<backend, call, waiting, mode>>

\* an answer that says yes
Accept(c) ==
    CASE c.kind = "create" ->
            phone' = [phone EXCEPT !.screen = "camera", !.session = c.session]
      [] c.kind = "bind" /\ phone.at = "login" ->
            phone' = Popped(c.session, c.capture)
      [] c.kind = "verify" -> phone' = Popped(c.session, c.capture)
      [] c.kind = "complete" ->
            phone' = [phone EXCEPT !.passed = None, !.capture = 0,
                         !.at = IF enrolled THEN "home" ELSE "onboarding"]
      [] c.kind = "enrol" ->
            phone' = [phone EXCEPT !.passed = None, !.capture = 0, !.at = "home"]
      [] OTHER -> UNCHANGED phone

\* an answer that says no, or none
Report(c) ==
    CASE c.kind = "create" -> phone' = [phone EXCEPT !.screen = "error"]
      [] c.kind \in {"bind", "verify"} ->
            phone' = [phone EXCEPT !.handled = FALSE]
      [] c.kind = "complete" -> phone' = [phone EXCEPT !.passed = None,
                                                       !.capture = 0]
      [] c.kind = "enrol" -> UNCHANGED phone

\* After a bind the screen of the onboarding verifies at once.
Receive(n) ==
    LET c == call[n] IN
    /\ n \in waiting
    /\ Answered(n)
    /\ IF c.label = "ok" THEN Accept(c) ELSE Report(c)
    /\ IF c.label = "ok" /\ c.kind = "bind" /\ phone.at # "login"
       THEN /\ call' = [call EXCEPT ![n] =
                           NewCall("verify", "find", c.session, c.capture)]
            /\ UNCHANGED waiting
       ELSE /\ call' = [call EXCEPT ![n] = None]
            /\ waiting' = waiting \ {n}
    /\ UNCHANGED <<backend, mode>>

Lose(n) ==
    /\ mode = "lossy"
    /\ n \in waiting
    /\ Report(call[n])
    /\ waiting' = waiting \ {n}
    /\ call' = Forgotten({n})
    /\ UNCHANGED <<backend, mode>>

\* The app restarts with the session it stored, if any.
Kill ==
    /\ mode = "lossy"
    /\ phone' = [Closed EXCEPT !.passed = None, !.capture = 0]
    /\ waiting' = {}
    /\ call' = Forgotten(waiting)
    /\ UNCHANGED <<backend, mode>>

----------------------------------------------------------------------------
(* The backend *)

\* An answer nobody waits for is dropped.
Step(n, next) ==
    /\ call' = [call EXCEPT ![n] =
                   IF n \in waiting \/ next.label \notin {"ok", "failed"}
                   THEN next ELSE None]
    /\ UNCHANGED <<phone, waiting, mode>>

Done(n, label) ==
    /\ Step(n, [call[n] EXCEPT !.label = label])
    /\ UNCHANGED backend

\* createLivenessSession
CreateSession(n) ==
    \E s \in Sessions \ Made, source \in {"sdk", "api"} :
        /\ call[n].label = "create"
        /\ row' = [row EXCEPT ![s] = [source |-> source, status |-> "pending",
                                      capture |-> 0]]
        /\ provider' = [provider EXCEPT ![s] = "CREATED"]
        /\ Step(n, [call[n] EXCEPT !.label = "ok", !.session = s])
        /\ UNCHANGED <<captured, failures, recorded, enrolled>>

\* The provider comes to a result, once.
Result(s) ==
    /\ s \in Made
    /\ row[s].source = "api"
    /\ provider[s] = "CREATED"
    /\ \E status \in Status \ {"CREATED"} :
          provider' = [provider EXCEPT ![s] = status]
    /\ UNCHANGED <<row, captured, failures, recorded, enrolled, phone, call,
                   waiting, mode>>

\* The row is found by the session token, or by the capture bound to it.
Finds(c) == c.kind = "enrol" /\ c.capture # 0 =>
                row[c.session].capture = c.capture

\* bindEverifyLiveness and verifyLiveness read the row.
Find(n) ==
    LET c == call[n]
        r == row[c.session]
        read == [c EXCEPT !.row = r] IN
    /\ c.label = "find"
    /\ CASE c.kind = "bind" \/ (Finds(c) /\ r.source = "sdk" /\ r.status = "HIGH") ->
              /\ Step(n, [read EXCEPT !.label = "save", !.status = "HIGH",
                             !.capture = IF c.kind = "bind" THEN c.capture
                                         ELSE r.capture])
              /\ UNCHANGED backend
         [] c.kind # "bind" /\ Finds(c) /\ r.source = "api" ->
              Step(n, [read EXCEPT !.label = "result"]) /\ UNCHANGED backend
         [] OTHER -> Done(n, "failed")

\* liveness.getResult
GetResult(n) ==
    /\ call[n].label = "result"
    /\ Step(n, [call[n] EXCEPT !.label = "save",
                               !.status = provider[call[n].session]])
    /\ UNCHANGED backend

\* The fault: any answer of the provider lets the citizen in.
AnyStatus(c) == c.kind = "complete" \/ c.status = "HIGH"

\* a login is content with SUCCEEDED, the rest with nothing below the threshold
Passes(c) == c.status = "HIGH" \/ (c.kind = "complete" /\ c.status = "LOW")

\* The fault: a session with a capture is marked as bound, not as passed.
MarkedBound(c) == IF c.kind = "bind" THEN "bound" ELSE c.status

\* row.status = result.status
Outcome(c) == c.status

\* livenessSessions.save(row) of the row that was read
SaveRow(n) ==
    LET c == call[n] IN
    /\ c.label = "save"
    /\ row' = [row EXCEPT ![c.session] =
                  [c.row EXCEPT !.status = Outcome(c), !.capture = c.capture]]
    /\ Step(n, [c EXCEPT !.label =
          CASE c.kind = "bind" -> "ok"
            [] c.kind # "bind" /\ ~Passes(c) -> "failed"
            [] c.kind = "verify" /\ Passes(c) -> "ok"
            [] c.kind = "complete" /\ Passes(c) -> "touch"
            [] c.kind = "enrol" /\ Passes(c) -> "query"])
    /\ UNCHANGED <<provider, captured, failures, recorded, enrolled>>

\* completeLogin reads the row again and sets its purpose.
Touch(n) ==
    /\ call[n].label = "touch"
    /\ Step(n, [call[n] EXCEPT !.label = "record"])
    /\ UNCHANGED backend

\* INSERT INTO user_login_liveness, then the tokens
RecordLogin(n) ==
    LET c == call[n] IN
    /\ c.label = "record"
    /\ recorded' = recorded \cup {c.session}
    /\ Step(n, [c EXCEPT !.label = "ok"])
    /\ UNCHANGED <<row, provider, captured, failures, enrolled>>

\* eVerify, asked with the capture, or with the session of the provider
Query(n) ==
    LET c == call[n] IN
    /\ c.label = "query"
    /\ \/ /\ enrolled' = TRUE
          /\ Step(n, [c EXCEPT !.label = "ok"])
          /\ UNCHANGED failures
       \/ /\ failures' = [failures EXCEPT ![c.capture] = IF @ = 2 THEN 2 ELSE @ + 1]
          /\ Step(n, [c EXCEPT !.label = "failed"])
          /\ UNCHANGED enrolled
    /\ UNCHANGED <<row, provider, captured, recorded>>

----------------------------------------------------------------------------
Init ==
    /\ row = [s \in Sessions |-> None]
    /\ provider = [s \in Sessions |-> "CREATED"]
    /\ captured = [c \in 1 .. MaxCaptures |-> None]
    /\ failures = [c \in 0 .. MaxCaptures |-> 0]
    /\ recorded = {}
    /\ enrolled = FALSE
    /\ phone = [at |-> "login", screen |-> "closed", session |-> None,
                handled |-> FALSE, passed |-> None, capture |-> 0]
    /\ call = [n \in Calls |-> None]
    /\ waiting = {}
    /\ mode \in Modes

Next ==
    \/ Bootstrap \/ Cancel \/ PressVerify \/ CompleteLogin \/ Enrol \/ SignOut
    \/ Kill
    \/ \E c \in 1 .. MaxCaptures : Capture(c)
    \/ \E s \in Sessions : Result(s)
    \/ \E n \in Sent :
        \/ Receive(n) \/ Lose(n)
        \/ CreateSession(n) \/ Find(n) \/ GetResult(n) \/ SaveRow(n)
        \/ Touch(n) \/ RecordLogin(n) \/ Query(n)

Spec == Init /\ [][Next]_vars

----------------------------------------------------------------------------
(* Properties *)

\* The tables, the screen and the calls hold what they can.
TypeOK ==
    /\ row \in [Sessions -> Row \cup {None}]
    /\ provider \in [Sessions -> Status]
    /\ captured \in [1 .. MaxCaptures -> Sessions \cup {None}]
    /\ failures \in [0 .. MaxCaptures -> 0 .. 2]
    /\ recorded \subseteq Sessions
    /\ enrolled \in BOOLEAN
    /\ phone \in Phone
    /\ call \in [Calls -> Call \cup {None}]
    /\ waiting \subseteq Sent
    /\ mode \in Modes

\* What the onboarding is about to enrol with is what the backend will find:
\* the session passed, and the capture is the one bound to it.  An earlier
\* capture, a cancelled check or a switch of the view does not come between,
\* as long as answers arrive.
OutcomeUsable ==
    mode = "reliable" /\ phone.at = "onboarding" /\ phone.passed # None =>
        /\ row[phone.passed].status = "HIGH"
        /\ row[phone.passed].capture = phone.capture

\* Every login on record is of somebody the camera or the provider saw, and
\* nobody is past the login without one.
PresenceBeforeSession ==
    /\ phone.at # "login" => recorded # {}
    /\ \A s \in recorded :
          IF row[s].source = "sdk"
          THEN \E c \in 1 .. MaxCaptures : captured[c] = s
          ELSE provider[s] \in {"HIGH", "LOW"}

\* Somebody was there, and what passed is there to be used.
FaceCheckSound == OutcomeUsable /\ PresenceBeforeSession

\* "do not reuse a session after a failed /api/query"
FreshCapturePerQuery == \A c \in 1 .. MaxCaptures : failures[c] <= 1

=============================================================================
