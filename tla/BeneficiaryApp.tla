--------------------------- MODULE BeneficiaryApp ---------------------------
(***************************************************************************)
(* A citizen's mobile application: home, the screen of a program, the      *)
(* claim QR, the schedule, the messages and an application's details.      *)
(* Every screen is put together from several requests, one after the       *)
(* other, while the staff work on the citizen's cases.  On the server a    *)
(* request is one step here: races of requests are CaseWorkflow's and      *)
(* DisbursementBooking's, windows SlotPlanning's.                          *)
(***************************************************************************)
EXTENDS Integers, FiniteSets, FiniteSetsExt

CONSTANTS
    Programs, Slots,
    MaxCases,   \* bound: cases of the citizen, numbered as they are created
    Journeys,   \* the sets of screens that a behaviour loads
    MaxOps,     \* bound: what the citizen taps on a journey
    Modes,      \* "reliable" and "lossy"
    None

Ids     == 1..MaxCases
Screens == {"home", "program", "qr", "schedule", "messages", "detail"}
Views   == Screens \cup {"programs", "apps", "badge"}

VARIABLES
    cases,      \* applications of the citizen, and whether a cooldown is over
    booked,     \* the slot that a case has booked
    seats,      \* "open", "full", or "near" when its day is too near
    notes,      \* the message about the outcome of a case
    shut,       \* programs outside of their application period, or without an
                \* office that takes new work: no answer to the app says so
    at, below,  \* the screen on top, and the one it was opened from
    home, prog, qr, sched, msgs, detail,    \* what the screens show
    orphans,    \* programs with a submission whose screen was left
    moved,      \* views that the server has left behind since they were asked
    journey, mode, ops

server  == <<cases, booked, seats, notes, shut>>
others  == <<journey, mode>>
screens == <<home, prog, qr, sched, msgs, detail>>
vars    == <<server, at, below, screens, orphans, moved, ops, others>>

Statuses == {"none", "in_evaluation", "in_approval", "approved", "rejected", "claimed"}
Shown    == {"none", "under_review", "recommended", "approved", "declined", "claimed"}
Gates    == {"none", "open", "in_progress", "cooldown"}
Answers  == {"none", "sent", "done", "closed", "failed"}

Case == [program : Programs \cup {None}, status : Statuses, cooled : BOOLEAN]
Home == [gates : [Programs -> Gates], apps : [Ids -> Shown], badge : 0..MaxCases,
         asked : SUBSET {"programs", "apps", "badge"}]
Prog == [program : Programs, stage : {"detail", "list", "apps", "shown"},
         gate : Gates, existing : Shown, post : Answers]
Qr   == [program : Programs, stage : {"program", "apps", "bookings", "shown"},
         approved : SUBSET Ids, case : Ids \cup {None}]
Schedule == [stage : {"apps", "bookings", "slots", "shown", "error"},
             approved : SUBSET Ids, chosen : Ids \cup {None},
             mine : [Ids -> Slots \cup {None}], slots : SUBSET Slots,
             wish : Slots \cup {None}, post : Answers]
Inbox  == [stage : {"asked", "shown", "error"}, open : SUBSET Ids,
           items : [Ids -> {"none", "unread", "read"}]]
Detail == [case : Ids, shown : Shown, polls : SUBSET Shown]

\* what is assumed of the constants
Assumptions ==
    /\ MaxCases \in Nat /\ MaxOps \in [Journeys -> Nat]
    /\ None \notin Programs \cup Slots \cup Ids
    /\ None \notin Prog \cup Qr \cup Schedule \cup Inbox \cup Detail
    /\ Journeys \subseteq SUBSET Screens /\ Modes \subseteq {"reliable", "lossy"}

----------------------------------------------------------------------------
(* What the server answers *)

Of(p)     == {c \in Ids : cases[c].program = p}
Is(c, S)  == cases[c].status \in S
Pending   == {"in_evaluation", "in_approval"}

\* getProgramApplyGate: the last claim counts
Gate(p) ==
    LET claimed == {c \in Of(p) : Is(c, {"claimed"})} IN
    IF \E c \in Of(p) : Is(c, Pending \cup {"approved"}) THEN "in_progress"
    ELSE IF claimed # {} /\ ~cases[Max(claimed)].cooled THEN "cooldown" ELSE "open"

\* The fault: the statuses are not translated.
ServerStatus(c) == cases[c].status

\* TO_CLIENT_STATUS
ClientStatus(c) ==
    CASE cases[c].status = "in_evaluation" -> "under_review"
      [] cases[c].status = "in_approval"   -> "recommended"
      [] cases[c].status = "rejected"      -> "declined"
      [] OTHER -> cases[c].status

Reviewed == {"under_review", "recommended"}
Over     == {"declined", "claimed"}

\* listMyApplications: what goes on first, of equals the youngest
Rank(c) == CASE ClientStatus(c) = "under_review" -> 1
             [] ClientStatus(c) = "recommended"  -> 2
             [] ClientStatus(c) = "approved"     -> 3
             [] ClientStatus(c) = "claimed"      -> 4
             [] OTHER -> 5

Precedes(c, d) == Rank(c) < Rank(d) \/ (Rank(c) = Rank(d) /\ c > d)
First(S) == CHOOSE c \in S : \A d \in S \ {c} : Precedes(c, d)

\* listApplicationsForAi: the youngest case that goes on, or the youngest
InProgress(c) == ~Is(c, {"none"}) /\ ClientStatus(c) \notin Over

\* The fault: always the youngest.
Youngest ==
    LET all == {c \in Ids : ~Is(c, {"none"})} IN IF all # {} THEN Max(all) ELSE None

Preferred ==
    LET all == {c \in Ids : ~Is(c, {"none"})}
        on  == {c \in all : InProgress(c)} IN
    IF on # {} THEN Max(on) ELSE IF all # {} THEN Max(all) ELSE None

Unread == Cardinality({c \in Ids : notes[c] = "unread"})

----------------------------------------------------------------------------
(* The staff, and the other citizens *)

ServerMoves == moved' = Views

StaffStep ==
    /\ ServerMoves
    /\ UNCHANGED <<seats, shut, at, below, screens, orphans, ops, others>>

Endorse(c) ==
    /\ Is(c, {"in_evaluation"})
    /\ cases' = [cases EXCEPT ![c].status = "in_approval"]
    /\ StaffStep
    /\ UNCHANGED <<booked, notes>>

\* notifyApplicationApproved and notifyApplicationDeclined may fail unseen
Decide(c) ==
    /\ \/ Is(c, Pending) /\ cases' = [cases EXCEPT ![c].status = "rejected"]
       \/ Is(c, {"in_approval"}) /\ cases' = [cases EXCEPT ![c].status = "approved"]
    /\ \E told \in {TRUE, mode = "reliable"} :
           notes' = [notes EXCEPT ![c] = IF told THEN "unread" ELSE @]
    /\ StaffStep
    /\ UNCHANGED booked

Claim(c) ==
    /\ Is(c, {"approved"}) /\ booked[c] # None
    /\ cases' = [cases EXCEPT ![c].status = "claimed"]
    /\ StaffStep
    /\ UNCHANGED <<booked, notes>>

Cool(c) ==
    /\ Is(c, {"claimed"}) /\ ~cases[c].cooled
    /\ cases' = [cases EXCEPT ![c].cooled = TRUE]
    /\ StaffStep
    /\ UNCHANGED <<booked, notes>>

\* (in the behaviours that a slot matters to)
TurnSlot(s) ==
    /\ "schedule" \in journey /\ seats[s] # "near"
    /\ \E x \in {"open", "full", "near"} \ {seats[s]} : seats' = [seats EXCEPT ![s] = x]
    /\ ServerMoves
    /\ UNCHANGED <<cases, booked, notes, shut, at, below, screens, orphans, ops,
                   others>>

\* Time passes, or the staff set the windows or the offices otherwise: no
\* screen is made of it (in the behaviours that a program matters to).
TurnPeriod(p) ==
    /\ "program" \in journey
    /\ shut' = IF p \in shut THEN shut \ {p} ELSE shut \cup {p}
    /\ UNCHANGED <<cases, booked, seats, notes, at, below, screens, orphans, moved,
                   ops, others>>

----------------------------------------------------------------------------
(* Moving between screens *)

\* The citizen taps something; the server stands still.
Taps ==
    /\ ops < MaxOps[journey]
    /\ ops' = ops + 1
    /\ UNCHANGED <<server, others>>

Lossy == mode = "lossy"

NewProg(p) == [program |-> p, stage |-> "detail", gate |-> "none",
               existing |-> "none", post |-> "none"]
NewQr(p)   == [program |-> p, stage |-> "program", approved |-> {}, case |-> None]
NewSchedule == [stage |-> "apps", approved |-> {}, chosen |-> None,
                mine |-> [c \in Ids |-> None], slots |-> {}, wish |-> None,
                post |-> "none"]
NewInbox == [stage |-> "asked", open |-> {}, items |-> [c \in Ids |-> "none"]]
NewDetail(c) == [case |-> c, shown |-> "none", polls |-> {ClientStatus(c)}]

Go(screen) ==
    /\ screen \in journey
    /\ at' = screen
    /\ moved' = moved \ {screen}
    /\ UNCHANGED orphans

OpenProgram(p) ==
    /\ Taps /\ at = "home" /\ home.gates[p] # "none"
    /\ Go("program") /\ prog' = NewProg(p)
    /\ UNCHANGED <<below, home, qr, sched, msgs, detail>>

OpenMessages ==
    /\ Taps /\ at = "home"
    /\ Go("messages") /\ msgs' = NewInbox
    /\ UNCHANGED <<below, home, prog, qr, sched, detail>>

OpenDetail(c) ==
    /\ Taps /\ at = "home" /\ home.apps[c] # "none"
    /\ Go("detail") /\ detail' = NewDetail(c)
    /\ UNCHANGED <<below, home, prog, qr, sched, msgs>>

OpenSchedule ==
    /\ Taps
    /\ at = "home" \/ (at = "detail" /\ detail.shown = "approved")
    /\ Go("schedule") /\ sched' = NewSchedule /\ below' = at
    /\ UNCHANGED <<home, prog, qr, msgs, detail>>

\* What the screen of a program shows
Waiting  == prog.existing \in Reviewed
Approved == prog.existing = "approved"

ProgView ==
    IF prog.stage # "shown" THEN "loading"
    ELSE IF prog.gate = "none" THEN "not_found"
    ELSE IF Waiting THEN "waiting"
    ELSE IF Approved THEN "approved"
    ELSE IF prog.gate = "cooldown" THEN "cooldown" ELSE "form"

QrScreenOf(p) ==
    \/ at = "program" /\ ProgView = "approved" /\ prog.program = p
    \/ at = "detail" /\ detail.shown = "approved" /\ cases[detail.case].program = p

OpenQr(p) ==
    /\ Taps /\ QrScreenOf(p)
    /\ Go("qr") /\ qr' = NewQr(p)
    /\ UNCHANGED <<below, home, prog, sched, msgs, detail>>

\* From the schedule back to where it was opened, from the others home; a
\* submission goes on without its screen.
Back ==
    /\ Taps /\ at # "home"
    /\ at' = IF at = "schedule" THEN below ELSE "home"
    /\ below' = "home"
    /\ orphans' = IF at = "program" /\ prog.post = "sent"
                  THEN orphans \cup {prog.program} ELSE orphans
    /\ at = "program" /\ prog.post = "sent" => prog.program \notin orphans
    /\ prog' = IF at = "schedule" THEN prog ELSE None
    /\ qr' = None /\ sched' = None
    /\ msgs' = IF at = "schedule" THEN msgs ELSE None
    /\ detail' = IF at = "schedule" THEN detail ELSE None
    /\ UNCHANGED <<home, moved>>

----------------------------------------------------------------------------
(* Home *)

AppStep == UNCHANGED <<server, at, below, orphans, ops, others>>

PullToRefresh ==
    /\ Taps /\ at = "home" /\ "home" \in journey
    /\ home.asked = {}
    /\ home' = [home EXCEPT !.asked = {"programs", "apps", "badge"}]
    /\ moved' = moved \ {"programs", "apps", "badge"}
    /\ UNCHANGED <<at, below, prog, qr, sched, msgs, detail, orphans>>

\* listPrograms, listMyApplications and listMyNotifications
LoadHome(what) ==
    /\ what \in home.asked
    /\ \E got \in {TRUE, ~Lossy} :
       home' = [asked |-> home.asked \ {what},
          gates |-> IF what # "programs" THEN home.gates
                    ELSE [p \in Programs |-> IF got THEN Gate(p) ELSE "none"],
          apps  |-> IF what # "apps" THEN home.apps
                    ELSE [c \in Ids |-> IF got THEN ClientStatus(c) ELSE "none"],
          badge |-> IF what # "badge" THEN home.badge
                    ELSE IF got THEN Unread ELSE 0]
    /\ AppStep
    /\ UNCHANGED <<moved, prog, qr, sched, msgs, detail>>

----------------------------------------------------------------------------
(* The screen of a program *)

SetProg(new) ==
    /\ prog' = new
    /\ AppStep
    /\ UNCHANGED <<home, qr, sched, msgs, detail, moved>>

ProgIs(stage) == prog # None /\ prog.stage = stage

\* _loadNestProgram, and the list as its fallback
LoadProgram ==
    /\ ProgIs("detail")
    /\ \/ SetProg([prog EXCEPT !.gate = Gate(prog.program), !.stage = "apps"])
       \/ Lossy /\ SetProg([prog EXCEPT !.stage = "list"])

LoadFromList ==
    /\ ProgIs("list")
    /\ \/ SetProg([prog EXCEPT !.gate = Gate(prog.program), !.stage = "apps"])
       \/ SetProg([prog EXCEPT !.stage = "apps"])

\* _loadExistingApplication: without an answer there is no case
Existing(p) ==
    LET on == {c \in Of(p) : ClientStatus(c) \notin Over} IN
    IF on = {} THEN "none" ELSE ClientStatus(First(on))

LoadExisting ==
    /\ ProgIs("apps")
    /\ \/ SetProg([prog EXCEPT !.existing = Existing(prog.program), !.stage = "shown"])
       \/ Lossy /\ SetProg([prog EXCEPT !.stage = "shown"])

InFlight == Cardinality(orphans)

Submit ==
    /\ Taps /\ at = "program" /\ ProgView = "form" /\ prog.post = "none"
    /\ Cardinality({c \in Ids : ~Is(c, {"none"})}) + InFlight < MaxCases
    /\ prog' = [prog EXCEPT !.post = "sent"]
    /\ UNCHANGED <<at, below, home, qr, sched, msgs, detail, orphans, moved>>

\* createApplication, for the screen or for one that was left
Created(p) ==
    LET c == Min({c \in Ids : Is(c, {"none"})}) IN
    [cases EXCEPT ![c] = [program |-> p, status |-> "in_evaluation", cooled |-> FALSE]]

Sends(p) == prog # None /\ prog.program = p /\ prog.post = "sent"

\* The fault: once claimed is never again, whatever the gate says.
OutcomeOfFirst(p) ==
    IF Gate(p) # "open" \/ \E c \in Of(p) : Is(c, {"claimed"}) THEN "failed"
    ELSE IF p \in shut THEN "closed" ELSE "done"

\* what assertCanApplyForProgram, the office and assertApplicationPeriodOpen make
\* of an application to be submitted at once
Outcome(p) ==
    IF Gate(p) # "open" THEN "failed" ELSE IF p \in shut THEN "closed" ELSE "done"

ServeSubmit(p) ==
    /\ Sends(p) \/ p \in orphans
    /\ IF Outcome(p) = "done" THEN cases' = Created(p) /\ ServerMoves
       ELSE UNCHANGED <<cases, moved>>
    /\ \/ /\ Sends(p)
          /\ \E post \in {Outcome(p)} \cup (IF Lossy THEN {"failed"} ELSE {}) :
                 prog' = [prog EXCEPT !.post = post]
          /\ UNCHANGED orphans
       \/ /\ p \in orphans
          /\ orphans' = orphans \ {p}
          /\ UNCHANGED prog
    /\ UNCHANGED <<booked, seats, notes, shut, at, below, home, qr, sched, msgs,
                   detail, ops, others>>

\* The screen that says so is left for home only.
EndSubmit ==
    /\ prog # None /\ prog.post \in {"done", "closed", "failed"}
    /\ at' = IF prog.post = "done" THEN "pending" ELSE at
    /\ prog' = [prog EXCEPT !.post = "none"]
    /\ UNCHANGED <<server, below, home, qr, sched, msgs, detail, orphans, moved,
                   ops, others>>

----------------------------------------------------------------------------
(* The claim QR: _load of DisbursementQrScreen *)

SetQr(new) ==
    /\ qr' = new
    /\ AppStep
    /\ UNCHANGED <<home, prog, sched, msgs, detail, moved>>

QrIs(stage) == qr # None /\ qr.stage = stage

\* any request may fail, and the screen says so
LoseQr == Lossy /\ qr # None /\ qr.stage # "shown" /\ SetQr([qr EXCEPT !.stage = "shown"])

LoadQrProgram == QrIs("program") /\ SetQr([qr EXCEPT !.stage = "apps"])

LoadQrApps ==
    /\ QrIs("apps")
    /\ LET approved == {c \in Of(qr.program) : ClientStatus(c) = "approved"} IN
       SetQr([qr EXCEPT !.approved = approved,
                        !.stage = IF approved = {} THEN "shown" ELSE "bookings"])

Matches(c) == c \in qr.approved /\ booked[c] # None /\ ~Is(c, {"claimed"})

LoadQrBookings ==
    /\ QrIs("bookings")
    /\ IF \E c \in Ids : Matches(c)
       THEN \E c \in Ids : Matches(c) /\ SetQr([qr EXCEPT !.case = c, !.stage = "shown"])
       ELSE SetQr([qr EXCEPT !.stage = "shown"])

----------------------------------------------------------------------------
(* The schedule *)

SetSched(new) ==
    /\ sched' = new
    /\ AppStep
    /\ UNCHANGED <<home, prog, qr, msgs, detail, moved>>

SchedIs(stage) == sched # None /\ sched.stage = stage

LoseSched ==
    /\ Lossy /\ sched # None /\ sched.stage \in {"apps", "bookings", "slots"}
    /\ SetSched([sched EXCEPT !.stage = "error"])

LoadSchedApps ==
    /\ SchedIs("apps")
    /\ SetSched([sched EXCEPT !.stage = "bookings",
          !.approved = {c \in Ids : ClientStatus(c) = "approved"}])

Chosen ==
    IF sched.chosen # None THEN sched.chosen
    ELSE IF sched.approved # {} THEN First(sched.approved) ELSE None

LoadSchedBookings ==
    /\ SchedIs("bookings")
    /\ SetSched([sched EXCEPT !.stage = "slots", !.mine = booked, !.chosen = Chosen])

\* listBookableSlots refuses for a case that is no longer approved
LoadSlots ==
    /\ SchedIs("slots")
    /\ SetSched(
          IF sched.chosen # None /\ ~Is(sched.chosen, {"approved"})
          THEN [sched EXCEPT !.stage = "error"]
          ELSE [sched EXCEPT !.stage = "shown",
                    !.slots = IF sched.chosen = None THEN {}
                              ELSE {s \in Slots : seats[s] = "open"}])

TapSched(new) ==
    /\ Taps /\ at = "schedule" /\ SchedIs("shown") /\ sched.post = "none"
    /\ sched' = new
    /\ UNCHANGED <<at, below, home, prog, qr, msgs, detail, orphans>>

\* The citizen does not change the case while a booking is on its way.
ChooseCase ==
    /\ at = "schedule"
    /\ \E c \in sched.approved \ {sched.chosen} :
           /\ TapSched([sched EXCEPT !.chosen = c, !.stage = "apps"])
           /\ moved' = moved \ {"schedule"}

Book ==
    /\ at = "schedule"
    /\ \E s \in sched.slots : TapSched([sched EXCEPT !.wish = s, !.post = "sent"])
    /\ UNCHANGED moved

\* bookDisbursementSlot
Accepts(c, s) ==
    /\ Is(c, {"approved"}) /\ seats[s] = "open" /\ s # booked[c]
    /\ booked[c] # None => seats[booked[c]] # "near"

ServeBook ==
    /\ sched # None /\ sched.post = "sent"
    /\ LET ok == Accepts(sched.chosen, sched.wish) IN
       /\ booked' = [booked EXCEPT ![sched.chosen] = IF ok THEN sched.wish ELSE @]
       /\ moved' = IF ok THEN Views ELSE moved
       /\ \E lost \in {FALSE, Lossy} :
              sched' = [sched EXCEPT !.post = IF ok /\ ~lost THEN "done" ELSE "failed"]
    /\ UNCHANGED <<cases, seats, notes, shut, at, below, home, prog, qr, msgs,
                   detail, orphans, ops, others>>

\* what was booked is loaded anew
EndBook ==
    /\ sched # None /\ sched.post \in {"done", "failed"}
    /\ sched' = [sched EXCEPT !.post = "none", !.wish = None,
                              !.stage = IF sched.post = "done" THEN "apps" ELSE @]
    /\ moved' = IF sched.post = "done" THEN moved \ {"schedule"} ELSE moved
    /\ AppStep
    /\ UNCHANGED <<home, prog, qr, msgs, detail>>

----------------------------------------------------------------------------
(* Messages *)

\* The list is loaded, and home counts again what is unread.
LoadMessages ==
    /\ msgs # None /\ msgs.stage = "asked"
    /\ \E got \in {TRUE, ~Lossy} :
          /\ msgs' = IF got THEN [msgs EXCEPT !.stage = "shown", !.items = notes]
                     ELSE [msgs EXCEPT !.stage = "error"]
          /\ home' = IF got THEN [home EXCEPT !.asked = @ \cup {"badge"}] ELSE home
          /\ moved' = IF got THEN moved \ {"badge"} ELSE moved
    /\ AppStep
    /\ UNCHANGED <<prog, qr, sched, detail>>

TapMessages ==
    /\ ops < MaxOps[journey] /\ ops' = ops + 1
    /\ at = "messages" /\ msgs.stage = "shown"
    /\ UNCHANGED <<cases, booked, seats, shut, home, prog, qr, detail, orphans,
                   others>>

Expand(c) ==
    /\ TapMessages
    /\ msgs.items[c] # "none" /\ c \notin msgs.open
    /\ msgs' = [msgs EXCEPT !.open = @ \cup {c}]
    /\ UNCHANGED <<notes, at, below, sched, moved>>

\* markNotificationRead of an unread message, which may fail: nobody catches it
MarkRead(c, served) ==
    IF served /\ msgs.items[c] = "unread"
    THEN notes' = [notes EXCEPT ![c] = "read"] /\ moved' = Views
    ELSE UNCHANGED <<notes, moved>>

\* An unread message is read once it is closed, and the list loaded anew.
Collapse(c) ==
    /\ TapMessages /\ c \in msgs.open
    /\ \E served \in {TRUE, ~Lossy}, told \in {TRUE, ~Lossy} :
          /\ MarkRead(c, served)
          /\ msgs' = [msgs EXCEPT !.open = @ \ {c},
                 !.stage = IF msgs.items[c] = "unread" /\ served /\ told
                           THEN "asked" ELSE @]
    /\ UNCHANGED <<at, below, sched>>

\* The button of a message about an approval opens the schedule.
ScheduleFrom(c) ==
    /\ TapMessages /\ c \in msgs.open
    /\ ~Is(c, {"rejected"}) /\ "schedule" \in journey
    /\ at' = "schedule" /\ below' = "messages" /\ sched' = NewSchedule
    /\ IF msgs.items[c] = "unread"
       THEN notes' = [notes EXCEPT ![c] = "read"] /\ moved' = Views \ {"schedule"}
       ELSE notes' = notes /\ moved' = moved \ {"schedule"}
    /\ UNCHANGED msgs

\* Its request failed: the screen stays.
ScheduleFails(c) ==
    /\ TapMessages /\ c \in msgs.open
    /\ Lossy /\ ~Is(c, {"rejected"}) /\ "schedule" \in journey
    /\ msgs.items[c] = "unread"
    /\ \E served \in BOOLEAN : MarkRead(c, served)
    /\ UNCHANGED <<at, below, sched, msgs>>

----------------------------------------------------------------------------
(* The details of an application, polled as long as the screen is there *)

\* Answers take longer than the period of the timer in the mode "lossy".
Poll ==
    /\ detail # None
    /\ Cardinality(detail.polls) < IF Lossy THEN 2 ELSE 1
    /\ detail' = [detail EXCEPT !.polls = @ \cup {ClientStatus(detail.case)}]
    /\ moved' = moved \ {"detail"}
    /\ AppStep
    /\ UNCHANGED <<home, prog, qr, sched, msgs>>

\* A failed poll leaves what is shown; answers arrive in any order.
EndPoll ==
    /\ detail # None
    /\ \E s \in detail.polls :
          detail' \in {[detail EXCEPT !.shown = s, !.polls = @ \ {s}]} \cup
                      (IF Lossy THEN {[detail EXCEPT !.polls = @ \ {s}]} ELSE {})
    /\ AppStep
    /\ UNCHANGED <<home, prog, qr, sched, msgs, moved>>

----------------------------------------------------------------------------
\* A citizen has no case yet, or some for an approver, each of a program of
\* its own, and has home in front, which a behaviour about home still loads.
Init ==
    /\ mode \in Modes /\ journey \in Journeys /\ ops = 0
    /\ \E of \in [Ids -> Programs \cup {None}] :
          /\ \A c \in Ids, d \in Ids :
                 c < d /\ of[d] # None => of[c] # None /\ of[c] # of[d]
          /\ cases = [c \in Ids |->
                 [program |-> of[c], cooled |-> FALSE,
                  status |-> IF of[c] = None THEN "none" ELSE "in_approval"]]
    /\ booked = [c \in Ids |-> None]
    /\ seats = [s \in Slots |-> "open"]
    /\ notes = [c \in Ids |-> "none"]
    /\ shut \in SUBSET Programs /\ (shut # {} => "program" \in journey)
    /\ at = "home" /\ below = "home"
    /\ home = IF "home" \in journey
              THEN [gates |-> [p \in Programs |-> "none"],
                    apps |-> [c \in Ids |-> "none"], badge |-> 0,
                    asked |-> {"programs", "apps", "badge"}]
              ELSE [gates |-> [p \in Programs |-> Gate(p)],
                    apps |-> [c \in Ids |-> ClientStatus(c)], badge |-> 0,
                    asked |-> {}]
    /\ prog = None /\ qr = None /\ sched = None /\ msgs = None /\ detail = None
    /\ orphans = {} /\ moved = {}

Next ==
    \/ \E c \in Ids :
          \/ Endorse(c) \/ Decide(c) \/ Claim(c) \/ Cool(c)
          \/ OpenDetail(c) \/ Expand(c) \/ Collapse(c)
          \/ ScheduleFrom(c) \/ ScheduleFails(c)
    \/ \E s \in Slots : TurnSlot(s)
    \/ \E p \in Programs :
          TurnPeriod(p) \/ OpenProgram(p) \/ OpenQr(p) \/ ServeSubmit(p)
    \/ \E what \in home.asked : LoadHome(what)
    \/ OpenMessages \/ OpenSchedule \/ Back \/ PullToRefresh
    \/ LoadProgram \/ LoadFromList \/ LoadExisting \/ Submit \/ EndSubmit
    \/ LoadQrProgram \/ LoadQrApps \/ LoadQrBookings \/ LoseQr
    \/ LoadSchedApps \/ LoadSchedBookings \/ LoadSlots \/ LoseSched
    \/ ChooseCase \/ Book \/ ServeBook \/ EndBook
    \/ LoadMessages \/ Poll \/ EndPoll

Spec == Init /\ [][Next]_vars

----------------------------------------------------------------------------
TypeOK ==
    /\ cases \in [Ids -> Case]
    /\ booked \in [Ids -> Slots \cup {None}]
    /\ seats \in [Slots -> {"open", "full", "near"}]
    /\ notes \in [Ids -> {"none", "unread", "read"}] /\ shut \subseteq Programs
    /\ at \in Screens \cup {"pending"}
    /\ below \in {"home", "messages", "detail"}
    /\ home \in Home /\ prog \in Prog \cup {None} /\ qr \in Qr \cup {None}
    /\ sched \in Schedule \cup {None} /\ msgs \in Inbox \cup {None}
    /\ detail \in Detail \cup {None}
    /\ orphans \subseteq Programs /\ moved \subseteq Views
    /\ journey \in Journeys /\ mode \in Modes /\ ops \in 0..MaxOps[journey]

\* A screen is current when it is on top and nothing moved on the server since
\* it was asked for; in the mode "reliable" it then shows the truth.
Current(screen) == mode = "reliable" /\ at = screen /\ screen \notin moved

\* the stage that the cases of the program p would have its screen be at
TrueView(p) ==
    CASE Gate(p) = "open"     -> "form"
      [] Gate(p) = "cooldown" -> "cooldown"
      [] OTHER -> IF \E c \in Of(p) : Is(c, Pending) THEN "waiting" ELSE "approved"

\* The form is there exactly when no case and no cooldown stands against an
\* application, and otherwise the screen says which: the app puts the answers
\* of two requests together, the server decides with two queries of its own.
\* What is sent from the form is then refused for one reason only: that the
\* program is shut, which the form cannot know, and the refusal says.
ProgramTrue ==
    Current("program") =>
        /\ prog.stage = "shown" => ProgView = TrueView(prog.program)
        /\ prog.post # "failed"

\* The QR is that of an approved case of this program with a booking.
QrTrue ==
    Current("qr") /\ qr.stage = "shown" =>
        LET ready == {c \in Of(qr.program) : Is(c, {"approved"}) /\ booked[c] # None} IN
        IF ready = {} THEN qr.case = None ELSE qr.case \in ready

\* A slot can be booked exactly if it is listed, is not the one that is
\* booked, and the one that is booked is not said to be locked.
ScheduleTrue ==
    Current("schedule") /\ SchedIs("shown") /\ sched.chosen # None =>
        LET mine == sched.mine[sched.chosen] IN
        \A s \in Slots :
            Accepts(sched.chosen, s) <=>
                /\ s \in sched.slots \ {mine}
                /\ mine # None => seats[mine] # "near"

\* The cards of the programs and those of the applications agree.
HomeTrue ==
    Current("home") /\ home.asked = {} /\ {"programs", "apps"} \cap moved = {} =>
        \A p \in Programs :
            (home.gates[p] = "in_progress") <=>
                \E c \in Of(p) : home.apps[c] \in Reviewed \cup {"approved"}

DetailTrue ==
    Current("detail") /\ detail.polls = {} =>
        detail.shown = ClientStatus(detail.case)

\* The assistant tells of a case that goes on exactly if some program is
\* closed for it.
AssistantTrue ==
    (Preferred # None /\ InProgress(Preferred)) <=>
        \E p \in Programs : Gate(p) = "in_progress"

ScreensTrue ==
    ProgramTrue /\ QrTrue /\ ScheduleTrue /\ HomeTrue /\ DetailTrue /\ AssistantTrue

=============================================================================
