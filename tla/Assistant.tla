------------------------------ MODULE Assistant ------------------------------
(***************************************************************************)
(* The eGov AI assistant: EgovAiService with its cached access token, the  *)
(* context it reads of the citizen who asks (getAiEligibilityContext), the *)
(* answers it gives itself when the service outside cannot, and the chats  *)
(* of the application and of the web page.                                 *)
(*                                                                         *)
(* A question has a kind, the topic mockAnswer finds in it, and may name a *)
(* program.  An answer says something of the citizen's cases, bookings or  *)
(* of free seats; what the service outside says is opaque.  One citizen    *)
(* asks, in any of the chats, while office and citizen go on: the history  *)
(* `seen' keeps what there was between a question and its answer.          *)
(*                                                                         *)
(* Time passes in units of the margin, a minute; no message is longer on   *)
(* its way than that (`Tick').                                             *)
(***************************************************************************)
EXTENDS Integers, Sequences, FiniteSets

CONSTANTS
    Chats,      \* open chats
    Programs,   \* programs the citizen is eligible for
    First,      \* the one listed first
    Kinds,      \* kinds of questions that are asked, by mode
    Life,       \* how long a token of the service lives
    MaxAsked,   \* bounds, by mode: how many questions, how much else happens
    MaxEvents,
    LastTime,
    Modes,      \* "mock": no access code; "live"; "strict": live, and
                \* EGOV_AI_FALLBACK_MOCK is off
    None

AllKinds == {"status", "slots", "details", "dates", "eligible", "navigation",
             "offtopic"}

\* what is assumed of the constants
Assumptions ==
    /\ None \notin Programs
    /\ First \in Programs
    /\ Modes \subseteq {"mock", "live", "strict"}
    /\ Kinds \in [Modes -> SUBSET AllKinds]
    /\ Life \in Nat /\ Life > 2
    /\ MaxAsked \in [Modes -> Nat] /\ MaxEvents \in [Modes -> Nat]
    /\ LastTime \in Nat

VARIABLES
    cases,      \* the citizen's cases, newest first
    booking,    \* the program the citizen has a booking of, or None
    seats,      \* programs with a free seat in an open slot
    tokenCache, \* [token, expiresAtMs], or None
    issued,     \* when each token the service gave out expires
    now,
    chat,       \* chats: what is on the way, and the answer shown
    seen,       \* history: what there was while a chat's question was open
    asked, events, mode

vars == <<cases, booking, seats, tokenCache, issued, now, chat, seen, asked,
          events, mode>>

Statuses == {"submitted", "approved", "declined", "claimed"}
Terminal == {"declined", "claimed"}
Facts    == <<cases, booking, seats>>

Topics  == Programs \cup {None}
Answers == {"refusal", "unavailable", "none", "status", "booked", "approveFirst",
            "noSlots", "slots", "details", "dates", "programs", "guide",
            "upstream", "error"}

\* An answer: what it says, of which program, and that case's status, the
\* program whose seats it lists, the programs it marks as closed to the citizen,
\* or what the service outside was told.
Saying(says, about, what) == [says |-> says, about |-> about, what |-> what]

Idle == [step |-> "idle", kind |-> None, about |-> None, context |-> None,
         token |-> None, sent |-> 0, answer |-> None]

Reading == {"programs", "cases", "bookings", "slots"}
Calling == {"fetch", "issue", "present"}
Steps   == {"idle", "ask"} \cup Reading \cup Calling

TypeOK ==
    /\ cases \in Seq([program: Programs, status: Statuses])
    /\ booking \in Topics
    /\ seats \subseteq Programs
    /\ tokenCache = None \/ tokenCache \in [token: Nat, expiresAtMs: Nat]
    /\ issued \in Seq(Nat) /\ now \in 0..LastTime
    /\ \A c \in Chats :
        /\ chat[c].step \in Steps
        /\ chat[c].kind \in AllKinds \cup {None}
        /\ chat[c].about \in Topics
        /\ chat[c].answer = None \/ chat[c].answer.says \in Answers
    /\ mode \in Modes
    /\ asked \in 0..MaxAsked[mode] /\ events \in 0..MaxEvents[mode]

Init ==
    /\ cases = <<>> /\ booking = None
    /\ seats \in SUBSET Programs
    /\ tokenCache = None /\ issued = <<>> /\ now = 0
    /\ chat = [c \in Chats |-> Idle]
    /\ seen = [c \in Chats |-> {}]
    /\ asked = 0 /\ events = 0
    /\ mode \in Modes

isLive == mode # "mock"

----------------------------------------------------------------------------
(* What happens meanwhile *)

CaseOf(p) == {i \in DOMAIN cases : cases[i].program = p}

\* The questions that are open have seen what there is now.
Witness ==
    seen' = [c \in Chats |->
                IF chat[c].step = "idle" THEN seen[c] ELSE seen[c] \cup {Facts'}]

Happens ==
    /\ events < MaxEvents[mode]
    /\ events' = events + 1
    /\ Witness
    /\ UNCHANGED <<tokenCache, issued, now, chat, asked, mode>>

Apply(p) ==
    /\ CaseOf(p) = {}
    /\ cases' = <<[program |-> p, status |-> "submitted"]>> \o cases
    /\ UNCHANGED <<booking, seats>>
    /\ Happens

Decide(i, verdict) ==
    /\ cases[i].status = "submitted"
    /\ cases' = [cases EXCEPT ![i].status = verdict]
    /\ UNCHANGED <<booking, seats>>
    /\ Happens

Book(i) ==
    /\ cases[i].status = "approved" /\ booking = None
    /\ cases[i].program \in seats
    /\ booking' = cases[i].program
    /\ seats' = seats \ {booking'}
    /\ UNCHANGED cases
    /\ Happens

Claim(i) ==
    /\ cases[i].status = "approved" /\ booking = cases[i].program
    /\ cases' = [cases EXCEPT ![i].status = "claimed"]
    /\ booking' = None
    /\ UNCHANGED seats
    /\ Happens

----------------------------------------------------------------------------
(* The answers given here *)

Contains(list, P(_)) == \E i \in DOMAIN list : P(list[i])
FirstOf(list, P(_)) ==
    list[CHOOSE i \in DOMAIN list :
            P(list[i]) /\ \A j \in 1..(i - 1) : ~P(list[j])]

InProgress(case) == case.status \notin Terminal

\* is_preferred: the newest case in progress, or else the newest
Preferred(list) ==
    IF Contains(list, InProgress) THEN FirstOf(list, InProgress) ELSE list[1]

shouldRefuseLocally(kind) == kind = "offtopic"

\* The case a question is about: the one named, or the preferred one.
StatusTarget(list, p) ==
    LET Named(case) == case.program = p IN
    IF Contains(list, Named) THEN FirstOf(list, Named) ELSE Preferred(list)

\* The fault: a context that could not be read is taken for an empty one.
EmptyForMissing(context, p) ==
    IF context = None \/ context.cases = <<>> THEN Saying("none", None, None)
    ELSE LET case == StatusTarget(context.cases, p)
         IN  Saying("status", case.program, case.status)

mockApplicationStatusAnswer(context, p) ==
    IF context = None THEN Saying("unavailable", None, None)
    ELSE IF context.cases = <<>> THEN Saying("none", None, None)
    ELSE LET case == StatusTarget(context.cases, p)
         IN  Saying("status", case.program, case.status)

\* The program a question is about: the one named (every program here is one
\* the citizen is eligible for), the one of the preferred case, or the first.
resolveProgramContext(context, p) ==
    IF p # None THEN p
    ELSE IF context.cases # <<>> THEN Preferred(context.cases).program
    ELSE First

mockQueueSlotsAnswer(context, p) ==
    LET Approved(case) == case.status = "approved"
        target == resolveProgramContext(context, p)
        FromCase == IF Contains(context.cases, Approved)
                    THEN {FirstOf(context.cases, Approved).program} \cap context.caseSeats
                    ELSE {}
        slots == IF FromCase # {} THEN FromCase ELSE {target} \cap context.seats
    IN  IF context = None THEN Saying("unavailable", None, None)
        ELSE IF context.booking # None THEN Saying("booked", context.booking, None)
        ELSE IF slots # {} THEN Saying("slots", target, CHOOSE q \in slots : TRUE)
        ELSE IF Contains(context.cases, Approved) THEN Saying("noSlots", None, None)
        ELSE Saying("approveFirst", None, None)

\* A program's details, with the first open slot; its dates
mockProgramDetailsAnswer(context, p) ==
    LET target == resolveProgramContext(context, p) IN
    IF context = None THEN Saying("unavailable", None, None)
    ELSE Saying("details", target, IF target \in context.seats THEN target ELSE None)

mockProgramDatesAnswer(context, p) ==
    IF context = None THEN Saying("unavailable", None, None)
    ELSE Saying("dates", resolveProgramContext(context, p), None)

mockEligibilityAnswer(context) ==
    IF context = None THEN Saying("unavailable", None, None)
    ELSE Saying("programs", None, context.closed)

mockAnswer(kind, p, context) ==
    CASE shouldRefuseLocally(kind) -> Saying("refusal", None, None)
      [] kind = "eligible"   -> mockEligibilityAnswer(context)
      [] kind = "slots"      -> mockQueueSlotsAnswer(context, p)
      [] kind = "details"    -> mockProgramDetailsAnswer(context, p)
      [] kind = "dates"      -> mockProgramDatesAnswer(context, p)
      [] kind = "status"     -> mockApplicationStatusAnswer(context, p)
      [] kind = "navigation" -> Saying("guide", None, None)

\* What the service outside is told with the question
formatEligibilityBlock(context) ==
    IF context = None THEN None
    ELSE [cases |-> context.cases, booking |-> context.booking,
          seats |-> context.seats \cup context.caseSeats, closed |-> context.closed]

----------------------------------------------------------------------------
(* A question and its answer *)

Elsewhere == UNCHANGED <<cases, booking, seats, now, asked, events, mode>>
Goes(c, s) == chat' = [chat EXCEPT ![c].step = s]

\* The chat shows the answer and takes the next question.
Shows(c, answer) == chat' = [chat EXCEPT ![c] = [Idle EXCEPT !.answer = answer]]

\* send, _send: not while an answer is due
Send(c, kind, p) ==
    /\ chat[c].step = "idle" /\ asked < MaxAsked[mode]
    /\ p # None => kind \in {"status", "slots", "details", "dates"}
    /\ asked' = asked + 1
    /\ chat' = [chat EXCEPT ![c] =
                   [Idle EXCEPT !.step = "programs", !.kind = kind, !.about = p]]
    /\ seen' = [seen EXCEPT ![c] = {Facts}]
    /\ UNCHANGED <<cases, booking, seats, tokenCache, issued, now, events, mode>>

\* getAiEligibilityContext reads the programs first, and which of them the
\* citizen may not apply for now: a case is in progress, or was claimed; ...
Closed == {cases[i].program : i \in {j \in DOMAIN cases : cases[j].status # "declined"}}

ReadPrograms(c) ==
    /\ chat[c].step = "programs"
    /\ chat' = [chat EXCEPT ![c].step = "cases", ![c].context = [closed |-> Closed]]
    /\ UNCHANGED <<tokenCache, issued, seen>> /\ Elsewhere

\* ... the cases, the approved ones with the seats of their program, ...
ReadCases(c) ==
    /\ chat[c].step = "cases"
    /\ chat' = [chat EXCEPT ![c].step = "bookings",
                            ![c].context = [closed |-> @.closed, cases |-> cases,
                                            caseSeats |-> seats, booking |-> None,
                                            seats |-> {}]]
    /\ UNCHANGED <<tokenCache, issued, seen>> /\ Elsewhere

\* ... then the bookings, ...
ReadBookings(c) ==
    /\ chat[c].step = "bookings"
    /\ chat' = [chat EXCEPT ![c].step = "slots", ![c].context.booking = booking]
    /\ UNCHANGED <<tokenCache, issued, seen>> /\ Elsewhere

\* ... and the open slots of every program.
ReadSlots(c) ==
    /\ chat[c].step = "slots"
    /\ chat' = [chat EXCEPT ![c].step = "ask", ![c].context.seats = seats]
    /\ UNCHANGED <<tokenCache, issued, seen>> /\ Elsewhere

\* It may fail at any of them, and the question is answered without it.
ContextFails(c) ==
    /\ chat[c].step \in Reading
    /\ chat' = [chat EXCEPT ![c].step = "ask", ![c].context = None]
    /\ UNCHANGED <<tokenCache, issued, seen>> /\ Elsewhere

LocalAnswer(c) == mockAnswer(chat[c].kind, chat[c].about, chat[c].context)

\* askAssistant without the service outside: refused, or no access code
AnswerHere(c) ==
    /\ chat[c].step = "ask"
    /\ shouldRefuseLocally(chat[c].kind) \/ ~isLive
    /\ Shows(c, LocalAnswer(c))
    /\ UNCHANGED <<tokenCache, issued, seen>> /\ Elsewhere

\* The fault: up to its last second.
FreshToTheEnd(cache) == cache # None /\ cache.expiresAtMs > now

\* A cached token is used while it has more than a minute to live.
Fresh(cache) == cache # None /\ cache.expiresAtMs > now + 1

\* getAccessToken
GetAccessToken(c) ==
    /\ chat[c].step = "ask"
    /\ ~shouldRefuseLocally(chat[c].kind) /\ isLive
    /\ chat' = [chat EXCEPT
                    ![c].step = IF Fresh(tokenCache) THEN "present" ELSE "fetch",
                    ![c].token = IF Fresh(tokenCache) THEN tokenCache.token ELSE None,
                    ![c].sent = now]
    /\ UNCHANGED <<tokenCache, issued, seen>> /\ Elsewhere

\* The service gives out a token.
Issue(c) ==
    /\ chat[c].step = "fetch"
    /\ issued' = Append(issued, now + Life)
    /\ chat' = [chat EXCEPT ![c].step = "issue", ![c].token = Len(issued')]
    /\ UNCHANGED <<tokenCache, seen>> /\ Elsewhere

\* It is cached as of the time it was asked for, and presented.
KeepToken(c) ==
    /\ chat[c].step = "issue"
    /\ tokenCache' = [token |-> chat[c].token, expiresAtMs |-> chat[c].sent + Life]
    /\ chat' = [chat EXCEPT ![c].step = "present", ![c].sent = now]
    /\ UNCHANGED <<issued, seen>> /\ Elsewhere

\* A token that is not expired is answered with what the assistant says.
Accepted(c) == now < issued[chat[c].token]

AnswerLive(c) ==
    /\ chat[c].step = "present" /\ Accepted(c)
    /\ Shows(c, Saying("upstream", None, formatEligibilityBlock(chat[c].context)))
    /\ UNCHANGED <<tokenCache, issued, seen>> /\ Elsewhere

\* onUpstreamFailure: unreachable, an error, or an answer that never comes
UpstreamFails(c) ==
    /\ chat[c].step \in Calling
    /\ Shows(c, IF mode = "strict" THEN Saying("error", None, None)
                ELSE LocalAnswer(c))
    /\ UNCHANGED <<tokenCache, issued, seen>> /\ Elsewhere

\* A message is at most a minute on its way, so a token it brings is no older.
OnItsWay(c) == chat[c].step \in Calling /\ chat[c].sent < now

Tick ==
    /\ isLive /\ now < LastTime
    /\ \A c \in Chats : ~OnItsWay(c)
    /\ now' = now + 1
    /\ UNCHANGED <<cases, booking, seats, tokenCache, issued, chat, seen, asked,
                   events, mode>>

\* The server starts again and has no token cached.
Restart ==
    /\ tokenCache # None
    /\ \A c \in Chats : chat[c].step \notin Calling
    /\ tokenCache' = None
    /\ UNCHANGED <<issued, chat, seen>> /\ Elsewhere

Asks ==
    \E c \in Chats :
        \/ \E kind \in Kinds[mode], p \in Topics : Send(c, kind, p)
        \/ ReadPrograms(c) \/ ReadCases(c) \/ ReadBookings(c) \/ ReadSlots(c)
        \/ ContextFails(c)
        \/ AnswerHere(c) \/ GetAccessToken(c) \/ Issue(c) \/ KeepToken(c)
        \/ AnswerLive(c) \/ UpstreamFails(c)

Goings ==
    \/ \E p \in Programs : Apply(p)
    \/ \E i \in DOMAIN cases :
        \/ \E verdict \in {"approved", "declined"} : Decide(i, verdict)
        \/ Book(i) \/ Claim(i)

Next == Asks \/ Goings \/ Tick \/ Restart

Spec == Init /\ [][Next]_vars

----------------------------------------------------------------------------
(* What an answer says held between the question and the answer: a status  *)
(* is one the case had, `you have no applications yet' and `after your     *)
(* application is approved' are only said when it was so, a booking and    *)
(* the seats listed were there.  The context is read in several steps, it  *)
(* may fail, and the answer is given long after it was read.               *)
Told(says, c) == chat[c].answer # None /\ chat[c].answer.says = says

CasesIn(w) == {w[1][i] : i \in DOMAIN w[1]}
OpenIn(w)  == {case \in CasesIn(w) : case.status # "declined"}

ToldWasTrue ==
    \A c \in Chats :
        LET answer == chat[c].answer
            Once(P(_)) == \E w \in seen[c] : P(w)
            Had(case) == Once(LAMBDA w : case \in CasesIn(w))
            WasClosed(p) == Once(LAMBDA w : \E case \in OpenIn(w) : case.program = p)
            HadSeat(p) == Once(LAMBDA w : p \in w[3])
            WasBooked(p) == Once(LAMBDA w : w[2] = p)
        IN  /\ Told("none", c) => Once(LAMBDA w : w[1] = <<>>)
            /\ Told("status", c) => Had([program |-> answer.about, status |-> answer.what])
            /\ Told("approveFirst", c) =>
                   Once(LAMBDA w : \A case \in CasesIn(w) : case.status # "approved")
            /\ Told("booked", c) => WasBooked(answer.about)
            /\ Told("slots", c) => HadSeat(answer.what)
            /\ Told("details", c) => answer.what = None \/ HadSeat(answer.what)
            /\ Told("programs", c) => \A p \in answer.what : WasClosed(p)
            /\ Told("upstream", c) /\ answer.what # None =>
                /\ \A i \in DOMAIN answer.what.cases : Had(answer.what.cases[i])
                /\ WasBooked(answer.what.booking)
                /\ \A p \in answer.what.seats : HadSeat(p)
                /\ \A p \in answer.what.closed : WasClosed(p)

\* A token that is presented is not expired when the service reads it, however
\* long ago it was cached and whoever else was fetching one.
TokensAccepted == \A c \in Chats : chat[c].step = "present" => Accepted(c)

\* What the list of free slots says is the program's whose name is above it.
\* The code lists those of the citizen's approved case under the program that
\* was asked for.
SlotsUnderTheirName ==
    \A c \in Chats : Told("slots", c) => chat[c].answer.what = chat[c].answer.about

=============================================================================
