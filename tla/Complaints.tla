----------------------------- MODULE Complaints -----------------------------
(***************************************************************************)
(* Reports about EHelp: EreportService between the citizens' report        *)
(* screens, the table ereport_cases, the eReport service outside with its  *)
(* access and view tokens, and the appeals page of an organization         *)
(* administrator.                                                          *)
(*                                                                         *)
(* A citizen files one report after the other; a case number is one of the *)
(* service's or, when the service cannot be asked, one drawn at random     *)
(* here.  A server's request waits for the service, may fail, and goes on  *)
(* when its citizen's connection is lost.  Time passes in units of the     *)
(* margin, a minute, and no message is longer on its way (`Tick').         *)
(***************************************************************************)
EXTENDS Integers, Sequences, FiniteSets

CONSTANTS
    Citizens,
    Complete,   \* those whose profile has an e-mail and a mobile number
    Requests,   \* ids of the server's requests
    LocalNumbers,   \* numbers drawn here (ten thousand a day in the code)
    Life,       \* how long the service's tokens live
    MaxFiled,   \* bounds, by mode: how many reports are submitted, how often
    MaxLoads,   \* the appeals page asks, and the last minute
    LastTime,
    Modes,      \* "mock": not configured; "code", "static": with an access
                \* code or a fixed token; "lossy": "code", and the network and
                \* the service may fail
    None

VARIABLES
    table,      \* ereport_cases: the rows
    filed,      \* what the service outside has filed, by number
    tokenCache, viewTokenCache, \* [token, until], or None
    issued,     \* when each token of the service expires
    now,
    request,    \* the server's requests
    screen,     \* citizens: the report screen
    page,       \* the appeals page
    submitted,  \* how many reports were submitted
    mode

vars == <<table, filed, tokenCache, viewTokenCache, issued, now, request, screen,
          page, submitted, mode>>

isLive == mode # "mock"
Fails  == mode = "lossy"
Never  == LastTime[mode] + Life + 2   \* the fixed token is taken for valid

\* The number of the service's n-th case, and one drawn here.
Upstream(n) == <<"ereport", n>>
Local(k)    == <<"ehelp", k>>

NoRequest == [by |-> None, kind |-> None, step |-> "free", token |-> None,
              sent |-> 0, number |-> None, rows |-> {}]

Steps == {"free", "take", "fetch", "issue", "present", "number", "insert",
          "local", "answer", "failed"}
Outside == {"fetch", "issue", "present", "number"}

Number == ({"ereport"} \X Nat) \cup ({"ehelp"} \X LocalNumbers)

Row == [number : Number, by : Citizens, mode : {"live", "mock"}]

Token == [token : Nat, until : Nat]

Request == [by : Citizens \cup {"page", None},
            kind : {"submit", "reports", "confirm", None}, step : Steps,
            token : Nat \cup {None}, sent : Nat,
            number : Number \cup {None}, rows : SUBSET Number]

Screen == [state : {"loaded", "submitting", "success", "error"},
           request : Requests \cup {None}, shown : Number \cup {None}]

Page == [state : {"loading", "confirming", "loaded", "error"},
         request : Requests \cup {None}, rows : SUBSET Number,
         before : SUBSET Row, loads : Nat]

\* what is assumed of the constants
Assumptions ==
    /\ Complete \subseteq Citizens
    /\ None \notin Citizens \cup Requests \cup Number \cup Token \cup Nat
    /\ Life \in Nat /\ Life > 2
    /\ Modes \subseteq {"mock", "code", "static", "lossy"}
    /\ MaxFiled \in [Modes -> Nat] /\ MaxLoads \in [Modes -> Nat]
    /\ LastTime \in [Modes -> Nat]

TypeOK ==
    /\ table \subseteq Row
    /\ filed \in Seq(Citizens)
    /\ {tokenCache, viewTokenCache} \subseteq Token \cup {None}
    /\ issued \in Seq(Nat) /\ now \in 0..LastTime[mode]
    /\ request \in [Requests -> Request]
    /\ screen \in [Citizens -> Screen]
    /\ page \in Page
    /\ submitted \in 0..MaxFiled[mode] /\ mode \in Modes

Init ==
    /\ mode \in Modes
    /\ table = {} /\ filed = <<>> /\ issued = <<Never>> /\ now = 0
    /\ tokenCache = None /\ viewTokenCache = None
    /\ request = [r \in Requests |-> NoRequest]
    /\ screen = [c \in Citizens |-> [state |-> "loaded", request |-> None,
                                     shown |-> None]]
    /\ submitted = 0
    /\ page = [state |-> "loaded", request |-> None, rows |-> {}, before |-> {},
               loads |-> 0]

Numbered(rows) == {row.number : row \in rows}
Goes(r, step)  == request' = [request EXCEPT ![r].step = step]
Fields == UNCHANGED <<now, submitted, mode>>

----------------------------------------------------------------------------
(* The tokens *)

\* A cached token is used while it has more than a minute to live.
Fresh(cache) == cache # None /\ cache.until > now + 1

\* resolveViewTokenSync; no token is configured for viewing
ViewToken == IF Fresh(viewTokenCache) THEN viewTokenCache.token ELSE None

\* getAccessToken: the cached token, the configured one, or one that is asked for
Present(r, token) ==
    request' = [request EXCEPT ![r].step = "present", ![r].token = token,
                               ![r].sent = now]

GetAccessToken(r) ==
    \/ /\ Fresh(tokenCache)
       /\ Present(r, tokenCache.token)
       /\ UNCHANGED tokenCache
    \/ /\ ~Fresh(tokenCache) /\ mode = "static"
       /\ tokenCache' = [token |-> 1, until |-> now + Life]
       /\ Present(r, 1)
    \/ /\ ~Fresh(tokenCache) /\ mode # "static"
       /\ request' = [request EXCEPT ![r].step = "fetch", ![r].sent = now]
       /\ UNCHANGED tokenCache

\* The service gives out a token, and says when it expires.
Issue(r) ==
    /\ request[r].step = "fetch"
    /\ issued' = Append(issued, now + Life)
    /\ request' = [request EXCEPT ![r].step = "issue", ![r].token = Len(issued')]
    /\ UNCHANGED <<table, filed, tokenCache, viewTokenCache, screen, page>> /\ Fields

KeepToken(r) ==
    /\ request[r].step = "issue"
    /\ tokenCache' = [token |-> request[r].token, until |-> issued[request[r].token]]
    /\ Present(r, request[r].token)
    /\ UNCHANGED <<table, filed, viewTokenCache, issued, screen, page>> /\ Fields

Accepted(r) == now < issued[request[r].token]

----------------------------------------------------------------------------
(* Filing a report *)

\* _submit, not while one is being submitted
Submit(c, r) ==
    /\ screen[c].state # "submitting" /\ submitted < MaxFiled[mode]
    /\ submitted' = submitted + 1
    /\ request[r].step = "free"
    /\ screen' = [screen EXCEPT ![c].state = "submitting", ![c].request = r,
                                ![c].shown = None]
    /\ request' = [request EXCEPT ![r] =
                      [NoRequest EXCEPT !.by = c, !.kind = "submit", !.step = "take"]]
    /\ UNCHANGED <<table, filed, tokenCache, viewTokenCache, issued, page, now, mode>>

\* submitComplaint: a profile that lacks the e-mail or the number is refused;
\* without configuration the number is drawn here.
TakeSubmit(r) ==
    /\ request[r].step = "take" /\ request[r].kind = "submit"
    /\ \/ /\ request[r].by \notin Complete
          /\ Goes(r, "failed")
          /\ UNCHANGED tokenCache
       \/ /\ request[r].by \in Complete /\ ~isLive
          /\ Goes(r, "local")
          /\ UNCHANGED tokenCache
       \/ /\ request[r].by \in Complete /\ isLive
          /\ GetAccessToken(r)
    /\ UNCHANGED <<table, filed, viewTokenCache, issued, screen, page>> /\ Fields

\* The service files the report and answers with its number.
File(r) ==
    /\ request[r].step = "present" /\ request[r].kind = "submit" /\ Accepted(r)
    /\ filed' = Append(filed, request[r].by)
    /\ request' = [request EXCEPT ![r].step = "number",
                                  ![r].number = Upstream(Len(filed'))]
    /\ UNCHANGED <<table, tokenCache, viewTokenCache, issued, screen, page>> /\ Fields

Numbering(r) ==
    /\ request[r].step = "number"
    /\ Goes(r, "insert")
    /\ UNCHANGED <<table, filed, tokenCache, viewTokenCache, issued, screen, page>>
    /\ Fields

\* mockCaseNumber, also when the service cannot be asked or its answer is lost
DrawNumber(r) ==
    /\ request[r].kind = "submit"
    /\ request[r].step = "local" \/ (Fails /\ request[r].step \in Outside)
    /\ \E k \in LocalNumbers :
        request' = [request EXCEPT ![r].step = "insert", ![r].number = Local(k)]
    /\ UNCHANGED <<table, filed, tokenCache, viewTokenCache, issued, screen, page>>
    /\ Fields

\* The row of a request; numbers are unique (ereport_cases_case_number_uidx).
RowOf(r) == [number |-> request[r].number, by |-> request[r].by,
             mode |-> IF request[r].number[1] = "ereport" THEN "live" ELSE "mock"]

\* The fault: a number that is taken is passed over (ON CONFLICT DO NOTHING).
InsertUnlessTaken(r) ==
    /\ request[r].step = "insert"
    /\ Goes(r, "answer")
    /\ table' = IF request[r].number \in Numbered(table) THEN table
                ELSE table \cup {RowOf(r)}
    /\ UNCHANGED <<filed, tokenCache, viewTokenCache, issued, screen, page>> /\ Fields

Insert(r) ==
    /\ request[r].step = "insert"
    /\ IF request[r].number \in Numbered(table)
       THEN Goes(r, "failed") /\ UNCHANGED table
       ELSE Goes(r, "answer") /\ table' = table \cup {RowOf(r)}
    /\ UNCHANGED <<filed, tokenCache, viewTokenCache, issued, screen, page>> /\ Fields

\* The screen shows the number and takes the next report, or shows the error
\* and keeps what was written.
Reported(c) ==
    LET r == screen[c].request IN
    /\ screen[c].state = "submitting" /\ request[r].step \in {"answer", "failed"}
    /\ screen' = [screen EXCEPT
                    ![c].state = IF request[r].step = "answer" THEN "success" ELSE "error",
                    ![c].request = None,
                    ![c].shown = IF request[r].step = "answer"
                                 THEN request[r].number ELSE None]
    /\ request' = [request EXCEPT ![r] = NoRequest]
    /\ UNCHANGED <<table, filed, tokenCache, viewTokenCache, issued, page>> /\ Fields

\* The connection is lost: the screen shows an error, the request goes on.
Lose(c) ==
    /\ Fails /\ screen[c].state = "submitting"
    /\ screen' = [screen EXCEPT ![c].state = "error", ![c].request = None]
    /\ UNCHANGED <<table, filed, tokenCache, viewTokenCache, issued, request, page>>
    /\ Fields

\* A request nobody waits for any more is done.
Forget(r) ==
    /\ request[r].step \in {"answer", "failed"}
    /\ \A c \in Citizens : screen[c].request # r
    /\ page.request # r
    /\ request' = [request EXCEPT ![r] = NoRequest]
    /\ UNCHANGED <<table, filed, tokenCache, viewTokenCache, issued, screen, page>>
    /\ Fields

----------------------------------------------------------------------------
(* The administrator *)

\* load: also when a view token was saved
Load(r) ==
    /\ page.state \in {"loaded", "error"} /\ page.loads < MaxLoads[mode]
    /\ request[r].step = "free"
    /\ page' = [page EXCEPT !.state = "loading", !.request = r, !.before = table,
                            !.loads = @ + 1]
    /\ request' = [request EXCEPT ![r] =
                      [NoRequest EXCEPT !.by = "page", !.kind = "reports", !.step = "take"]]
    /\ UNCHANGED <<table, filed, tokenCache, viewTokenCache, issued, screen>> /\ Fields

\* listAdminReports: of the service with a view token, or else of the table
TakeReports(r) ==
    /\ request[r].step = "take" /\ request[r].kind = "reports"
    /\ IF ViewToken # None /\ isLive THEN Present(r, ViewToken) ELSE Goes(r, "local")
    /\ UNCHANGED <<table, filed, tokenCache, viewTokenCache, issued, screen, page>>
    /\ Fields

\* What the service lists; a report carries its region or none.
UpstreamReports(r) ==
    /\ request[r].step = "present" /\ request[r].kind = "reports" /\ Accepted(r)
    /\ request' = [request EXCEPT ![r].step = "answer",
                                  ![r].rows = {Upstream(n) : n \in DOMAIN filed}]
    /\ UNCHANGED <<table, filed, tokenCache, viewTokenCache, issued, screen, page>>
    /\ Fields

\* The table, also when the service fails.
LocalReports(r) ==
    /\ request[r].kind = "reports"
    /\ request[r].step = "local" \/ (Fails /\ request[r].step = "present")
    /\ request' = [request EXCEPT ![r].step = "answer", ![r].rows = Numbered(table)]
    /\ UNCHANGED <<table, filed, tokenCache, viewTokenCache, issued, screen, page>>
    /\ Fields

Listed ==
    LET r == page.request IN
    /\ page.state = "loading" /\ request[r].step = "answer"
    /\ page' = [page EXCEPT !.state = "loaded", !.request = None,
                            !.rows = request[r].rows]
    /\ request' = [request EXCEPT ![r] = NoRequest]
    /\ UNCHANGED <<table, filed, tokenCache, viewTokenCache, issued, screen>> /\ Fields

\* confirmOtp: the one-time password of the service is exchanged for a token
\* to view reports.
Confirm(r) ==
    /\ page.state \in {"loaded", "error"} /\ page.loads < MaxLoads[mode]
    /\ request[r].step = "free"
    /\ page' = [page EXCEPT !.state = "confirming", !.request = r, !.loads = @ + 1]
    /\ request' = [request EXCEPT ![r] =
                      [NoRequest EXCEPT !.by = "page", !.kind = "confirm", !.step = "take"]]
    /\ UNCHANGED <<table, filed, tokenCache, viewTokenCache, issued, screen>> /\ Fields

\* requestViewOtp and confirmViewOtp ask with the access token.
TakeConfirm(r) ==
    /\ request[r].step = "take" /\ request[r].kind = "confirm"
    /\ IF isLive THEN GetAccessToken(r) ELSE Goes(r, "answer") /\ UNCHANGED tokenCache
    /\ UNCHANGED <<table, filed, viewTokenCache, issued, screen, page>> /\ Fields

IssueView(r) ==
    /\ request[r].step = "present" /\ request[r].kind = "confirm" /\ Accepted(r)
    /\ issued' = Append(issued, now + Life)
    /\ request' = [request EXCEPT ![r].step = "number", ![r].token = Len(issued'),
                                  ![r].sent = now]
    /\ UNCHANGED <<table, filed, tokenCache, viewTokenCache, screen, page>> /\ Fields

KeepViewToken(r) ==
    /\ request[r].step = "number" /\ request[r].kind = "confirm"
    /\ viewTokenCache' = [token |-> request[r].token, until |-> issued[request[r].token]]
    /\ Goes(r, "answer")
    /\ UNCHANGED <<table, filed, tokenCache, issued, screen, page>> /\ Fields

ConfirmFails(r) ==
    /\ Fails /\ request[r].kind = "confirm" /\ request[r].step \in Outside
    /\ Goes(r, "failed")
    /\ UNCHANGED <<table, filed, tokenCache, viewTokenCache, issued, screen, page>>
    /\ Fields

\* With the token saved the page loads the list, or it shows the error.
Confirmed ==
    LET r == page.request IN
    /\ page.state = "confirming" /\ request[r].step \in {"answer", "failed"}
    /\ IF request[r].step = "answer"
       THEN /\ page' = [page EXCEPT !.state = "loading", !.before = table]
            /\ request' = [request EXCEPT ![r] =
                              [NoRequest EXCEPT !.by = "page", !.kind = "reports",
                                                !.step = "take"]]
       ELSE /\ page' = [page EXCEPT !.state = "error", !.request = None]
            /\ request' = [request EXCEPT ![r] = NoRequest]
    /\ UNCHANGED <<table, filed, tokenCache, viewTokenCache, issued, screen>> /\ Fields

\* A message is at most a minute on its way.
Tick ==
    /\ isLive /\ now < LastTime[mode]
    /\ \A r \in Requests : request[r].step \in Outside => request[r].sent = now
    /\ now' = now + 1
    /\ UNCHANGED <<table, filed, tokenCache, viewTokenCache, issued, request, screen,
                   page, submitted, mode>>

Serves ==
    \E r \in Requests :
        \/ TakeSubmit(r) \/ File(r) \/ DrawNumber(r) \/ Insert(r) \/ Issue(r)
        \/ KeepToken(r) \/ TakeReports(r) \/ UpstreamReports(r) \/ LocalReports(r)
        \/ TakeConfirm(r) \/ IssueView(r) \/ KeepViewToken(r) \/ ConfirmFails(r)
        \/ (request[r].kind = "submit" /\ Numbering(r)) \/ Forget(r)

Uses ==
    \/ \E c \in Citizens : (\E r \in Requests : Submit(c, r)) \/ Reported(c) \/ Lose(c)
    \/ \E r \in Requests : Load(r) \/ Confirm(r)
    \/ Listed \/ Confirmed

Next == Serves \/ Uses \/ Tick

Spec == Init /\ [][Next]_vars

----------------------------------------------------------------------------
(* A report can be found under the number the citizen was shown.  The row  *)
(* is the citizen's own, and with a number of the service the service has  *)
(* it filed for them; and unless the service or the network fail, the      *)
(* administrator's list shows every report that was recorded before it was *)
(* asked for, whether the list is the table's or the service's.            *)
MyCases(c) == {row \in table : row.by = c}

OwnNumber ==
    \A c \in Citizens :
        screen[c].shown # None =>
            \E row \in MyCases(c) :
                /\ row.number = screen[c].shown
                /\ row.mode = "live" => filed[row.number[2]] = c

EveryReportListed ==
    page.state = "loaded" => Numbered(page.before) \subseteq page.rows

ReportsTrackable == OwnNumber /\ (~Fails => EveryReportListed)

\* A token that is presented is not expired when the service reads it.
TokensAccepted ==
    \A r \in Requests : request[r].step = "present" => Accepted(r)

=============================================================================
