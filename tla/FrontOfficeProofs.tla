-------------------------- MODULE FrontOfficeProofs --------------------------
(***************************************************************************)
(* What citizens meet with: the reports to eReport, the assistant and the  *)
(* cash windows, of Services.                                              *)
(*                                                                         *)
(* Of a report: it is found under the number the citizen was shown and on  *)
(* the administrator's list, and no token is presented that the service    *)
(* would find expired.                                                     *)
(***************************************************************************)
EXTENDS ServicesProofs, Integers, Sequences, WellFoundedInduction

\* The service has the number, for that citizen.
Filed(number, c) == number[2] \in DOMAIN filed /\ filed[number[2]] = c

\* The number of a report: the service's, or drawn where the service is not asked.
Justified(number, c) ==
  /\ number \in Reports!Number
  /\ number[1] = "ereport" => Filed(number, c)
  /\ number[1] # "ereport" => ~Reports!isLive \/ Reports!Fails

AskedFor(q) == [number |-> q.number, by |-> q.by,
                mode |-> IF q.number[1] = "ereport" THEN "live" ELSE "mock"]

\* A request, by how far it is: a token it presents outlives the message, and
\* what it answers is recorded.
AskFits(q) ==
  /\ q.kind = "submit" /\ q.step # "free" => q.by \in Citizens
  /\ q.step = "insert" => q.kind = "submit"
  /\ q.step = "local" /\ q.kind = "submit" => ~Reports!isLive
  /\ q.step \in {"fetch", "issue", "present"} => Reports!isLive
  /\ q.step \in Reports!Outside => q.sent <= now /\ now <= q.sent + 1
  /\ q.step = "issue" => q.token \in DOMAIN issued /\ issued[q.token] >= q.sent + ReportLife
  /\ q.step = "number" /\ q.kind = "confirm" => q.token \in DOMAIN issued
  /\ q.step = "present" => q.token \in DOMAIN issued /\ issued[q.token] > q.sent + 1
  /\ q.kind = "submit" /\ q.step \in {"number", "insert", "answer"} =>
       Justified(q.number, q.by)
  /\ q.kind = "submit" /\ q.step = "answer" => AskedFor(q) \in table

AsksOK == \A r \in ReportRequests : AskFits(request[r])

RowsOK == \A row \in table :
            /\ Justified(row.number, row.by)
            /\ row.mode = "live" => row.number[1] = "ereport"

\* A cached token is one the service gave out, and not kept longer.
KnownToken(cache) == cache.token \in DOMAIN issued /\ cache.until <= issued[cache.token]

CachesOK ==
  /\ accessToken # None => KnownToken(accessToken)
  /\ viewToken # None => KnownToken(viewToken)
  /\ 1 \in DOMAIN issued /\ issued[1] = Reports!Never

\* A screen that waits, waits for a request of its own.
ScreensOK ==
  \A c \in Citizens :
    /\ screen[c].state = "submitting" <=> screen[c].request # None
    /\ \A r \in ReportRequests : screen[c].request = r =>
         request[r].by = c /\ request[r].kind = "submit" /\ request[r].step # "free"

\* So does the page, and the list it is about to show is complete.
Lists(rows) == ~Reports!Fails => Reports!Numbered(page.before) \subseteq rows

PageOK ==
  /\ page.state \in {"loading", "confirming"} <=> page.request # None
  /\ page.before \subseteq table
  /\ page.state = "loaded" => Lists(page.rows)
  /\ \A r \in ReportRequests : page.request = r =>
       /\ request[r].step # "free"
       /\ page.state = "loading" => request[r].kind = "reports"
       /\ page.state = "confirming" => request[r].kind = "confirm"
       /\ page.state = "loading" /\ request[r].step = "answer" =>
            Lists(request[r].rows)

ReportsInv == Reports!TypeOK /\ AsksOK /\ RowsOK /\ CachesOK /\ ScreensOK /\ PageOK /\ Reports!OwnNumber

----------------------------------------------------------------------------
(* What a request can rely on *)

\* Nothing is taken out of a table, a list of tokens or of reports.
Extends(s, t) == \A i \in DOMAIN s : i \in DOMAIN t /\ t[i] = s[i]

Grow ==
  /\ now' = now /\ reportMode' = reportMode
  /\ table \subseteq table'
  /\ Extends(issued, issued') /\ Extends(filed, filed')

LEMMA JustifiedKept ==
  ASSUME Grow, NEW number, NEW c, Justified(number, c)
  PROVE  Justified(number, c)'
BY DEF Grow, Extends, Justified, Filed, Reports!isLive, Reports!Fails

LEMMA AskKept ==
  ASSUME Grow, NEW q, AskFits(q)
  PROVE  AskFits(q)'
<1>1. q.kind = "submit" /\ q.step \in {"number", "insert", "answer"} =>
        Justified(q.number, q.by)'
  BY JustifiedKept DEF AskFits
<1>2. q.kind = "submit" /\ q.step = "answer" => AskedFor(q) \in table'
  BY DEF Grow, AskFits
<1>3. q.step = "issue" => q.token \in DOMAIN issued' /\ issued'[q.token] >= q.sent + ReportLife
  BY DEF Grow, Extends, AskFits
<1>4. q.step = "number" /\ q.kind = "confirm" => q.token \in DOMAIN issued'
  BY DEF Grow, Extends, AskFits
<1>5. q.step = "present" => q.token \in DOMAIN issued' /\ issued'[q.token] > q.sent + 1
  BY DEF Grow, Extends, AskFits
<1>6. q.step \in Reports!Outside => q.sent <= now' /\ now' <= q.sent + 1
  BY DEF Grow, AskFits
<1>7. /\ q.step = "local" /\ q.kind = "submit" => ~Reports!isLive'
      /\ q.step \in {"fetch", "issue", "present"} => Reports!isLive'
  BY DEF Grow, AskFits, Reports!isLive
<1> QED  BY <1>1, <1>2, <1>3, <1>4, <1>5, <1>6, <1>7 DEF AskFits, AskedFor

LEMMA CachesKept ==
  ASSUME Reports!TypeOK, CachesOK, Grow,
         accessToken' = accessToken \/ KnownToken(accessToken)',
         viewToken' = viewToken \/ KnownToken(viewToken)'
  PROVE  CachesOK'
<1>1. issued'[1] = Reports!Never /\ 1 \in DOMAIN issued' /\ Reports!Never' = Reports!Never
  BY DEF CachesOK, Grow, Extends, Reports!Never
<1>2. accessToken' = accessToken /\ accessToken # None => KnownToken(accessToken)'
  BY DEF CachesOK, KnownToken, Grow, Extends
<1>3. viewToken' = viewToken /\ viewToken # None => KnownToken(viewToken)'
  BY DEF CachesOK, KnownToken, Grow, Extends
<1> QED  BY <1>1, <1>2, <1>3 DEF CachesOK

LEMMA RowsKept ==
  ASSUME RowsOK, Grow,
         \A row \in table' \ table : /\ Justified(row.number, row.by)'
                                     /\ row.mode = "live" => row.number[1] = "ereport"
  PROVE  RowsOK'
<1> SUFFICES ASSUME NEW row \in table'
             PROVE  /\ Justified(row.number, row.by)'
                    /\ row.mode = "live" => row.number[1] = "ereport"
  BY DEF RowsOK
<1>1. CASE row \in table
  <2>1. PICK number, c : number = row.number /\ c = row.by
    OBVIOUS
  <2>2. Justified(number, c) /\ (row.mode = "live" => row.number[1] = "ereport")
    BY <1>1, <2>1 DEF RowsOK
  <2> QED  BY <2>1, <2>2, JustifiedKept
<1>2. CASE row \notin table
  BY <1>2
<1> QED  BY <1>1, <1>2

\* What a citizen was shown stays recorded.
LEMMA OwnNumberKept ==
  ASSUME RowsOK, Reports!OwnNumber, Grow,
         \A c \in Citizens : screen'[c].shown = screen[c].shown \/ screen'[c].shown = None
  PROVE  Reports!OwnNumber'
<1> SUFFICES ASSUME NEW c \in Citizens, screen'[c].shown # None
             PROVE  \E row \in Reports!MyCases(c)' :
                      /\ row.number = screen'[c].shown
                      /\ row.mode = "live" => filed'[row.number[2]] = c
  BY DEF Reports!OwnNumber
<1>1. PICK row \in Reports!MyCases(c) : row.number = screen[c].shown
  BY DEF Reports!OwnNumber
<1>2. row \in table /\ row.by = c /\ row \in table'
  BY <1>1 DEF Reports!MyCases, Grow
<1>3. row.mode = "live" => filed'[row.number[2]] = c
  BY <1>2 DEF RowsOK, Justified, Filed, Grow, Extends
<1>4. row.number = screen'[c].shown
  BY <1>1
<1> QED  BY <1>2, <1>3, <1>4 DEF Reports!MyCases

----------------------------------------------------------------------------
(* A request goes on at the server *)

\* Request r becomes x; the others are as before.
Becomes(r, x) ==
  /\ request' \in [ReportRequests -> Reports!Request]
  /\ request'[r] = x
  /\ \A m \in ReportRequests : m # r => request'[m] = request[m]

LEMMA BecomesBy ==
  ASSUME Reports!Assumptions, Reports!TypeOK, NEW r \in ReportRequests, NEW x \in Reports!Request,
         request' = [request EXCEPT ![r] = x]
  PROVE  Becomes(r, x)
BY DEF Becomes, Reports!TypeOK

LEMMA AsksKept ==
  ASSUME AsksOK, Grow, NEW r \in ReportRequests, NEW x, Becomes(r, x), AskFits(x)'
  PROVE  AsksOK'
<1> SUFFICES ASSUME NEW m \in ReportRequests  PROVE  AskFits(request[m])'
  BY DEF AsksOK
<1>1. PICK y : y = request'[m]
  OBVIOUS
<1>2. CASE m = r
  <2>1. y = x
    BY <1>1, <1>2 DEF Becomes
  <2>2. AskFits(y)'
    BY <2>1
  <2> QED  BY <1>1, <2>2 DEF AskFits, AskedFor, Justified, Filed
<1>3. CASE m # r
  <2>1. y = request[m]
    BY <1>1, <1>3 DEF Becomes
  <2>2. AskFits(y)
    BY <2>1 DEF AsksOK
  <2>3. AskFits(y)'
    BY <2>2, AskKept
  <2> QED  BY <1>1, <2>3 DEF AskFits, AskedFor, Justified, Filed
<1> QED  BY <1>2, <1>3

LEMMA RequestServed ==
  ASSUME Reports!Assumptions, ReportsInv, NEW r \in ReportRequests, NEW q, q = request[r],
         NEW x \in Reports!Request, Becomes(r, x),
         q.step # "free", x.step # "free", x.by = q.by, x.kind = q.kind,
         Grow, screen' = screen, page' = page, submitted' = submitted,
         table' \subseteq Reports!Row, filed' \in Seq(Citizens), issued' \in Seq(Nat),
         {accessToken', viewToken'} \subseteq Reports!Token \cup {None},
         AskFits(x)', RowsOK', CachesOK',
         page.request = r /\ page.state = "loading" /\ x.step = "answer" => Lists(x.rows)
  PROVE  ReportsInv'
<1>1. now' = now /\ reportMode' = reportMode
  BY DEF Grow
<1>2. Reports!TypeOK'
  BY <1>1 DEF ReportsInv, Reports!TypeOK, Becomes
<1>3. AsksOK'
  BY AsksKept DEF ReportsInv
<1>4. \A m \in ReportRequests : /\ request'[m].by = request[m].by
                                /\ request'[m].kind = request[m].kind
                                /\ request[m].step # "free" => request'[m].step # "free"
  BY DEF Becomes
<1>5. ScreensOK'
  BY <1>4 DEF ReportsInv, ScreensOK
<1>6. PageOK'
  <2>1. \A rows : Lists(rows)' <=> Lists(rows)
    BY <1>1 DEF Lists, Reports!Fails
  <2>2. page.before \subseteq table'
    BY DEF ReportsInv, PageOK, Grow
  <2>3. ASSUME NEW m \in ReportRequests, page.request = m, page.state = "loading",
               request'[m].step = "answer"
        PROVE  Lists(request[m].rows)'
    <3>1. PICK rows : rows = request'[m].rows
      OBVIOUS
    <3>2. CASE m = r
      BY <2>1, <2>3, <3>1, <3>2 DEF Becomes, Lists
    <3>3. CASE m # r
      <4>1. Lists(rows)
        BY <2>3, <3>1, <3>3 DEF Becomes, ReportsInv, PageOK
      <4> QED  BY <2>1, <3>1, <4>1 DEF Lists
    <3> QED  BY <3>2, <3>3
  <2>4. page.state = "loaded" => Lists(page.rows)'
    <3>1. PICK rows : rows = page.rows
      OBVIOUS
    <3>2. page.state = "loaded" => Lists(rows)'
      BY <2>1, <3>1 DEF ReportsInv, PageOK
    <3> QED  BY <3>1, <3>2 DEF Lists
  <2> QED  BY <1>4, <2>2, <2>3, <2>4 DEF ReportsInv, PageOK
<1>7. Reports!OwnNumber'
  BY OwnNumberKept DEF ReportsInv
<1> QED  BY <1>2, <1>3, <1>5, <1>6, <1>7 DEF ReportsInv

LEMMA Reading ==
  ASSUME Reports!Assumptions, ReportsInv, NEW r \in ReportRequests, NEW q, q = request[r]
  PROVE  q \in Reports!Request /\ AskFits(q) /\ now \in Nat
BY DEF ReportsInv, Reports!TypeOK, AsksOK, Reports!Assumptions

\* A step that touches the request only.
LEMMA Moved ==
  ASSUME Reports!Assumptions, ReportsInv, NEW r \in ReportRequests, NEW q, q = request[r],
         NEW x \in Reports!Request, Becomes(r, x),
         q.step # "free", x.step # "free", x.by = q.by, x.kind = q.kind,
         UNCHANGED <<table, filed, issued, screen, page, now, submitted, reportMode>>,
         {accessToken', viewToken'} \subseteq Reports!Token \cup {None},
         accessToken' = accessToken \/ KnownToken(accessToken)',
         viewToken' = viewToken \/ KnownToken(viewToken)',
         AskFits(x),
         page.request = r /\ page.state = "loading" /\ x.step = "answer" => Lists(x.rows)
  PROVE  ReportsInv'
<1>1. Grow
  BY DEF Grow, Extends
<1>2. AskFits(x)'
  BY <1>1, AskKept
<1>3. RowsOK'
  BY <1>1, RowsKept DEF ReportsInv
<1>4. CachesOK'
  BY <1>1, CachesKept DEF ReportsInv
<1> QED  BY <1>1, <1>2, <1>3, <1>4, RequestServed DEF ReportsInv, Reports!TypeOK

LEMMA GetAccessTokenStep ==
  ASSUME Reports!Assumptions, ReportsInv, NEW r \in ReportRequests, Reports!GetAccessToken(r), reportMode # "mock",
         request[r].step = "take", request[r].kind \in {"submit", "confirm"},
         UNCHANGED <<table, filed, viewToken, issued, screen, page>>, Reports!Fields
  PROVE  ReportsInv'
<1>1. PICK q : q = request[r]
  OBVIOUS
<1>2. q \in Reports!Request /\ AskFits(q) /\ now \in Nat
  BY <1>1, Reading
<1>3. UNCHANGED <<table, filed, viewToken, issued, screen, page, now, submitted, reportMode>>
  BY DEF Reports!Fields
<1>4. ASSUME NEW token \in Nat, Reports!Present(r, token),
             token \in DOMAIN issued, issued[token] > now + 1,
             accessToken' \in Reports!Token, accessToken' = accessToken \/ KnownToken(accessToken)'
      PROVE  ReportsInv'
  <2>1. PICK x : x = [q EXCEPT !.step = "present", !.token = token, !.sent = now]
    OBVIOUS
  <2>2. x \in Reports!Request /\ x.step = "present" /\ x.token = token /\ x.sent = now
        /\ x.by = q.by /\ x.kind = q.kind
    BY <1>2, <2>1 DEF Reports!Request, Reports!Steps
  <2>3. request' = [request EXCEPT ![r] = x]
    BY <1>1, <1>4, <2>1 DEF Reports!Present, ReportsInv, Reports!TypeOK
  <2>4. Becomes(r, x)
    BY <2>2, <2>3, BecomesBy DEF ReportsInv
  <2>5. AskFits(x)
    BY <1>1, <1>2, <1>4, <2>2 DEF AskFits, Reports!Outside, Reports!isLive
  <2>6. q.step # "free" /\ {accessToken', viewToken'} \subseteq Reports!Token \cup {None}
    BY <1>1, <1>3, <1>4 DEF ReportsInv, Reports!TypeOK
  <2> QED  BY <1>1, <1>3, <1>4, <2>2, <2>4, <2>5, <2>6, Moved
<1>5. CASE Reports!Fresh(accessToken)
  <2>1. PICK k : k = accessToken
    OBVIOUS
  <2>2. k \in Reports!Token /\ k.until > now + 1 /\ KnownToken(k)
    BY <1>5, <2>1 DEF Reports!Fresh, ReportsInv, Reports!TypeOK, CachesOK
  <2>3. k.token \in Nat /\ k.until \in Nat /\ k.token \in DOMAIN issued
        /\ issued[k.token] \in Nat /\ issued[k.token] >= k.until
    BY <2>2 DEF Reports!Token, KnownToken, ReportsInv, Reports!TypeOK
  <2>4. Reports!Present(r, k.token) /\ accessToken' = accessToken
    BY <1>5, <2>1 DEF Reports!GetAccessToken
  <2> QED  BY <1>2, <1>4, <2>1, <2>2, <2>3, <2>4
<1>6. CASE ~Reports!Fresh(accessToken) /\ reportMode = "static"
  <2>1. accessToken' = [token |-> 1, until |-> now + ReportLife] /\ Reports!Present(r, 1)
    BY <1>6 DEF Reports!GetAccessToken
  <2>2. 1 \in DOMAIN issued /\ issued[1] = ReportLastTime[reportMode] + ReportLife + 2
        /\ now <= ReportLastTime[reportMode] /\ ReportLastTime[reportMode] \in Nat /\ ReportLife \in Nat
    <3>1. /\ ReportLastTime \in [ReportModes -> Nat] /\ ReportLife \in Nat
          /\ reportMode \in ReportModes /\ now \in 0..ReportLastTime[reportMode]
      BY DEF ReportsInv, Reports!TypeOK, Reports!Assumptions
    <3>2. 1 \in DOMAIN issued /\ issued[1] = Reports!Never
      BY DEF ReportsInv, CachesOK
    <3> QED  BY <3>1, <3>2 DEF Reports!Never
  <2>3. accessToken' \in Reports!Token /\ KnownToken(accessToken)'
    BY <1>2, <1>3, <2>1, <2>2 DEF Reports!Token, KnownToken
  <2>4. issued[1] > now + 1
    BY <1>2, <2>2
  <2> QED  BY <1>4, <2>1, <2>2, <2>3, <2>4
<1>7. CASE ~Reports!Fresh(accessToken) /\ reportMode # "static"
  <2>1. request' = [request EXCEPT ![r].step = "fetch", ![r].sent = now]
        /\ accessToken' = accessToken
    BY <1>7 DEF Reports!GetAccessToken
  <2>2. PICK x : x = [q EXCEPT !.step = "fetch", !.sent = now]
    OBVIOUS
  <2>3. x \in Reports!Request /\ x.step = "fetch" /\ x.sent = now /\ x.by = q.by /\ x.kind = q.kind
    BY <1>2, <2>2 DEF Reports!Request, Reports!Steps
  <2>4. request' = [request EXCEPT ![r] = x]
    BY <1>1, <2>1, <2>2 DEF ReportsInv, Reports!TypeOK
  <2>5. Becomes(r, x)
    BY <2>3, <2>4, BecomesBy DEF ReportsInv
  <2>6. AskFits(x)
    BY <1>1, <1>2, <2>3 DEF AskFits, Reports!Outside, Reports!isLive
  <2>7. q.step # "free" /\ {accessToken', viewToken'} \subseteq Reports!Token \cup {None}
    BY <1>1, <1>3, <2>1 DEF ReportsInv, Reports!TypeOK
  <2> QED  BY <1>1, <1>3, <2>1, <2>3, <2>5, <2>6, <2>7, Moved
<1> QED  BY <1>5, <1>6, <1>7

\* The request takes a step, and nothing else happens.
LEMMA Gone ==
  ASSUME Reports!Assumptions, ReportsInv, NEW r \in ReportRequests, NEW q, q = request[r],
         NEW s \in Reports!Steps \ {"free"}, Reports!Goes(r, s), q.step # "free",
         UNCHANGED <<table, filed, accessToken, viewToken, issued, screen, page>>,
         Reports!Fields,
         NEW x, x = [q EXCEPT !.step = s], AskFits(x),
         s = "answer" => q.kind # "reports"
  PROVE  ReportsInv'
<1>1. q \in Reports!Request
  BY Reading
<1>2. x \in Reports!Request /\ x.step = s /\ x.by = q.by /\ x.kind = q.kind
  BY <1>1 DEF Reports!Request
<1>3. request' = [request EXCEPT ![r] = x]
  BY DEF Reports!Goes, ReportsInv, Reports!TypeOK
<1>4. Becomes(r, x)
  BY <1>2, <1>3, BecomesBy DEF ReportsInv
<1>5. UNCHANGED <<now, submitted, reportMode>>
  BY DEF Reports!Fields
<1>6. {accessToken', viewToken'} \subseteq Reports!Token \cup {None}
  BY DEF ReportsInv, Reports!TypeOK
<1>7. page.request = r /\ page.state = "loading" => q.kind = "reports"
  BY DEF ReportsInv, PageOK
<1> QED  BY <1>2, <1>4, <1>5, <1>6, <1>7, Moved

LEMMA TakeSubmitStep ==
  ASSUME Reports!Assumptions, ReportsInv, NEW r \in ReportRequests, Reports!TakeSubmit(r)
  PROVE  ReportsInv'
<1>1. PICK q : q = request[r]
  OBVIOUS
<1>2. q \in Reports!Request /\ AskFits(q)
  BY <1>1, Reading
<1>3. q.step = "take" /\ q.kind = "submit" /\ Reports!Fields
      /\ UNCHANGED <<table, filed, viewToken, issued, screen, page>>
  BY <1>1 DEF Reports!TakeSubmit
<1>4. CASE Reports!isLive /\ Reports!GetAccessToken(r)
  BY <1>1, <1>3, <1>4, GetAccessTokenStep DEF Reports!isLive
<1>5. ASSUME NEW s \in {"failed", "local"}, Reports!Goes(r, s), s = "local" => ~Reports!isLive,
             accessToken' = accessToken
      PROVE  ReportsInv'
  <2>1. PICK x : x = [q EXCEPT !.step = s]
    OBVIOUS
  <2>2. x.step = s /\ x.kind = "submit" /\ x.by = q.by
    BY <1>2, <1>3, <2>1 DEF Reports!Request
  <2>3. AskFits(x)
    BY <1>2, <1>3, <1>5, <2>2 DEF AskFits, Reports!Outside
  <2> QED  BY <1>1, <1>3, <1>5, <2>1, <2>3, Gone DEF Reports!Steps
<1> QED  BY <1>4, <1>5 DEF Reports!TakeSubmit

LEMMA TakeConfirmStep ==
  ASSUME Reports!Assumptions, ReportsInv, NEW r \in ReportRequests, Reports!TakeConfirm(r)
  PROVE  ReportsInv'
<1>1. PICK q : q = request[r]
  OBVIOUS
<1>2. q \in Reports!Request /\ AskFits(q)
  BY <1>1, Reading
<1>3. q.step = "take" /\ q.kind = "confirm" /\ Reports!Fields
      /\ UNCHANGED <<table, filed, viewToken, issued, screen, page>>
  BY <1>1 DEF Reports!TakeConfirm
<1>4. CASE Reports!isLive
  BY <1>1, <1>3, <1>4, GetAccessTokenStep DEF Reports!isLive, Reports!TakeConfirm
<1>5. CASE ~Reports!isLive
  <2>1. Reports!Goes(r, "answer") /\ accessToken' = accessToken
    BY <1>5 DEF Reports!TakeConfirm
  <2>2. PICK x : x = [q EXCEPT !.step = "answer"]
    OBVIOUS
  <2>3. x.step = "answer" /\ x.kind = "confirm" /\ x.by = q.by
    BY <1>2, <1>3, <2>2 DEF Reports!Request
  <2>4. AskFits(x)
    BY <2>3 DEF AskFits, Reports!Outside
  <2> QED  BY <1>1, <1>3, <2>1, <2>2, <2>4, Gone DEF Reports!Steps
<1> QED  BY <1>4, <1>5

\* The service gives out a token.
LEMMA Issued ==
  ASSUME Reports!Assumptions, ReportsInv, issued' = Append(issued, now + ReportLife), Reports!Fields,
         UNCHANGED <<table, filed>>
  PROVE  /\ Grow /\ issued' \in Seq(Nat) /\ Len(issued') \in DOMAIN issued'
         /\ issued'[Len(issued')] = now + ReportLife /\ Len(issued') \in Nat
<1>1. issued \in Seq(Nat) /\ now \in Nat /\ ReportLife \in Nat
  BY DEF ReportsInv, Reports!TypeOK, Reports!Assumptions
<1>2. Extends(issued, issued') /\ Extends(filed, filed')
  BY <1>1 DEF Extends
<1> QED  BY <1>1, <1>2 DEF Grow, Reports!Fields

LEMMA IssueStep ==
  ASSUME Reports!Assumptions, ReportsInv, NEW r \in ReportRequests, Reports!Issue(r) \/ Reports!IssueView(r)
  PROVE  ReportsInv'
<1>1. PICK q : q = request[r]
  OBVIOUS
<1>2. q \in Reports!Request /\ AskFits(q) /\ now \in Nat
  BY <1>1, Reading
<1>3. /\ issued' = Append(issued, now + ReportLife)
      /\ UNCHANGED <<table, filed, accessToken, viewToken, screen, page>> /\ Reports!Fields
  BY DEF Reports!Issue, Reports!IssueView
<1>4. Grow /\ issued' \in Seq(Nat) /\ Len(issued') \in DOMAIN issued'
      /\ issued'[Len(issued')] = now + ReportLife /\ Len(issued') \in Nat
  BY <1>3, Issued
<1>5. PICK token : token = Len(issued')
  OBVIOUS
<1>6. /\ Grow /\ RowsOK' /\ CachesOK' /\ now' = now /\ submitted' = submitted
      /\ {accessToken', viewToken'} \subseteq Reports!Token \cup {None}
  BY <1>3, <1>4, RowsKept, CachesKept DEF ReportsInv, Reports!Fields, Reports!TypeOK
<1>7. CASE Reports!Issue(r)
  <2>1. PICK x : x = [q EXCEPT !.step = "issue", !.token = token]
    OBVIOUS
  <2>2. x \in Reports!Request /\ x.step = "issue" /\ x.token = token /\ x.sent = q.sent
        /\ x.by = q.by /\ x.kind = q.kind /\ q.step = "fetch" /\ x.sent \in Nat
    BY <1>1, <1>2, <1>4, <1>5, <1>7, <2>1 DEF Reports!Request, Reports!Steps,
       Reports!Issue
  <2>3. request' = [request EXCEPT ![r] = x]
    BY <1>1, <1>5, <1>7, <2>1 DEF Reports!Issue, ReportsInv, Reports!TypeOK
  <2>4. Becomes(r, x)
    BY <2>2, <2>3, BecomesBy DEF ReportsInv
  <2>5. Reports!isLive'
    BY <1>2, <1>3, <2>2 DEF AskFits, Reports!isLive, Reports!Fields
  <2>6. AskFits(x)'
    BY <1>2, <1>4, <1>5, <1>6, <2>2, <2>5 DEF AskFits, Reports!Outside,
       Reports!Assumptions
  <2> QED  BY <1>1, <1>3, <1>4, <1>6, <2>2, <2>4, <2>6, RequestServed DEF ReportsInv, Reports!TypeOK
<1>8. CASE Reports!IssueView(r)
  <2>1. PICK x : x = [q EXCEPT !.step = "number", !.token = token, !.sent = now]
    OBVIOUS
  <2>2. x \in Reports!Request /\ x.step = "number" /\ x.token = token /\ x.sent = now
        /\ x.by = q.by /\ x.kind = q.kind /\ q.step = "present" /\ q.kind = "confirm"
    BY <1>1, <1>2, <1>4, <1>5, <1>8, <2>1 DEF Reports!Request, Reports!Steps,
       Reports!IssueView
  <2>3. request' = [request EXCEPT ![r] = x]
    BY <1>1, <1>5, <1>8, <2>1 DEF Reports!IssueView, ReportsInv, Reports!TypeOK
  <2>4. Becomes(r, x)
    BY <2>2, <2>3, BecomesBy DEF ReportsInv
  <2>5. AskFits(x)'
    BY <1>2, <1>4, <1>5, <1>6, <2>2 DEF AskFits, Reports!Outside
  <2> QED  BY <1>1, <1>3, <1>4, <1>6, <2>2, <2>4, <2>5, RequestServed DEF ReportsInv, Reports!TypeOK
<1> QED  BY <1>7, <1>8

LEMMA KeepTokenStep ==
  ASSUME Reports!Assumptions, ReportsInv, NEW r \in ReportRequests, Reports!KeepToken(r)
  PROVE  ReportsInv'
<1>1. PICK q : q = request[r]
  OBVIOUS
<1>2. q \in Reports!Request /\ AskFits(q) /\ now \in Nat
  BY <1>1, Reading
<1>3. /\ accessToken' = [token |-> q.token, until |-> issued[q.token]]
      /\ q.step = "issue" /\ Reports!Present(r, q.token)
      /\ UNCHANGED <<table, filed, viewToken, issued, screen, page, now, submitted, reportMode>>
  BY <1>1 DEF Reports!KeepToken, Reports!Fields
<1>4. /\ q.token \in DOMAIN issued /\ issued[q.token] >= q.sent + ReportLife
      /\ q.sent <= now /\ now <= q.sent + 1 /\ q.sent \in Nat
      /\ q.token \in Nat /\ issued[q.token] \in Nat /\ ReportLife \in Nat /\ ReportLife > 2
  BY <1>2, <1>3 DEF AskFits, Reports!Outside, Reports!Request, ReportsInv, Reports!TypeOK,
     Reports!Assumptions
<1>5. PICK x : x = [q EXCEPT !.step = "present", !.sent = now]
  OBVIOUS
<1>6. x \in Reports!Request /\ x.step = "present" /\ x.token = q.token /\ x.sent = now
      /\ x.by = q.by /\ x.kind = q.kind
  BY <1>2, <1>5 DEF Reports!Request, Reports!Steps
<1>7. request' = [request EXCEPT ![r] = x]
  <2>1. x = [q EXCEPT !.step = "present", !.token = q.token, !.sent = now]
    BY <1>2, <1>5 DEF Reports!Request
  <2>2. request' = [request EXCEPT ![r].step = "present", ![r].token = q.token,
                                   ![r].sent = now]
    BY <1>3 DEF Reports!Present
  <2> QED  BY <1>1, <2>1, <2>2 DEF ReportsInv, Reports!TypeOK
<1>8. Becomes(r, x)
  BY <1>6, <1>7, BecomesBy DEF ReportsInv
<1>9. AskFits(x)
  BY <1>2, <1>3, <1>4, <1>6 DEF AskFits, Reports!Outside
<1>10. accessToken' \in Reports!Token /\ KnownToken(accessToken)'
  BY <1>3, <1>4 DEF Reports!Token, KnownToken
<1> QED  BY <1>1, <1>3, <1>6, <1>8, <1>9, <1>10, Moved DEF ReportsInv, Reports!TypeOK

LEMMA KeepViewTokenStep ==
  ASSUME Reports!Assumptions, ReportsInv, NEW r \in ReportRequests, Reports!KeepViewToken(r)
  PROVE  ReportsInv'
<1>1. PICK q : q = request[r]
  OBVIOUS
<1>2. q \in Reports!Request /\ AskFits(q)
  BY <1>1, Reading
<1>3. /\ viewToken' = [token |-> q.token, until |-> issued[q.token]]
      /\ q.step = "number" /\ q.kind = "confirm" /\ Reports!Goes(r, "answer")
      /\ UNCHANGED <<table, filed, accessToken, issued, screen, page, now, submitted, reportMode>>
  BY <1>1 DEF Reports!KeepViewToken, Reports!Fields
<1>4. q.token \in DOMAIN issued /\ issued[q.token] \in Nat /\ q.token \in Nat
  BY <1>2, <1>3 DEF AskFits, ReportsInv, Reports!TypeOK
<1>5. PICK x : x = [q EXCEPT !.step = "answer"]
  OBVIOUS
<1>6. x \in Reports!Request /\ x.step = "answer" /\ x.by = q.by /\ x.kind = q.kind
  BY <1>2, <1>5 DEF Reports!Request, Reports!Steps
<1>7. request' = [request EXCEPT ![r] = x]
  BY <1>1, <1>3, <1>5 DEF Reports!Goes, ReportsInv, Reports!TypeOK
<1>8. Becomes(r, x)
  BY <1>6, <1>7, BecomesBy DEF ReportsInv
<1>9. AskFits(x)
  BY <1>3, <1>6 DEF AskFits, Reports!Outside
<1>10. viewToken' \in Reports!Token /\ KnownToken(viewToken)'
  BY <1>3, <1>4 DEF Reports!Token, KnownToken
<1>11. ~(page.request = r /\ page.state = "loading")
  BY <1>1, <1>3 DEF ReportsInv, PageOK
<1> QED  BY <1>1, <1>3, <1>6, <1>8, <1>9, <1>10, <1>11, Moved DEF ReportsInv, Reports!TypeOK

LEMMA FileStep ==
  ASSUME Reports!Assumptions, ReportsInv, NEW r \in ReportRequests, Reports!File(r)
  PROVE  ReportsInv'
<1>1. PICK q : q = request[r]
  OBVIOUS
<1>2. q \in Reports!Request /\ AskFits(q)
  BY <1>1, Reading
<1>3. PICK n : n = Len(filed')
  OBVIOUS
<1>4. /\ filed' = Append(filed, q.by) /\ q.step = "present" /\ q.kind = "submit"
      /\ request' = [request EXCEPT ![r].step = "number", ![r].number = Reports!Upstream(n)]
      /\ UNCHANGED <<table, accessToken, viewToken, issued, screen, page, now,
                     submitted, reportMode>>
  BY <1>1, <1>3 DEF Reports!File, Reports!Fields
<1>5. q.by \in Citizens
  BY <1>2, <1>4 DEF AskFits
<1>6. /\ filed' \in Seq(Citizens) /\ Extends(filed, filed')
      /\ n \in DOMAIN filed' /\ filed'[n] = q.by /\ n \in Nat
  BY <1>3, <1>4, <1>5 DEF ReportsInv, Reports!TypeOK, Extends
<1>7. Grow
  BY <1>4, <1>6 DEF Grow, Extends
<1>8. PICK number : number = Reports!Upstream(n)
  OBVIOUS
<1>9. number \in Reports!Number /\ number[1] = "ereport" /\ number[2] = n
  BY <1>6, <1>8 DEF Reports!Upstream, Reports!Number
<1>10. PICK x : x = [q EXCEPT !.step = "number", !.number = number]
  OBVIOUS
<1>11. x \in Reports!Request /\ x.step = "number" /\ x.number = number /\ x.by = q.by
       /\ x.kind = q.kind /\ x.sent = q.sent
  BY <1>2, <1>9, <1>10 DEF Reports!Request, Reports!Steps
<1>12. request' = [request EXCEPT ![r] = x]
  BY <1>1, <1>4, <1>8, <1>10 DEF ReportsInv, Reports!TypeOK
<1>13. Becomes(r, x)
  BY <1>11, <1>12, BecomesBy DEF ReportsInv
<1>14. Justified(x.number, x.by)'
  BY <1>6, <1>9, <1>11 DEF Justified, Filed
<1>15. AskFits(x)'
  BY <1>2, <1>4, <1>5, <1>11, <1>14 DEF AskFits, Reports!Outside
<1>16. RowsOK' /\ CachesOK'
  BY <1>4, <1>7, RowsKept, CachesKept DEF ReportsInv
<1> QED  BY <1>1, <1>4, <1>6, <1>7, <1>11, <1>13, <1>15, <1>16, RequestServed DEF ReportsInv,
            Reports!TypeOK

LEMMA NumberingStep ==
  ASSUME Reports!Assumptions, ReportsInv, NEW r \in ReportRequests, request[r].kind = "submit", Reports!Numbering(r)
  PROVE  ReportsInv'
<1>1. PICK q : q = request[r]
  OBVIOUS
<1>2. q \in Reports!Request /\ AskFits(q) /\ q.step = "number" /\ q.kind = "submit"
  BY <1>1, Reading DEF Reports!Numbering
<1>3. PICK x : x = [q EXCEPT !.step = "insert"]
  OBVIOUS
<1>4. x.step = "insert" /\ x.kind = "submit" /\ x.by = q.by /\ x.number = q.number
  BY <1>2, <1>3 DEF Reports!Request
<1>5. AskFits(x)
  BY <1>2, <1>4 DEF AskFits, Reports!Outside
<1>6. /\ Reports!Goes(r, "insert") /\ Reports!Fields
      /\ UNCHANGED <<table, filed, accessToken, viewToken, issued, screen, page>>
  BY DEF Reports!Numbering
<1> QED  BY <1>1, <1>2, <1>3, <1>5, <1>6, Gone DEF Reports!Steps

LEMMA DrawNumberStep ==
  ASSUME Reports!Assumptions, ReportsInv, NEW r \in ReportRequests, Reports!DrawNumber(r)
  PROVE  ReportsInv'
<1>1. PICK q : q = request[r]
  OBVIOUS
<1>2. q \in Reports!Request /\ AskFits(q)
  BY <1>1, Reading
<1>3. PICK k \in LocalNumbers :
        request' = [request EXCEPT ![r].step = "insert", ![r].number = Reports!Local(k)]
  BY DEF Reports!DrawNumber
<1>4. /\ q.kind = "submit" /\ (q.step = "local" \/ (Reports!Fails /\ q.step \in Reports!Outside))
      /\ UNCHANGED <<table, filed, accessToken, viewToken, issued, screen, page,
                     now, submitted, reportMode>>
  BY <1>1 DEF Reports!DrawNumber, Reports!Fields
<1>5. ~Reports!isLive \/ Reports!Fails
  BY <1>2, <1>4 DEF AskFits
<1>6. PICK number : number = Reports!Local(k)
  OBVIOUS
<1>7. number \in Reports!Number /\ number[1] = "ehelp"
  BY <1>6 DEF Reports!Local, Reports!Number
<1>8. PICK x : x = [q EXCEPT !.step = "insert", !.number = number]
  OBVIOUS
<1>9. x \in Reports!Request /\ x.step = "insert" /\ x.number = number /\ x.by = q.by
      /\ x.kind = q.kind
  BY <1>2, <1>7, <1>8 DEF Reports!Request, Reports!Steps
<1>10. request' = [request EXCEPT ![r] = x]
  BY <1>1, <1>3, <1>6, <1>8 DEF ReportsInv, Reports!TypeOK
<1>11. Becomes(r, x)
  BY <1>9, <1>10, BecomesBy DEF ReportsInv
<1>12. q.step # "free"
  BY <1>4 DEF Reports!Outside
<1>13. AskFits(x)
  BY <1>2, <1>4, <1>5, <1>7, <1>9, <1>12 DEF AskFits, Reports!Outside, Justified
<1> QED  BY <1>1, <1>4, <1>9, <1>11, <1>12, <1>13, Moved DEF ReportsInv, Reports!TypeOK

LEMMA InsertStep ==
  ASSUME Reports!Assumptions, ReportsInv, NEW r \in ReportRequests, Reports!Insert(r)
  PROVE  ReportsInv'
<1>1. PICK q : q = request[r]
  OBVIOUS
<1>2. q \in Reports!Request /\ AskFits(q) /\ q.step = "insert"
  BY <1>1, Reading DEF Reports!Insert
<1>3. q.kind = "submit" /\ q.by \in Citizens /\ Justified(q.number, q.by)
  BY <1>2 DEF AskFits
<1>4. /\ UNCHANGED <<filed, accessToken, viewToken, issued, screen, page>> /\ Reports!Fields
  BY DEF Reports!Insert
<1>5. CASE Reports!Goes(r, "failed") /\ table' = table
  <2>1. PICK x : x = [q EXCEPT !.step = "failed"]
    OBVIOUS
  <2>2. x.step = "failed" /\ x.kind = "submit" /\ x.by = q.by
    BY <1>2, <1>3, <2>1 DEF Reports!Request
  <2>3. AskFits(x)
    BY <1>3, <2>2 DEF AskFits, Reports!Outside
  <2> QED  BY <1>1, <1>2, <1>4, <1>5, <2>1, <2>3, Gone DEF Reports!Steps
<1>6. CASE Reports!Goes(r, "answer") /\ table' = table \cup {Reports!RowOf(r)}
  <2>1. Reports!RowOf(r) = AskedFor(q)
    BY <1>1 DEF Reports!RowOf, AskedFor
  <2>2. PICK row : row = AskedFor(q)
    OBVIOUS
  <2>3. /\ row \in Reports!Row /\ row.number = q.number /\ row.by = q.by
        /\ row.mode = "live" => row.number[1] = "ereport"
    BY <1>3, <2>2 DEF AskedFor, Reports!Row, Justified
  <2>4. table' = table \cup {row} /\ table' \subseteq Reports!Row
    BY <1>6, <2>1, <2>2, <2>3 DEF ReportsInv, Reports!TypeOK
  <2>5. Grow /\ submitted' = submitted
    BY <1>4, <2>4 DEF Grow, Extends, Reports!Fields
  <2>6. PICK x : x = [q EXCEPT !.step = "answer"]
    OBVIOUS
  <2>7. x \in Reports!Request /\ x.step = "answer" /\ x.kind = "submit" /\ x.by = q.by
        /\ x.number = q.number
    BY <1>2, <1>3, <2>6 DEF Reports!Request, Reports!Steps
  <2>8. request' = [request EXCEPT ![r] = x]
    BY <1>1, <1>6, <2>6 DEF Reports!Goes, ReportsInv, Reports!TypeOK
  <2>9. Becomes(r, x)
    BY <2>7, <2>8, BecomesBy DEF ReportsInv
  <2>10. Justified(x.number, x.by)'
    BY <1>3, <2>5, <2>7, JustifiedKept
  <2>11. AskedFor(x) \in table'
    BY <2>2, <2>4, <2>7 DEF AskedFor
  <2>12. AskFits(x)'
    BY <1>3, <2>7, <2>10, <2>11 DEF AskFits, Reports!Outside, AskedFor
  <2>13. RowsOK'
    <3>1. Justified(row.number, row.by)'
      BY <2>3, <2>7, <2>10
    <3> QED  BY <2>3, <2>4, <2>5, <3>1, RowsKept DEF ReportsInv
  <2>14. CachesOK'
    BY <1>4, <2>5, CachesKept DEF ReportsInv
  <2>15. ~(page.request = r /\ page.state = "loading")
    BY <1>1, <1>3 DEF ReportsInv, PageOK
  <2> QED  BY <1>1, <1>2, <1>3, <1>4, <2>4, <2>5, <2>7, <2>9, <2>12, <2>13, <2>14, <2>15,
              RequestServed DEF ReportsInv, Reports!TypeOK
<1> QED  BY <1>5, <1>6 DEF Reports!Insert

\* The administrator's list: of the service, or of the table.
LEMMA TakeReportsStep ==
  ASSUME Reports!Assumptions, ReportsInv, NEW r \in ReportRequests, Reports!TakeReports(r)
  PROVE  ReportsInv'
<1>1. PICK q : q = request[r]
  OBVIOUS
<1>2. q \in Reports!Request /\ AskFits(q) /\ now \in Nat
  BY <1>1, Reading
<1>3. q.step = "take" /\ q.kind = "reports" /\ Reports!Fields
      /\ UNCHANGED <<table, filed, accessToken, viewToken, issued, screen, page>>
  BY <1>1 DEF Reports!TakeReports
<1>4. CASE Reports!ViewToken # None /\ Reports!isLive
  <2>1. PICK k : k = viewToken
    OBVIOUS
  <2>2. Reports!Fresh(viewToken) /\ Reports!ViewToken = k.token
    BY <1>4, <2>1 DEF Reports!ViewToken
  <2>3. k \in Reports!Token /\ k.until > now + 1 /\ KnownToken(k)
    BY <2>1, <2>2 DEF Reports!Fresh, ReportsInv, Reports!TypeOK, CachesOK
  <2>4. k.token \in Nat /\ k.until \in Nat /\ k.token \in DOMAIN issued
        /\ issued[k.token] \in Nat /\ issued[k.token] >= k.until
    BY <2>3 DEF Reports!Token, KnownToken, ReportsInv, Reports!TypeOK
  <2>5. request' = [request EXCEPT ![r].step = "present", ![r].token = k.token,
                                   ![r].sent = now]
    BY <1>4, <2>2 DEF Reports!TakeReports, Reports!Present
  <2>6. PICK x : x = [q EXCEPT !.step = "present", !.token = k.token, !.sent = now]
    OBVIOUS
  <2>7. x \in Reports!Request /\ x.step = "present" /\ x.token = k.token /\ x.sent = now
        /\ x.by = q.by /\ x.kind = q.kind
    BY <1>2, <2>4, <2>6 DEF Reports!Request, Reports!Steps
  <2>8. request' = [request EXCEPT ![r] = x]
    BY <1>1, <2>5, <2>6 DEF ReportsInv, Reports!TypeOK
  <2>9. Becomes(r, x)
    BY <2>7, <2>8, BecomesBy DEF ReportsInv
  <2>10. AskFits(x)
    BY <1>2, <1>3, <1>4, <2>3, <2>4, <2>7 DEF AskFits, Reports!Outside
  <2> QED  BY <1>1, <1>3, <2>7, <2>9, <2>10, Moved DEF Reports!Fields, ReportsInv, Reports!TypeOK
<1>5. CASE ~(Reports!ViewToken # None /\ Reports!isLive)
  <2>1. Reports!Goes(r, "local")
    BY <1>5 DEF Reports!TakeReports
  <2>2. PICK x : x = [q EXCEPT !.step = "local"]
    OBVIOUS
  <2>3. x.step = "local" /\ x.kind = "reports" /\ x.by = q.by
    BY <1>2, <1>3, <2>2 DEF Reports!Request
  <2>4. AskFits(x)
    BY <2>3 DEF AskFits, Reports!Outside
  <2> QED  BY <1>1, <1>3, <2>1, <2>2, <2>4, Gone DEF Reports!Steps
<1> QED  BY <1>4, <1>5

\* Either way it shows what was recorded before it was asked for.
LEMMA ReportsStep ==
  ASSUME Reports!Assumptions, ReportsInv, NEW r \in ReportRequests, Reports!UpstreamReports(r) \/ Reports!LocalReports(r)
  PROVE  ReportsInv'
<1>1. PICK q : q = request[r]
  OBVIOUS
<1>2. q \in Reports!Request /\ AskFits(q)
  BY <1>1, Reading
<1>3. /\ q.kind = "reports" /\ q.step \in {"present", "local"}
      /\ UNCHANGED <<table, filed, accessToken, viewToken, issued, screen, page,
                     now, submitted, reportMode>>
  BY <1>1 DEF Reports!UpstreamReports, Reports!LocalReports, Reports!Fields
<1>4. PICK rows : rows = IF Reports!UpstreamReports(r) THEN {Reports!Upstream(n) : n \in DOMAIN filed}
                         ELSE Reports!Numbered(table)
  OBVIOUS
<1>5. request' = [request EXCEPT ![r].step = "answer", ![r].rows = rows]
  BY <1>4 DEF Reports!UpstreamReports, Reports!LocalReports
<1>6. rows \subseteq Reports!Number
  <2>1. \A n \in DOMAIN filed : Reports!Upstream(n) \in Reports!Number
    BY DEF ReportsInv, Reports!TypeOK, Reports!Upstream, Reports!Number
  <2>2. Reports!Numbered(table) \subseteq Reports!Number
    BY DEF Reports!Numbered, ReportsInv, Reports!TypeOK, Reports!Row
  <2> QED  BY <1>4, <2>1, <2>2
<1>7. PICK x : x = [q EXCEPT !.step = "answer", !.rows = rows]
  OBVIOUS
<1>8. x \in Reports!Request /\ x.step = "answer" /\ x.rows = rows /\ x.by = q.by /\ x.kind = q.kind
  BY <1>2, <1>6, <1>7 DEF Reports!Request, Reports!Steps
<1>9. request' = [request EXCEPT ![r] = x]
  BY <1>1, <1>5, <1>7 DEF ReportsInv, Reports!TypeOK
<1>10. Becomes(r, x)
  BY <1>8, <1>9, BecomesBy DEF ReportsInv
<1>11. AskFits(x)
  BY <1>3, <1>8 DEF AskFits, Reports!Outside
<1>12. page.request = r /\ page.state = "loading" => Lists(rows)
  <2> SUFFICES ASSUME page.request = r, page.state = "loading", ~Reports!Fails,
                      NEW row \in page.before
               PROVE  row.number \in rows
    BY DEF Lists, Reports!Numbered
  <2>1. row \in table /\ row.number \in Reports!Number /\ Justified(row.number, row.by)
    BY DEF ReportsInv, PageOK, RowsOK, Reports!TypeOK, Reports!Row
  <2>2. CASE Reports!UpstreamReports(r)
    <3>1. q.step = "present"
      BY <1>1, <2>2 DEF Reports!UpstreamReports
    <3>2. Reports!isLive
      BY <1>2, <1>3, <3>1 DEF AskFits
    <3>3. row.number[1] = "ereport" /\ row.number[2] \in DOMAIN filed
      BY <2>1, <3>2 DEF Justified, Filed
    <3>4. row.number = Reports!Upstream(row.number[2])
      BY <2>1, <3>3 DEF Reports!Number, Reports!Upstream
    <3> QED  BY <1>4, <2>2, <3>3, <3>4
  <2>3. CASE ~Reports!UpstreamReports(r)
    BY <1>4, <2>1, <2>3 DEF Reports!Numbered
  <2> QED  BY <2>2, <2>3
<1> QED  BY <1>1, <1>3, <1>8, <1>10, <1>11, <1>12, Moved DEF ReportsInv, Reports!TypeOK

LEMMA ConfirmFailsStep ==
  ASSUME Reports!Assumptions, ReportsInv, NEW r \in ReportRequests, Reports!ConfirmFails(r)
  PROVE  ReportsInv'
<1>1. PICK q : q = request[r]
  OBVIOUS
<1>2. q \in Reports!Request /\ AskFits(q)
  BY <1>1, Reading
<1>3. /\ q.kind = "confirm" /\ q.step # "free" /\ Reports!Goes(r, "failed") /\ Reports!Fields
      /\ UNCHANGED <<table, filed, accessToken, viewToken, issued, screen, page>>
  BY <1>1 DEF Reports!ConfirmFails, Reports!Outside
<1>4. PICK x : x = [q EXCEPT !.step = "failed"]
  OBVIOUS
<1>5. x.step = "failed" /\ x.kind = "confirm" /\ x.by = q.by
  BY <1>2, <1>3, <1>4 DEF Reports!Request
<1>6. AskFits(x)
  BY <1>5 DEF AskFits, Reports!Outside
<1> QED  BY <1>1, <1>3, <1>4, <1>6, Gone DEF Reports!Steps

----------------------------------------------------------------------------
(* The screens and the page *)

\* They ask, or read the answer: the server's tables stay.
LEMMA Asked ==
  ASSUME Reports!Assumptions, ReportsInv, NEW r \in ReportRequests, NEW x \in Reports!Request, Becomes(r, x),
         AskFits(x),
         UNCHANGED <<table, filed, accessToken, viewToken, issued, now, reportMode>>,
         screen' \in [Citizens -> Reports!Screen], page' \in Reports!Page,
         submitted' \in 0 .. MaxFiled[reportMode],
         ScreensOK', PageOK', Reports!OwnNumber'
  PROVE  ReportsInv'
<1>1. Grow
  BY DEF Grow, Extends
<1>2. Reports!TypeOK'
  BY DEF ReportsInv, Reports!TypeOK, Becomes
<1>3. AskFits(x)'
  BY <1>1, AskKept
<1>4. AsksOK'
  BY <1>1, <1>3, AsksKept DEF ReportsInv
<1>5. RowsOK' /\ CachesOK'
  BY <1>1, RowsKept, CachesKept DEF ReportsInv
<1> QED  BY <1>2, <1>4, <1>5 DEF ReportsInv

LEMMA FreeRequest ==
  ASSUME Reports!Assumptions, ReportsInv
  PROVE  Reports!NoRequest \in Reports!Request /\ AskFits(Reports!NoRequest)
<1>1. Reports!NoRequest \in Reports!Request
  BY DEF Reports!NoRequest, Reports!Request, Reports!Steps
<1>2. AskFits(Reports!NoRequest)
  BY DEF Reports!NoRequest, AskFits, Reports!Outside
<1> QED  BY <1>1, <1>2

LEMMA NewRequest ==
  ASSUME Reports!Assumptions, ReportsInv, NEW kind \in {"reports", "confirm"},
         NEW x, x = [Reports!NoRequest EXCEPT !.by = "page", !.kind = kind, !.step = "take"]
  PROVE  x \in Reports!Request /\ AskFits(x) /\ x.kind = kind /\ x.step = "take"
<1>1. x \in Reports!Request /\ x.kind = kind /\ x.step = "take"
  BY FreeRequest DEF Reports!Request, Reports!NoRequest, Reports!Steps
<1>2. AskFits(x)
  BY <1>1 DEF AskFits, Reports!Outside
<1> QED  BY <1>1, <1>2

LEMMA ScreensKept ==
  ASSUME Reports!Assumptions, ReportsInv, NEW r \in ReportRequests, NEW x, Becomes(r, x), screen' = screen,
         \A c \in Citizens : screen[c].request # r
  PROVE  ScreensOK'
BY DEF ReportsInv, ScreensOK, Becomes

LEMMA ListsKept ==
  ASSUME page'.before = page.before, reportMode' = reportMode, NEW rows, Lists(rows)
  PROVE  Lists(rows)'
BY DEF Lists, Reports!Fails

LEMMA AppealsKept ==
  ASSUME Reports!Assumptions, ReportsInv, NEW r \in ReportRequests, NEW x, Becomes(r, x), page' = page,
         UNCHANGED <<table, reportMode>>, page.request # r
  PROVE  PageOK'
<1>1. \A rows : Lists(rows) => Lists(rows)'
  BY ListsKept
<1>2. PICK rows : rows = page.rows
  OBVIOUS
<1>3. page.state = "loaded" => Lists(rows)'
  BY <1>1, <1>2 DEF ReportsInv, PageOK
<1>4. ASSUME NEW m \in ReportRequests, page.request = m
      PROVE  /\ request'[m].step # "free"
             /\ page.state = "loading" => request'[m].kind = "reports"
             /\ page.state = "confirming" => request'[m].kind = "confirm"
             /\ page.state = "loading" /\ request'[m].step = "answer" =>
                  Lists(request[m].rows)'
  <2>1. request'[m] = request[m]
    BY <1>4 DEF Becomes
  <2>2. PICK q : q = request[m]
    OBVIOUS
  <2>3. page.state = "loading" /\ q.step = "answer" => Lists(q.rows)'
    BY <1>1, <1>4, <2>2 DEF ReportsInv, PageOK
  <2>4. page.state = "loading" /\ request'[m].step = "answer" => Lists(request[m].rows)'
    BY <2>1, <2>2, <2>3 DEF Lists
  <2> QED  BY <1>4, <2>1, <2>4 DEF ReportsInv, PageOK
<1> QED  BY <1>2, <1>3, <1>4 DEF ReportsInv, PageOK, Lists

LEMMA ForgetStep ==
  ASSUME Reports!Assumptions, ReportsInv, NEW r \in ReportRequests, Reports!Forget(r)
  PROVE  ReportsInv'
<1>1. /\ request' = [request EXCEPT ![r] = Reports!NoRequest]
      /\ page.request # r /\ \A c \in Citizens : screen[c].request # r
      /\ UNCHANGED <<table, filed, accessToken, viewToken, issued, screen, page,
                     now, submitted, reportMode>>
  BY DEF Reports!Forget, Reports!Fields
<1>2. PICK x : x = Reports!NoRequest
  OBVIOUS
<1>3. x \in Reports!Request /\ AskFits(x)
  BY <1>2, FreeRequest
<1>4. Becomes(r, x)
  BY <1>1, <1>2, <1>3, BecomesBy DEF ReportsInv
<1>5. ScreensOK' /\ PageOK'
  BY <1>1, <1>4, ScreensKept, AppealsKept
<1>6. Reports!OwnNumber'
  BY <1>1 DEF ReportsInv, Reports!OwnNumber, Reports!MyCases
<1> QED  BY <1>1, <1>3, <1>4, <1>5, <1>6, Asked DEF ReportsInv, Reports!TypeOK

LEMMA SubmitStep ==
  ASSUME Reports!Assumptions, ReportsInv, NEW c \in Citizens, NEW r \in ReportRequests, Reports!Submit(c, r)
  PROVE  ReportsInv'
<1>1. PICK x : x = [Reports!NoRequest EXCEPT !.by = c, !.kind = "submit", !.step = "take"]
  OBVIOUS
<1>2. x \in Reports!Request /\ AskFits(x) /\ x.by = c /\ x.kind = "submit" /\ x.step = "take"
  <2>1. x \in Reports!Request /\ x.by = c /\ x.kind = "submit" /\ x.step = "take"
    BY <1>1, FreeRequest DEF Reports!Request, Reports!NoRequest, Reports!Steps
  <2>2. AskFits(x)
    BY <2>1 DEF AskFits, Reports!Outside
  <2> QED  BY <2>1, <2>2
<1>3. /\ request' = [request EXCEPT ![r] = x] /\ request[r].step = "free"
      /\ screen' = [screen EXCEPT ![c].state = "submitting", ![c].request = r,
                                  ![c].shown = None]
      /\ UNCHANGED <<table, filed, accessToken, viewToken, issued, page, now, reportMode>>
  BY <1>1 DEF Reports!Submit
<1>4. Becomes(r, x)
  BY <1>2, <1>3, BecomesBy DEF ReportsInv
<1>5. submitted' \in 0 .. MaxFiled[reportMode]
  BY DEF Reports!Submit, ReportsInv, Reports!TypeOK, Reports!Assumptions
<1>6. /\ screen' \in [Citizens -> Reports!Screen]
      /\ screen'[c].state = "submitting" /\ screen'[c].request = r
      /\ screen'[c].shown = None
      /\ \A d \in Citizens : d # c => screen'[d] = screen[d]
  BY <1>3 DEF ReportsInv, Reports!TypeOK, Reports!Screen
<1>7. page.request # r /\ \A d \in Citizens : screen[d].request # r
  BY <1>3 DEF ReportsInv, PageOK, ScreensOK
<1>8. ScreensOK'
  <2> SUFFICES ASSUME NEW d \in Citizens
               PROVE  /\ screen'[d].state = "submitting" <=> screen'[d].request # None
                      /\ \A m \in ReportRequests : screen'[d].request = m =>
                           /\ request'[m].by = d /\ request'[m].kind = "submit"
                           /\ request'[m].step # "free"
    BY DEF ScreensOK
  <2>1. CASE d = c
    BY <1>2, <1>4, <1>6, <2>1 DEF Becomes, Reports!Assumptions
  <2>2. CASE d # c
    BY <1>4, <1>6, <1>7, <2>2 DEF Becomes, ReportsInv, ScreensOK
  <2> QED  BY <2>1, <2>2
<1>9. PageOK'
  BY <1>3, <1>4, <1>7, AppealsKept
<1>10. Reports!OwnNumber'
  BY <1>3, <1>6 DEF ReportsInv, Reports!OwnNumber, Reports!MyCases
<1> QED  BY <1>2, <1>3, <1>4, <1>5, <1>6, <1>8, <1>9, <1>10, Asked DEF ReportsInv, Reports!TypeOK

LEMMA ReportedStep ==
  ASSUME Reports!Assumptions, ReportsInv, NEW c \in Citizens, Reports!Reported(c)
  PROVE  ReportsInv'
<1>1. PICK r : r = screen[c].request
  OBVIOUS
<1>2. PICK q : q = request[r]
  OBVIOUS
<1>3. r \in ReportRequests /\ q.by = c /\ q.kind = "submit" /\ q.step \in {"answer", "failed"}
  BY <1>1, <1>2 DEF Reports!Reported, ReportsInv, ScreensOK, Reports!TypeOK, Reports!Screen
<1>4. q \in Reports!Request /\ AskFits(q)
  BY <1>2, <1>3, Reading
<1>5. PICK shown : shown = IF q.step = "answer" THEN q.number ELSE None
  OBVIOUS
<1>6. PICK state : state = IF q.step = "answer" THEN "success" ELSE "error"
  OBVIOUS
<1>7. /\ request' = [request EXCEPT ![r] = Reports!NoRequest]
      /\ screen' = [screen EXCEPT ![c].state = state, ![c].request = None,
                                  ![c].shown = shown]
      /\ UNCHANGED <<table, filed, accessToken, viewToken, issued, page, now,
                     submitted, reportMode>>
  BY <1>1, <1>2, <1>5, <1>6 DEF Reports!Reported, Reports!Fields
<1>8. PICK x : x = Reports!NoRequest
  OBVIOUS
<1>9. x \in Reports!Request /\ AskFits(x)
  BY <1>8, FreeRequest
<1>10. Becomes(r, x)
  BY <1>3, <1>7, <1>8, <1>9, BecomesBy DEF ReportsInv
<1>11. state \in {"success", "error"} /\ shown \in Reports!Number \cup {None}
  BY <1>3, <1>4, <1>5, <1>6 DEF AskFits, Justified
<1>12. /\ screen' \in [Citizens -> Reports!Screen]
       /\ screen'[c].state = state /\ screen'[c].request = None
       /\ screen'[c].shown = shown
       /\ \A d \in Citizens : d # c => screen'[d] = screen[d]
  BY <1>7, <1>11 DEF ReportsInv, Reports!TypeOK, Reports!Screen
<1>13. page.request # r
  BY <1>2, <1>3 DEF ReportsInv, PageOK, Reports!Assumptions
<1>14. \A d \in Citizens : d # c => screen[d].request # r
  BY <1>2, <1>3 DEF ReportsInv, ScreensOK
<1>15. ScreensOK'
  <2> SUFFICES ASSUME NEW d \in Citizens
               PROVE  /\ screen'[d].state = "submitting" <=> screen'[d].request # None
                      /\ \A m \in ReportRequests : screen'[d].request = m =>
                           /\ request'[m].by = d /\ request'[m].kind = "submit"
                           /\ request'[m].step # "free"
    BY DEF ScreensOK
  <2>1. CASE d = c
    BY <1>11, <1>12, <2>1 DEF Reports!Assumptions
  <2>2. CASE d # c
    BY <1>10, <1>12, <1>14, <2>2 DEF Becomes, ReportsInv, ScreensOK
  <2> QED  BY <2>1, <2>2
<1>16. PageOK'
  BY <1>3, <1>7, <1>10, <1>13, AppealsKept
<1>17. Reports!OwnNumber'
  <2> SUFFICES ASSUME NEW d \in Citizens, screen'[d].shown # None
               PROVE  \E row \in Reports!MyCases(d)' :
                        /\ row.number = screen'[d].shown
                        /\ row.mode = "live" => filed'[row.number[2]] = d
    BY DEF Reports!OwnNumber
  <2>1. CASE d = c
    <3>1. q.step = "answer" /\ shown = q.number
      BY <1>3, <1>5, <1>12, <2>1
    <3>2. PICK row : row = AskedFor(q)
      OBVIOUS
    <3>3. row \in table /\ row.number = q.number /\ row.by = c
      BY <1>3, <1>4, <3>1, <3>2 DEF AskFits, AskedFor
    <3>4. row.mode = "live" => filed[row.number[2]] = c
      BY <3>3 DEF ReportsInv, RowsOK, Justified, Filed
    <3> QED  BY <1>7, <1>12, <2>1, <3>1, <3>3, <3>4 DEF Reports!MyCases
  <2>2. CASE d # c
    BY <1>7, <1>12, <2>2 DEF ReportsInv, Reports!OwnNumber, Reports!MyCases
  <2> QED  BY <2>1, <2>2
<1> QED  BY <1>3, <1>7, <1>9, <1>10, <1>12, <1>15, <1>16, <1>17, Asked DEF ReportsInv,
            Reports!TypeOK

LEMMA LoseStep ==
  ASSUME Reports!Assumptions, ReportsInv, NEW c \in Citizens, Reports!Lose(c)
  PROVE  ReportsInv'
<1>1. /\ screen' = [screen EXCEPT ![c].state = "error", ![c].request = None]
      /\ UNCHANGED <<table, filed, accessToken, viewToken, issued, request, page,
                     now, submitted, reportMode>>
  BY DEF Reports!Lose, Reports!Fields
<1>2. /\ screen' \in [Citizens -> Reports!Screen]
      /\ screen'[c].state = "error" /\ screen'[c].request = None
      /\ screen'[c].shown = screen[c].shown
      /\ \A d \in Citizens : d # c => screen'[d] = screen[d]
  BY <1>1 DEF ReportsInv, Reports!TypeOK, Reports!Screen
<1>3. Reports!TypeOK'
  BY <1>1, <1>2 DEF ReportsInv, Reports!TypeOK
<1>4. ScreensOK'
  <2> SUFFICES ASSUME NEW d \in Citizens
               PROVE  /\ screen'[d].state = "submitting" <=> screen'[d].request # None
                      /\ \A m \in ReportRequests : screen'[d].request = m =>
                           /\ request[m].by = d /\ request[m].kind = "submit"
                           /\ request[m].step # "free"
    BY <1>1 DEF ScreensOK
  <2>1. CASE d = c
    BY <1>2, <2>1 DEF Reports!Assumptions
  <2>2. CASE d # c
    BY <1>2, <2>2 DEF ReportsInv, ScreensOK
  <2> QED  BY <2>1, <2>2
<1>5. AsksOK' /\ RowsOK' /\ CachesOK'
  BY <1>1 DEF ReportsInv, AsksOK, AskFits, AskedFor, Justified, Filed, Reports!isLive,
     Reports!Fails, RowsOK,
              CachesOK, KnownToken, Reports!Never
<1>6. PageOK' /\ Reports!OwnNumber'
  <2>1. \A d \in Citizens : screen'[d].shown = screen[d].shown
    BY <1>2
  <2>2. PageOK'
    BY <1>1 DEF ReportsInv, PageOK, Lists, Reports!Fails
  <2>3. Reports!OwnNumber'
    BY <1>1, <2>1, OwnNumberKept DEF ReportsInv, Grow, Extends
  <2> QED  BY <2>2, <2>3
<1> QED  BY <1>3, <1>4, <1>5, <1>6 DEF ReportsInv

\* The page asks for the list, or to be let in.
LEMMA LoadStep ==
  ASSUME Reports!Assumptions, ReportsInv, NEW r \in ReportRequests, Reports!Load(r) \/ Reports!Confirm(r)
  PROVE  ReportsInv'
<1>1. PICK kind \in {"reports", "confirm"} :
        /\ request' = [request EXCEPT ![r] =
                         [Reports!NoRequest EXCEPT !.by = "page", !.kind = kind, !.step = "take"]]
        /\ kind = "reports" => page' = [page EXCEPT !.state = "loading", !.request = r,
                                          !.before = table, !.loads = @ + 1]
        /\ kind = "confirm" => page' = [page EXCEPT !.state = "confirming", !.request = r,
                                          !.loads = @ + 1]
  BY DEF Reports!Load, Reports!Confirm
<1>2. /\ request[r].step = "free"
      /\ UNCHANGED <<table, filed, accessToken, viewToken, issued, screen, now,
                     submitted, reportMode>>
  BY DEF Reports!Load, Reports!Confirm, Reports!Fields
<1>3. PICK x : x = [Reports!NoRequest EXCEPT !.by = "page", !.kind = kind, !.step = "take"]
  OBVIOUS
<1>4. x \in Reports!Request /\ AskFits(x) /\ x.kind = kind /\ x.step = "take"
  BY <1>3, NewRequest
<1>5. Becomes(r, x)
  BY <1>1, <1>3, <1>4, BecomesBy DEF ReportsInv
<1>6. /\ page' \in Reports!Page /\ page'.request = r
      /\ page'.state = IF kind = "reports" THEN "loading" ELSE "confirming"
      /\ page'.before \subseteq table
  <2>1. page \in Reports!Page /\ table \subseteq Reports!Row /\ page.before \subseteq table
    BY DEF ReportsInv, Reports!TypeOK, PageOK
  <2>2. PICK n \in Nat : n = page.loads + 1
    BY <2>1 DEF Reports!Page
  <2>3. CASE kind = "reports"
    <3>1. page' = [page EXCEPT !.state = "loading", !.request = r, !.before = table,
                               !.loads = n]
      BY <1>1, <2>2, <2>3
    <3> QED  BY <2>1, <2>2, <2>3, <3>1 DEF Reports!Page
  <2>4. CASE kind = "confirm"
    <3>1. page' = [page EXCEPT !.state = "confirming", !.request = r, !.loads = n]
      BY <1>1, <2>2, <2>4
    <3> QED  BY <2>1, <2>2, <2>4, <3>1 DEF Reports!Page
  <2> QED  BY <2>3, <2>4
<1>7. ScreensOK'
  BY <1>2, <1>5, ScreensKept DEF ReportsInv, ScreensOK
<1>8. request'[r] = x
  BY <1>5 DEF Becomes
<1>9. PageOK'
  BY <1>2, <1>4, <1>6, <1>8 DEF PageOK, Reports!Assumptions
<1>10. Reports!OwnNumber'
  BY <1>2, OwnNumberKept DEF ReportsInv, Grow, Extends
<1> QED  BY <1>2, <1>4, <1>5, <1>6, <1>7, <1>9, <1>10, Asked DEF ReportsInv, Reports!TypeOK

\* The page the answer is for.
LEMMA PageWaits ==
  ASSUME Reports!Assumptions, ReportsInv, page.state \in {"loading", "confirming"},
         NEW r, r = page.request
  PROVE  /\ r \in ReportRequests /\ \A c \in Citizens : screen[c].request # r
         /\ page.state = "loading" => request[r].kind = "reports"
<1>1. r \in ReportRequests
  BY DEF ReportsInv, PageOK, Reports!TypeOK, Reports!Page
<1>2. request[r].kind \in {"reports", "confirm"}
      /\ (page.state = "loading" => request[r].kind = "reports")
  BY <1>1 DEF ReportsInv, PageOK
<1>3. \A c \in Citizens : screen[c].request # r
  BY <1>1, <1>2 DEF ReportsInv, ScreensOK
<1> QED  BY <1>1, <1>2, <1>3

LEMMA ListedStep ==
  ASSUME Reports!Assumptions, ReportsInv, Reports!Listed
  PROVE  ReportsInv'
<1>1. PICK r : r = page.request
  OBVIOUS
<1>2. PICK q : q = request[r]
  OBVIOUS
<1>3. PICK rows : rows = q.rows
  OBVIOUS
<1>4. /\ page.state = "loading" /\ q.step = "answer"
      /\ page' = [page EXCEPT !.state = "loaded", !.request = None, !.rows = rows]
      /\ request' = [request EXCEPT ![r] = Reports!NoRequest]
      /\ UNCHANGED <<table, filed, accessToken, viewToken, issued, screen, now,
                     submitted, reportMode>>
  BY <1>1, <1>2, <1>3 DEF Reports!Listed, Reports!Fields
<1>5. r \in ReportRequests /\ \A c \in Citizens : screen[c].request # r
  BY <1>1, <1>4, PageWaits
<1>6. PICK x : x = Reports!NoRequest
  OBVIOUS
<1>7. x \in Reports!Request /\ AskFits(x)
  BY <1>6, FreeRequest
<1>8. Becomes(r, x)
  BY <1>4, <1>5, <1>6, <1>7, BecomesBy DEF ReportsInv
<1>9. rows \subseteq Reports!Number /\ Lists(rows)
  BY <1>1, <1>2, <1>3, <1>4, <1>5 DEF ReportsInv, Reports!TypeOK, Reports!Request, PageOK
<1>10. /\ page' \in Reports!Page /\ page'.request = None /\ page'.state = "loaded"
       /\ page'.rows = rows /\ page'.before = page.before
  BY <1>4, <1>9 DEF ReportsInv, Reports!TypeOK, Reports!Page
<1>11. ScreensOK'
  BY <1>4, <1>5, <1>8, ScreensKept
<1>12. Lists(rows)'
  BY <1>4, <1>9, <1>10, ListsKept
<1>13. PageOK'
  BY <1>4, <1>10, <1>12 DEF ReportsInv, PageOK, Reports!Assumptions, Lists
<1>14. Reports!OwnNumber'
  BY <1>4, OwnNumberKept DEF ReportsInv, Grow, Extends
<1> QED  BY <1>4, <1>5, <1>7, <1>8, <1>10, <1>11, <1>13, <1>14, Asked DEF ReportsInv,
            Reports!TypeOK

LEMMA ConfirmedStep ==
  ASSUME Reports!Assumptions, ReportsInv, Reports!Confirmed
  PROVE  ReportsInv'
<1>1. PICK r : r = page.request
  OBVIOUS
<1>2. /\ page.state = "confirming"
      /\ UNCHANGED <<table, filed, accessToken, viewToken, issued, screen, now,
                     submitted, reportMode>>
  BY DEF Reports!Confirmed, Reports!Fields
<1>3. r \in ReportRequests /\ \A c \in Citizens : screen[c].request # r
  BY <1>1, <1>2, PageWaits
<1>4. PICK x : \/ /\ request[r].step = "answer"
                  /\ x = [Reports!NoRequest EXCEPT !.by = "page", !.kind = "reports", !.step = "take"]
               \/ request[r].step # "answer" /\ x = Reports!NoRequest
  OBVIOUS
<1>5. x \in Reports!Request /\ AskFits(x)
  <2>1. CASE x = [Reports!NoRequest EXCEPT !.by = "page", !.kind = "reports", !.step = "take"]
    BY <2>1, NewRequest
  <2> QED  BY <1>4, <2>1, FreeRequest
<1>6. request' = [request EXCEPT ![r] = x]
  BY <1>1, <1>4 DEF Reports!Confirmed
<1>7. Becomes(r, x)
  BY <1>3, <1>5, <1>6, BecomesBy DEF ReportsInv
<1>8. request'[r] = x /\ page \in Reports!Page /\ table \subseteq Reports!Row /\ page.before \subseteq table
  BY <1>7 DEF Becomes, ReportsInv, Reports!TypeOK, PageOK
<1>9. page' \in Reports!Page /\ PageOK'
  <2>1. CASE request[r].step = "answer"
    <3>1. page' = [page EXCEPT !.state = "loading", !.before = table]
      BY <1>1, <2>1 DEF Reports!Confirmed
    <3>2. page' \in Reports!Page /\ page'.state = "loading" /\ page'.request = r
          /\ page'.before = table
      BY <1>1, <1>8, <3>1 DEF Reports!Page
    <3>3. x.kind = "reports" /\ x.step = "take"
      BY <1>4, <2>1, NewRequest
    <3> QED  BY <1>2, <1>3, <1>8, <3>2, <3>3 DEF PageOK, Reports!Assumptions
  <2>2. CASE request[r].step # "answer"
    <3>1. page' = [page EXCEPT !.state = "error", !.request = None]
      BY <1>1, <2>2 DEF Reports!Confirmed
    <3>2. page' \in Reports!Page /\ page'.state = "error" /\ page'.request = None
          /\ page'.before = page.before
      BY <1>8, <3>1 DEF Reports!Page
    <3> QED  BY <1>2, <1>8, <3>2 DEF PageOK, Reports!Assumptions
  <2> QED  BY <2>1, <2>2
<1>10. ScreensOK'
  BY <1>2, <1>3, <1>7, ScreensKept
<1>11. Reports!OwnNumber'
  BY <1>2, OwnNumberKept DEF ReportsInv, Grow, Extends
<1> QED  BY <1>2, <1>3, <1>5, <1>7, <1>9, <1>10, <1>11, Asked DEF ReportsInv, Reports!TypeOK

LEMMA TickStep ==
  ASSUME Reports!Assumptions, ReportsInv, Reports!Tick
  PROVE  ReportsInv'
<1>1. /\ now' = now + 1 /\ now < ReportLastTime[reportMode]
      /\ \A r \in ReportRequests : request[r].step \in Reports!Outside => request[r].sent = now
      /\ UNCHANGED <<table, filed, accessToken, viewToken, issued, request, screen,
                     page, submitted, reportMode>>
  BY DEF Reports!Tick
<1>2. now \in Nat /\ reportMode \in ReportModes /\ ReportLastTime[reportMode] \in Nat /\ now <= ReportLastTime[reportMode]
  BY DEF ReportsInv, Reports!TypeOK, Reports!Assumptions
<1>3. Reports!TypeOK'
  BY <1>1, <1>2 DEF ReportsInv, Reports!TypeOK
<1>4. AsksOK'
  <2> SUFFICES ASSUME NEW r \in ReportRequests  PROVE  AskFits(request[r])'
    BY DEF AsksOK
  <2>1. PICK q : q = request[r]
    OBVIOUS
  <2>2. q \in Reports!Request /\ AskFits(q) /\ (q.step \in Reports!Outside => q.sent = now) /\ request'[r] = q
    BY <1>1, <2>1, Reading
  <2>3. AskFits(q)'
    BY <1>1, <1>2, <2>2 DEF AskFits, AskedFor, Justified, Filed, Reports!isLive,
       Reports!Fails
  <2> QED  BY <2>2, <2>3 DEF AskFits, AskedFor, Justified, Filed
<1>5. RowsOK' /\ CachesOK'
  BY <1>1 DEF ReportsInv, RowsOK, Justified, Filed, Reports!isLive, Reports!Fails, CachesOK,
     KnownToken, Reports!Never
<1>6. ScreensOK' /\ PageOK'
  BY <1>1 DEF ReportsInv, ScreensOK, PageOK, Lists, Reports!Fails
<1>7. Reports!OwnNumber'
  BY <1>1 DEF ReportsInv, Reports!OwnNumber, Reports!MyCases
<1> QED  BY <1>3, <1>4, <1>5, <1>6, <1>7 DEF ReportsInv

----------------------------------------------------------------------------
LEMMA Initially == Reports!Assumptions /\ Reports!Init => ReportsInv
<1> SUFFICES ASSUME Reports!Assumptions, Reports!Init  PROVE  ReportsInv
  OBVIOUS
<1>1. ReportLastTime[reportMode] \in Nat /\ MaxFiled[reportMode] \in Nat /\ Reports!Never \in Nat
  BY DEF Reports!Init, Reports!Assumptions, Reports!Never
<1>2. request \in [ReportRequests -> Reports!Request] /\ \A r \in ReportRequests : request[r] = Reports!NoRequest
  BY DEF Reports!Init, Reports!NoRequest, Reports!Request, Reports!Steps
<1>3. screen \in [Citizens -> Reports!Screen] /\ page \in Reports!Page
  BY DEF Reports!Init, Reports!Screen, Reports!Page
<1>4. issued \in Seq(Nat) /\ filed \in Seq(Citizens) /\ 1 \in DOMAIN issued /\ issued[1] = Reports!Never
  BY <1>1 DEF Reports!Init
<1>5. Reports!TypeOK
  BY <1>1, <1>2, <1>3, <1>4 DEF Reports!Init, Reports!TypeOK
<1>6. AsksOK
  BY <1>2 DEF AsksOK, AskFits, Reports!NoRequest, Reports!Outside
<1>7. RowsOK /\ CachesOK
  BY <1>4 DEF Reports!Init, RowsOK, CachesOK
<1>8. ScreensOK /\ PageOK /\ Reports!OwnNumber
  BY DEF Reports!Init, ScreensOK, PageOK, Reports!OwnNumber, Lists, Reports!Numbered,
     Reports!Assumptions
<1> QED  BY <1>5, <1>6, <1>7, <1>8 DEF ReportsInv

LEMMA ServesStep == Reports!Assumptions /\ ReportsInv /\ Reports!Serves => ReportsInv'
BY TakeSubmitStep, FileStep, DrawNumberStep, InsertStep, IssueStep, KeepTokenStep,
   TakeReportsStep, ReportsStep, TakeConfirmStep, KeepViewTokenStep, ConfirmFailsStep,
   NumberingStep, ForgetStep DEF Reports!Serves

LEMMA UsesStep == Reports!Assumptions /\ ReportsInv /\ Reports!Uses => ReportsInv'
BY SubmitStep, ReportedStep, LoseStep, LoadStep, ListedStep,
   ConfirmedStep DEF Reports!Uses

LEMMA ReportsHold == ASSUME Reports!Assumptions PROVE Reports!Spec => []ReportsInv
<1> USE Reports!Assumptions
<1>1. Reports!Init => ReportsInv
  BY Initially
<1>2. ReportsInv /\ [Reports!Next]_(Reports!vars) => ReportsInv'
  <2> SUFFICES ASSUME ReportsInv, [Reports!Next]_(Reports!vars)  PROVE  ReportsInv'
    OBVIOUS
  <2>1. CASE UNCHANGED Reports!vars
    <3>1. Reports!TypeOK' /\ AsksOK' /\ RowsOK'
      BY <2>1 DEF Reports!vars, ReportsInv, Reports!TypeOK, AsksOK, AskFits, AskedFor,
         Justified, Filed,
                  Reports!isLive, Reports!Fails, RowsOK
    <3>2. CachesOK' /\ ScreensOK' /\ PageOK' /\ Reports!OwnNumber'
      BY <2>1 DEF Reports!vars, ReportsInv, CachesOK, KnownToken, Reports!Never, ScreensOK,
         PageOK, Lists, Reports!Fails,
                  Reports!OwnNumber, Reports!MyCases
    <3> QED  BY <3>1, <3>2 DEF ReportsInv
  <2> QED  BY <2>1, ServesStep, UsesStep, TickStep DEF Reports!Next
<1> QED  BY <1>1, <1>2, PTL DEF Reports!Spec

\* The table, the tokens, the requests and the screens are what TypeOK says
\* (ereport/ereport.service.ts).
THEOREM ReportTypeCorrect == ASSUME Reports!Assumptions PROVE Reports!Spec => []Reports!TypeOK
<1>1. ReportsInv => Reports!TypeOK
  BY DEF ReportsInv
<1> QED  BY <1>1, ReportsHold, PTL

\* A number a citizen is shown is a row of his, and the service's if it is the
\* service's; and unless service or network fail, the administrator's list has
\* every report that was recorded when it was asked for.
THEOREM ReportsTrackableHolds == ASSUME Reports!Assumptions PROVE Reports!Spec => []ReportsTrackable
<1>1. ReportsInv => ReportsTrackable
  BY DEF ReportsInv, ReportsTrackable, Reports!ReportsTrackable, PageOK, Reports!EveryReportListed, Lists
<1> QED  BY <1>1, ReportsHold, PTL

\* No access or view token is presented that is expired when it arrives, whoever
\* cached it and whoever else is fetching one.
THEOREM ReportTokensAccepted == ASSUME Reports!Assumptions PROVE Reports!Spec => []Reports!TokensAccepted
<1>1. ASSUME ReportsInv  PROVE  Reports!TokensAccepted
  <2> SUFFICES ASSUME NEW r \in ReportRequests, request[r].step = "present"
               PROVE  now < issued[request[r].token]
    BY DEF Reports!TokensAccepted, Reports!Accepted
  <2>1. request[r] \in Reports!Request /\ AskFits(request[r]) /\ now \in Nat
    BY <1>1, Reading
  <2>2. request[r].token \in DOMAIN issued /\ issued \in Seq(Nat)
    BY <1>1, <2>1 DEF AskFits, ReportsInv, Reports!TypeOK
  <2> QED  BY <2>1, <2>2 DEF AskFits, Reports!Outside, Reports!Request
<1> QED  BY <1>1, ReportsHold, PTL

----------------------------------------------------------------------------
(***************************************************************************)
(* The eGov AI assistant: whatever an answer says of the citizen's cases,  *)
(* bookings and free seats was so between the question and the answer, for *)
(* any number of programs and chats and any order of what happens in       *)
(* between, and no token is presented that is expired when it arrives.     *)
(***************************************************************************)

Case == [program : Programs, status : Ai!Statuses]

\* A chat has its fields.
IsChat(x) ==
  x \in [step : {x.step}, kind : {x.kind}, about : {x.about}, context : {x.context},
         token : {x.token}, sent : {x.sent}, answer : {x.answer}]

IsContext(k) ==
  k \in [closed : {k.closed}, cases : {k.cases}, caseSeats : {k.caseSeats},
         booking : {k.booking}, seats : {k.seats}]

\* What was so at one of the moments W
WasCase(known, W) == \E w \in W : known \in Ai!CasesIn(w)
WasOpen(p, W)    == \E w \in W : \E known \in Ai!OpenIn(w) : known.program = p
WasSeat(p, W)    == \E w \in W : p \in w[3]
WasBooking(p, W) == \E w \in W : w[2] = p

\* A context whose parts were read at some of the moments W
Read(k, W) ==
  /\ IsContext(k)
  /\ k.cases \in Seq(Case) /\ \E w \in W : w[1] = k.cases
  /\ \A p \in k.closed : WasOpen(p, W)
  /\ \A p \in k.caseSeats \cup k.seats : WasSeat(p, W)

\* An answer that was true at some of the moments W
Truthful(a, W) ==
  /\ a.says = "none" => \E w \in W : w[1] = <<>>
  /\ a.says = "status" => WasCase([program |-> a.about, status |-> a.what], W)
  /\ a.says = "approveFirst" =>
       \E w \in W : \A known \in Ai!CasesIn(w) : known.status # "approved"
  /\ a.says = "booked" => WasBooking(a.about, W)
  /\ a.says = "slots" => WasSeat(a.what, W)
  /\ a.says = "details" => a.what = None \/ WasSeat(a.what, W)
  /\ a.says = "programs" => \A p \in a.what : WasOpen(p, W)
  /\ a.says = "upstream" /\ a.what # None =>
       /\ \A i \in DOMAIN a.what.cases : WasCase(a.what.cases[i], W)
       /\ WasBooking(a.what.booking, W)
       /\ \A p \in a.what.seats : WasSeat(p, W)
       /\ \A p \in a.what.closed : WasOpen(p, W)

\* What a chat x has read while its question was open, or was answered.
Knows(x, W) ==
  /\ IsChat(x)
  /\ x.step \in Ai!Steps /\ x.kind \in Ai!AllKinds \cup {None} /\ x.about \in Ai!Topics
  /\ x.step # "idle" => x.kind \in Ai!AllKinds /\ x.answer = None
  /\ x.step = "cases" => \A p \in x.context.closed : WasOpen(p, W)
  /\ x.step \in {"bookings", "slots"} => Read(x.context, W)
  /\ x.step = "slots" => WasBooking(x.context.booking, W)
  /\ x.step \in {"ask"} \cup Ai!Calling =>
       x.context = None \/ (Read(x.context, W) /\ WasBooking(x.context.booking, W))
  /\ x.answer # None => x.answer.says \in Ai!Answers /\ Truthful(x.answer, W)

\* A token that is presented outlives the message.
TokenFits(x) ==
  /\ x.step \in Ai!Calling => x.sent \in Nat /\ x.sent <= aiNow /\ aiNow <= x.sent + 1
  /\ x.step = "issue" => x.token \in DOMAIN aiIssued /\ aiIssued[x.token] >= x.sent + AiLife
  /\ x.step = "present" => x.token \in DOMAIN aiIssued /\ aiIssued[x.token] > x.sent + 1

AiCacheFits ==
  aiToken # None => /\ aiToken \in [token : Nat, expiresAtMs : Nat]
                       /\ aiToken.token \in DOMAIN aiIssued
                       /\ aiToken.expiresAtMs <= aiIssued[aiToken.token]

FactsTyped ==
  /\ cases \in Seq(Case) /\ booking \in Ai!Topics /\ seats \subseteq Programs

Bounds ==
  /\ aiIssued \in Seq(Nat) /\ aiNow \in 0..AiLastTime /\ aiMode \in AiModes
  /\ asked \in 0..MaxAsked[aiMode] /\ events \in 0..MaxEvents[aiMode]

Chatting ==
  /\ chat = [c \in Chats |-> chat[c]] /\ seen = [c \in Chats |-> seen[c]]
  /\ \A c \in Chats :
       /\ Knows(chat[c], seen[c]) /\ TokenFits(chat[c])
       /\ chat[c].step # "idle" => Ai!Facts \in seen[c]

AiInv == FactsTyped /\ Bounds /\ AiCacheFits /\ Chatting

----------------------------------------------------------------------------
(* The answers given here *)

\* What is found in a list is in it.
LEMMA PreferredFound ==
  ASSUME NEW list \in Seq(Case), list # <<>>
  PROVE  \E i \in DOMAIN list : Ai!Preferred(list) = list[i]
<1>1. CASE ~Ai!Contains(list, Ai!InProgress)
  BY <1>1 DEF Ai!Preferred
<1>2. CASE Ai!Contains(list, Ai!InProgress)
  <2> DEFINE T == {i \in DOMAIN list : Ai!InProgress(list[i])}
  <2>1. T \in SUBSET Nat /\ T # {}
    BY <1>2 DEF Ai!Contains
  <2>2. PICK i \in T : \A j \in T : ~(j < i)
    <3> HIDE DEF T
    <3> QED  BY <2>1, Least
  <2>3. Ai!InProgress(list[i]) /\ \A j \in 1..(i - 1) : ~Ai!InProgress(list[j])
    BY <2>1, <2>2
  <2> DEFINE k == CHOOSE n \in DOMAIN list :
                    Ai!InProgress(list[n]) /\ \A j \in 1..(n - 1) : ~Ai!InProgress(list[j])
  <2>4. k \in DOMAIN list
    BY <2>2, <2>3
  <2>5. Ai!Preferred(list) = list[k]
    BY <1>2 DEF Ai!Preferred, Ai!FirstOf
  <2> QED  BY <2>4, <2>5
<1> QED  BY <1>1, <1>2

LEMMA TargetFound ==
  ASSUME NEW list \in Seq(Case), list # <<>>, NEW p
  PROVE  \E i \in DOMAIN list : Ai!StatusTarget(list, p) = list[i]
<1> DEFINE Named(known) == known.program = p
<1>1. CASE ~Ai!Contains(list, Named)
  BY <1>1, PreferredFound DEF Ai!StatusTarget
<1>2. CASE Ai!Contains(list, Named)
  <2> DEFINE T == {i \in DOMAIN list : list[i].program = p}
  <2>1. T \in SUBSET Nat /\ T # {}
    BY <1>2 DEF Ai!Contains
  <2>2. PICK i \in T : \A j \in T : ~(j < i)
    <3> HIDE DEF T
    <3> QED  BY <2>1, Least
  <2>3. list[i].program = p /\ \A j \in 1..(i - 1) : ~(list[j].program = p)
    BY <2>1, <2>2
  <2> DEFINE k == CHOOSE n \in DOMAIN list :
                    list[n].program = p /\ \A j \in 1..(n - 1) : ~(list[j].program = p)
  <2>4. k \in DOMAIN list
    BY <2>2, <2>3
  <2>5. Ai!StatusTarget(list, p) = list[k]
    BY <1>2 DEF Ai!StatusTarget, Ai!FirstOf
  <2> QED  BY <2>4, <2>5
<1> QED  BY <1>1, <1>2

\* Whatever is asked, the answer was true.
LEMMA AnswerTrue ==
  ASSUME Ai!Assumptions, NEW W, NEW k, Read(k, W), WasBooking(k.booking, W),
         NEW kind \in Ai!AllKinds, NEW p \in Ai!Topics
  PROVE  Ai!mockAnswer(kind, p, k).says \in Ai!Answers /\ Truthful(Ai!mockAnswer(kind, p, k), W)
<1> USE DEF Ai!Saying
<1> PICK a : a = Ai!mockAnswer(kind, p, k)
  OBVIOUS
<1> SUFFICES a.says \in Ai!Answers /\ Truthful(a, W)
  OBVIOUS
<1>1. CASE kind = "offtopic"
  <2>1. a = [says |-> "refusal", about |-> None, what |-> None]
    BY <1>1 DEF Ai!mockAnswer, Ai!shouldRefuseLocally
  <2> QED  BY <2>1 DEF Truthful, Ai!Answers
<1>2. CASE kind = "navigation"
  <2>1. a = [says |-> "guide", about |-> None, what |-> None]
    BY <1>2 DEF Ai!mockAnswer, Ai!shouldRefuseLocally
  <2> QED  BY <2>1 DEF Truthful, Ai!Answers
<1>3. CASE kind \in {"eligible", "slots", "details", "dates", "status"} /\ k = None
  <2>1. a = [says |-> "unavailable", about |-> None, what |-> None]
    BY <1>3 DEF Ai!mockAnswer, Ai!shouldRefuseLocally, Ai!mockEligibilityAnswer,
                Ai!mockQueueSlotsAnswer, Ai!mockProgramDetailsAnswer,
                Ai!mockProgramDatesAnswer,
                Ai!mockApplicationStatusAnswer
  <2> QED  BY <2>1 DEF Truthful, Ai!Answers
<1>4. CASE kind = "eligible" /\ k # None
  <2>1. a = [says |-> "programs", about |-> None, what |-> k.closed]
    BY <1>4 DEF Ai!mockAnswer, Ai!shouldRefuseLocally, Ai!mockEligibilityAnswer
  <2> QED  BY <2>1 DEF Truthful, Ai!Answers, Read
<1>5. CASE kind = "dates" /\ k # None
  <2>1. a.says = "dates"
    BY <1>5 DEF Ai!mockAnswer, Ai!shouldRefuseLocally, Ai!mockProgramDatesAnswer
  <2> QED  BY <2>1 DEF Truthful, Ai!Answers
<1>6. CASE kind = "details" /\ k # None
  <2>1. a.says = "details" /\ (a.what = None \/ a.what \in k.seats)
    BY <1>6 DEF Ai!mockAnswer, Ai!shouldRefuseLocally, Ai!mockProgramDetailsAnswer
  <2> QED  BY <2>1 DEF Truthful, Ai!Answers, Read
<1>7. CASE kind = "status" /\ k # None
  <2>1. CASE k.cases = <<>>
    <3>1. a = [says |-> "none", about |-> None, what |-> None]
      BY <1>7, <2>1 DEF Ai!mockAnswer, Ai!shouldRefuseLocally,
         Ai!mockApplicationStatusAnswer
    <3> QED  BY <2>1, <3>1 DEF Truthful, Ai!Answers, Read
  <2>2. CASE k.cases # <<>>
    <3>1. PICK i \in DOMAIN k.cases : Ai!StatusTarget(k.cases, p) = k.cases[i]
      BY <2>2, TargetFound DEF Read
    <3>2. PICK known : known = k.cases[i]
      OBVIOUS
    <3>3. a = [says |-> "status", about |-> known.program, what |-> known.status]
      BY <1>7, <2>2, <3>1, <3>2 DEF Ai!mockAnswer, Ai!shouldRefuseLocally,
         Ai!mockApplicationStatusAnswer
    <3>4. known \in Case
      BY <3>1, <3>2 DEF Read
    <3>5. [program |-> a.about, status |-> a.what] = known
      BY <3>3, <3>4 DEF Case
    <3>6. WasCase(known, W)
      BY <3>1, <3>2 DEF Read, WasCase, Ai!CasesIn
    <3> QED  BY <3>3, <3>5, <3>6 DEF Truthful, Ai!Answers
  <2> QED  BY <2>1, <2>2
<1>8. CASE kind = "slots" /\ k # None
  <2> DEFINE Approved(known) == known.status = "approved"
             target == Ai!resolveProgramContext(k, p)
             FromCase == IF Ai!Contains(k.cases, Approved)
                         THEN {Ai!FirstOf(k.cases, Approved).program} \cap k.caseSeats ELSE {}
             slots == IF FromCase # {} THEN FromCase ELSE {target} \cap k.seats
  <2>1. a = IF k.booking # None THEN Ai!Saying("booked", k.booking, None)
            ELSE IF slots # {} THEN Ai!Saying("slots", target, CHOOSE q \in slots : TRUE)
            ELSE IF Ai!Contains(k.cases, Approved) THEN Ai!Saying("noSlots", None, None)
            ELSE Ai!Saying("approveFirst", None, None)
    BY <1>8 DEF Ai!mockAnswer, Ai!shouldRefuseLocally, Ai!mockQueueSlotsAnswer
  <2>2. slots \subseteq k.caseSeats \cup k.seats
    OBVIOUS
  <2>3. slots # {} => (CHOOSE q \in slots : TRUE) \in k.caseSeats \cup k.seats
    BY <2>2
  <2>4. ~Ai!Contains(k.cases, Approved) =>
           \E w \in W : \A known \in Ai!CasesIn(w) : known.status # "approved"
    BY DEF Ai!Contains, Read, Ai!CasesIn
  <2> HIDE DEF slots, target
  <2>5. CASE k.booking # None
    <3>1. a = [says |-> "booked", about |-> k.booking, what |-> None]
      BY <2>1, <2>5
    <3> QED  BY <3>1 DEF Truthful, Ai!Answers
  <2>6. CASE k.booking = None /\ slots # {}
    <3>1. a.says = "slots" /\ a.what \in k.caseSeats \cup k.seats
      BY <2>1, <2>3, <2>6
    <3> QED  BY <3>1 DEF Truthful, Ai!Answers, Read
  <2>7. CASE k.booking = None /\ slots = {} /\ Ai!Contains(k.cases, Approved)
    <3>1. a.says = "noSlots"
      BY <2>1, <2>7
    <3> QED  BY <3>1 DEF Truthful, Ai!Answers
  <2>8. CASE k.booking = None /\ slots = {} /\ ~Ai!Contains(k.cases, Approved)
    <3>1. a.says = "approveFirst"
      BY <2>1, <2>8
    <3> QED  BY <2>4, <2>8, <3>1 DEF Truthful, Ai!Answers
  <2> QED  BY <2>5, <2>6, <2>7, <2>8
<1> QED  BY <1>1, <1>2, <1>3, <1>4, <1>5, <1>6, <1>7, <1>8 DEF Ai!AllKinds

\* So is the one that is given when nothing could be read.
LEMMA AnswerWithout ==
  ASSUME NEW W, NEW kind \in Ai!AllKinds, NEW p
  PROVE  Ai!mockAnswer(kind, p, None).says \in Ai!Answers /\ Truthful(Ai!mockAnswer(kind, p, None), W)
<1> PICK a : a = Ai!mockAnswer(kind, p, None)
  OBVIOUS
<1>1. a.says \in {"refusal", "guide", "unavailable"}
  BY DEF Ai!mockAnswer, Ai!shouldRefuseLocally, Ai!mockEligibilityAnswer,
     Ai!mockQueueSlotsAnswer,
         Ai!mockProgramDetailsAnswer, Ai!mockProgramDatesAnswer,
         Ai!mockApplicationStatusAnswer,
         Ai!AllKinds, Ai!Saying
<1> QED  BY <1>1 DEF Truthful, Ai!Answers

\* So is what the service outside was told.
LEMMA ToldTrue ==
  ASSUME NEW W, NEW k, k = None \/ (Read(k, W) /\ WasBooking(k.booking, W)),
         NEW a, a = Ai!Saying("upstream", None, Ai!formatEligibilityBlock(k))
  PROVE  a.says \in Ai!Answers /\ Truthful(a, W)
<1>1. PICK b : b = Ai!formatEligibilityBlock(k)
  OBVIOUS
<1>2. a.says = "upstream" /\ a.what = b
  BY <1>1 DEF Ai!Saying
<1>3. CASE b # None
  <2>1. Read(k, W) /\ WasBooking(k.booking, W)
    BY <1>1, <1>3 DEF Ai!formatEligibilityBlock
  <2>2. /\ b.cases = k.cases /\ b.booking = k.booking /\ b.closed = k.closed
        /\ b.seats = k.seats \cup k.caseSeats
    BY <1>1, <1>3 DEF Ai!formatEligibilityBlock
  <2>3. \A i \in DOMAIN k.cases : WasCase(k.cases[i], W)
    BY <2>1 DEF Read, WasCase, Ai!CasesIn
  <2> QED  BY <1>2, <2>1, <2>2, <2>3 DEF Truthful, Ai!Answers, Read
<1>4. CASE b = None
  BY <1>2, <1>4 DEF Truthful, Ai!Answers
<1> QED  BY <1>3, <1>4

----------------------------------------------------------------------------
(* A chat *)

\* What was so stays so.
LEMMA Remembers ==
  ASSUME NEW W, NEW V, W \subseteq V, NEW x, Knows(x, W)
  PROVE  Knows(x, V)
<1>1. \A k : Read(k, W) => Read(k, V)
  BY DEF Read, WasOpen, WasSeat
<1>2. \A p : WasBooking(p, W) => WasBooking(p, V)
  BY DEF WasBooking
<1>3. \A p : WasOpen(p, W) => WasOpen(p, V)
  BY DEF WasOpen
<1>4. \A a : Truthful(a, W) => Truthful(a, V)
  <2> SUFFICES ASSUME NEW a, Truthful(a, W)  PROVE  Truthful(a, V)
    OBVIOUS
  <2>1. \A known : WasCase(known, W) => WasCase(known, V)
    BY DEF WasCase
  <2>2. \A p : WasSeat(p, W) => WasSeat(p, V)
    BY DEF WasSeat
  <2> QED  BY <1>2, <1>3, <2>1, <2>2 DEF Truthful
<1> QED  BY <1>1, <1>2, <1>3, <1>4 DEF Knows

\* Chat c becomes x, and the others stay.
ChatBecomes(c, x) ==
  /\ chat' = [d \in Chats |-> chat'[d]] /\ chat'[c] = x
  /\ \A d \in Chats \ {c} : chat'[d] = chat[d]

LEMMA InvParts == AiInv => FactsTyped /\ Bounds /\ AiCacheFits /\ Chatting
BY DEF AiInv

\* It goes to a step, with a context, or with a token and the time.
Puts(c, s, k)     == chat' = [chat EXCEPT ![c].step = s, ![c].context = k]
Brings(c, s, t, n) == chat' = [chat EXCEPT ![c].step = s, ![c].token = t, ![c].sent = n]

LEMMA PutsKnown ==
  ASSUME Chatting, NEW c \in Chats, NEW s, NEW k, Puts(c, s, k)
  PROVE  \E x : /\ ChatBecomes(c, x) /\ IsChat(x) /\ x.step = s /\ x.kind = chat[c].kind
               /\ x.about = chat[c].about /\ x.context = k /\ x.answer = chat[c].answer
<1>1. PICK q : q = chat[c]
  OBVIOUS
<1>2. IsChat(q)
  BY <1>1 DEF Chatting, Knows
<1>3. PICK x : x = [q EXCEPT !.step = s, !.context = k]
  OBVIOUS
<1>4. ChatBecomes(c, x)
  BY <1>1, <1>3 DEF ChatBecomes, Chatting, Puts
<1>5. /\ IsChat(x) /\ x.step = s /\ x.kind = q.kind /\ x.about = q.about
      /\ x.context = k /\ x.answer = q.answer
  BY <1>2, <1>3 DEF IsChat
<1> QED  BY <1>1, <1>4, <1>5

LEMMA BringsKnown ==
  ASSUME Chatting, NEW c \in Chats, NEW s, NEW t, NEW n, Brings(c, s, t, n)
  PROVE  \E x : /\ ChatBecomes(c, x) /\ IsChat(x) /\ x.step = s /\ x.kind = chat[c].kind
               /\ x.about = chat[c].about /\ x.context = chat[c].context
               /\ x.token = t /\ x.sent = n /\ x.answer = chat[c].answer
<1>1. PICK q : q = chat[c]
  OBVIOUS
<1>2. IsChat(q)
  BY <1>1 DEF Chatting, Knows
<1>3. PICK x : x = [q EXCEPT !.step = s, !.token = t, !.sent = n]
  OBVIOUS
<1>4. ChatBecomes(c, x)
  BY <1>1, <1>3 DEF ChatBecomes, Chatting, Brings
<1>5. /\ IsChat(x) /\ x.step = s /\ x.kind = q.kind /\ x.about = q.about
      /\ x.context = q.context /\ x.token = t /\ x.sent = n /\ x.answer = q.answer
  BY <1>2, <1>3 DEF IsChat
<1> QED  BY <1>1, <1>4, <1>5

\* The rest of the invariant, when one chat has moved.
LEMMA ChatMoved ==
  ASSUME AiInv, NEW c \in Chats, NEW x, ChatBecomes(c, x), Knows(x, seen[c]), TokenFits(x)',
         chat[c].step # "idle" \/ x.step = "idle",
         UNCHANGED <<cases, booking, seats, aiNow, asked, events, aiMode, seen>>,
         aiIssued' = aiIssued \/ \E n : aiIssued' = Append(aiIssued, n)
  PROVE  FactsTyped' /\ Chatting'
<1>1. \A d \in Chats \ {c} : TokenFits(chat[d])'
  <2> SUFFICES ASSUME NEW d \in Chats \ {c}  PROVE  TokenFits(chat[d])'
    OBVIOUS
  <2>1. PICK q : q = chat[d]
    OBVIOUS
  <2>2. TokenFits(q) /\ chat'[d] = q
    BY <2>1 DEF AiInv, Chatting, ChatBecomes
  <2>3. q.token \in DOMAIN aiIssued => q.token \in DOMAIN aiIssued' /\ aiIssued'[q.token] = aiIssued[q.token]
    BY DEF AiInv, Bounds
  <2> QED  BY <2>2, <2>3 DEF TokenFits
<1> QED  BY <1>1 DEF AiInv, FactsTyped, Chatting, ChatBecomes, Ai!Facts

----------------------------------------------------------------------------
(* What is read for a question *)

LEMMA SendStep ==
  ASSUME Ai!Assumptions, AiInv, NEW c \in Chats, NEW kind \in AiKinds[aiMode], NEW p \in Ai!Topics,
         Ai!Send(c, kind, p)
  PROVE  AiInv'
<1>1. PICK x : x = [Ai!Idle EXCEPT !.step = "programs", !.kind = kind, !.about = p]
  OBVIOUS
<1>2. PICK f : f = Ai!Facts
  OBVIOUS
<1>3. /\ chat' = [chat EXCEPT ![c] = x] /\ seen' = [seen EXCEPT ![c] = {f}]
      /\ asked < MaxAsked[aiMode] /\ asked' = asked + 1
      /\ UNCHANGED <<cases, booking, seats, aiToken, aiIssued, aiNow, events, aiMode>>
  BY <1>1, <1>2 DEF Ai!Send
<1>4. kind \in Ai!AllKinds /\ MaxAsked[aiMode] \in Nat
  BY DEF Ai!Assumptions, AiInv, Bounds
<1>5. Knows(x, {f}) /\ x.step = "programs"
  BY <1>1, <1>4 DEF Knows, IsChat, Ai!Idle, Ai!Steps, Ai!Reading, Ai!Calling
<1>6. FactsTyped' /\ Bounds' /\ AiCacheFits'
  BY <1>3, <1>4 DEF AiInv, FactsTyped, Bounds, AiCacheFits
<1>7. /\ chat' = [d \in Chats |-> chat'[d]] /\ seen' = [d \in Chats |-> seen'[d]]
      /\ chat'[c] = x /\ seen'[c] = {f}
      /\ \A d \in Chats \ {c} : chat'[d] = chat[d] /\ seen'[d] = seen[d]
  BY <1>3 DEF AiInv, Chatting
<1>8. TokenFits(x)' /\ Ai!Facts' = f
  BY <1>2, <1>3, <1>5 DEF TokenFits, Ai!Calling, Ai!Facts
<1>9. \A d \in Chats \ {c} : TokenFits(chat[d])'
  BY <1>3, <1>7 DEF AiInv, Chatting, TokenFits
<1>10. \A d \in Chats \ {c} : Knows(chat[d], seen[d])' /\ (chat'[d].step # "idle" => Ai!Facts' \in seen'[d])
  BY <1>2, <1>7, <1>8 DEF AiInv, Chatting
<1>11. Chatting'
  BY <1>5, <1>7, <1>8, <1>9, <1>10 DEF Chatting
<1> QED  BY <1>6, <1>11 DEF AiInv

LEMMA ReadProgramsStep ==
  ASSUME Ai!Assumptions, AiInv, NEW c \in Chats, Ai!ReadPrograms(c)
  PROVE  AiInv'
<1>1. PICK W : W = seen[c]
  OBVIOUS
<1>2. PICK C : C = Ai!Closed
  OBVIOUS
<1>3. PICK k : k = [closed |-> C]
  OBVIOUS
<1>4. /\ chat[c].step = "programs"
      /\ Puts(c, "cases", k)
      /\ UNCHANGED <<aiToken, aiIssued, seen, cases, booking, seats, aiNow, asked,
                     events, aiMode>>
  BY <1>2, <1>3 DEF Ai!ReadPrograms, Ai!Elsewhere, Puts
<1>5. Knows(chat[c], W) /\ Ai!Facts \in W
  BY <1>1, <1>4 DEF AiInv, Chatting
<1>6. \A p \in C : WasOpen(p, W)
  BY <1>2, <1>5 DEF Ai!Closed, WasOpen, Ai!OpenIn, Ai!CasesIn, Ai!Facts
<1>7. PICK x : /\ ChatBecomes(c, x) /\ IsChat(x) /\ x.step = "cases" /\ x.kind = chat[c].kind
               /\ x.about = chat[c].about /\ x.context = k /\ x.answer = chat[c].answer
  BY <1>4, InvParts, PutsKnown
<1>8. Knows(x, W) /\ TokenFits(x)'
  BY <1>3, <1>4, <1>5, <1>6, <1>7 DEF Knows, TokenFits, Ai!Calling, Ai!Steps, Ai!Reading
<1>9. FactsTyped' /\ Chatting'
  BY <1>1, <1>4, <1>7, <1>8, ChatMoved
<1> QED  BY <1>4, <1>9 DEF AiInv, Bounds, AiCacheFits

LEMMA ReadCasesStep ==
  ASSUME Ai!Assumptions, AiInv, NEW c \in Chats, Ai!ReadCases(c)
  PROVE  AiInv'
<1>1. PICK W : W = seen[c]
  OBVIOUS
<1>2. PICK k : k = [closed |-> chat[c].context.closed, cases |-> cases,
                    caseSeats |-> seats, booking |-> None, seats |-> {}]
  OBVIOUS
<1>3. chat[c].step = "cases"
      /\ UNCHANGED <<aiToken, aiIssued, seen, cases, booking, seats, aiNow, asked,
                     events, aiMode>>
  BY DEF Ai!ReadCases, Ai!Elsewhere
<1>4. Knows(chat[c], W) /\ Ai!Facts \in W /\ IsChat(chat[c])
  BY <1>1, <1>3 DEF AiInv, Chatting, Knows
<1>5. Puts(c, "bookings", k)
  <2>1. PICK q : q = chat[c]
    OBVIOUS
  <2>2. [q EXCEPT !.step = "bookings"].context = q.context
    BY <1>4, <2>1 DEF IsChat
  <2>3. chat' = [chat EXCEPT ![c] = [[q EXCEPT !.step = "bookings"] EXCEPT
                   !.context = [closed |-> [q EXCEPT !.step = "bookings"].context.closed,
                                cases |-> cases, caseSeats |-> seats, booking |-> None,
                                seats |-> {}]]]
    BY <2>1 DEF Ai!ReadCases, AiInv, Chatting
  <2>4. chat' = [chat EXCEPT ![c] = [[q EXCEPT !.step = "bookings"] EXCEPT !.context = k]]
    BY <1>2, <2>1, <2>2, <2>3
  <2> QED  BY <2>1, <2>4 DEF AiInv, Chatting, Puts
<1>6. Read(k, W)
  <2>1. \A p \in k.closed : WasOpen(p, W)
    BY <1>2, <1>3, <1>4 DEF Knows
  <2>2. IsContext(k) /\ k.cases = cases /\ k.caseSeats = seats /\ k.seats = {}
    BY <1>2 DEF IsContext
  <2> QED  BY <1>4, <2>1, <2>2 DEF Read, AiInv, FactsTyped, WasSeat, Ai!Facts
<1>7. PICK x : /\ ChatBecomes(c, x) /\ IsChat(x) /\ x.step = "bookings" /\ x.kind = chat[c].kind
               /\ x.about = chat[c].about /\ x.context = k /\ x.answer = chat[c].answer
  BY <1>5, InvParts, PutsKnown
<1>8. Knows(x, W) /\ TokenFits(x)'
  BY <1>3, <1>4, <1>6, <1>7 DEF Knows, TokenFits, Ai!Calling, Ai!Steps, Ai!Reading
<1>9. FactsTyped' /\ Chatting'
  BY <1>1, <1>3, <1>7, <1>8, ChatMoved
<1> QED  BY <1>3, <1>9 DEF AiInv, Bounds, AiCacheFits

LEMMA ReadBookingsStep ==
  ASSUME Ai!Assumptions, AiInv, NEW c \in Chats, Ai!ReadBookings(c)
  PROVE  AiInv'
<1>1. PICK W : W = seen[c]
  OBVIOUS
<1>2. PICK k : k = [chat[c].context EXCEPT !.booking = booking]
  OBVIOUS
<1>3. chat[c].step = "bookings"
      /\ UNCHANGED <<aiToken, aiIssued, seen, cases, booking, seats, aiNow, asked,
                     events, aiMode>>
  BY DEF Ai!ReadBookings, Ai!Elsewhere
<1>4. Knows(chat[c], W) /\ Ai!Facts \in W /\ IsChat(chat[c]) /\ Read(chat[c].context, W)
  BY <1>1, <1>3 DEF AiInv, Chatting, Knows
<1>5. Puts(c, "slots", k)
  <2>1. PICK q : q = chat[c]
    OBVIOUS
  <2>2. [q EXCEPT !.step = "slots"].context = q.context
    BY <1>4, <2>1 DEF IsChat
  <2>3. chat' = [chat EXCEPT ![c] = [[q EXCEPT !.step = "slots"] EXCEPT
                   !.context = [[q EXCEPT !.step = "slots"].context EXCEPT
                                  !.booking = booking]]]
    BY <2>1 DEF Ai!ReadBookings, AiInv, Chatting
  <2>4. chat' = [chat EXCEPT ![c] = [[q EXCEPT !.step = "slots"] EXCEPT !.context = k]]
    BY <1>2, <2>1, <2>2, <2>3
  <2> QED  BY <2>1, <2>4 DEF AiInv, Chatting, Puts
<1>6. Read(k, W) /\ WasBooking(k.booking, W)
  <2>1. PICK j : j = chat[c].context
    OBVIOUS
  <2>2. /\ IsContext(k) /\ k.cases = j.cases /\ k.caseSeats = j.caseSeats
        /\ k.seats = j.seats /\ k.closed = j.closed /\ k.booking = booking
    BY <1>2, <1>4, <2>1 DEF Read, IsContext
  <2> QED  BY <1>4, <2>1, <2>2 DEF Read, WasBooking, Ai!Facts
<1>7. PICK x : /\ ChatBecomes(c, x) /\ IsChat(x) /\ x.step = "slots" /\ x.kind = chat[c].kind
               /\ x.about = chat[c].about /\ x.context = k /\ x.answer = chat[c].answer
  BY <1>5, InvParts, PutsKnown
<1>8. Knows(x, W) /\ TokenFits(x)'
  BY <1>3, <1>4, <1>6, <1>7 DEF Knows, TokenFits, Ai!Calling, Ai!Steps, Ai!Reading
<1>9. FactsTyped' /\ Chatting'
  BY <1>1, <1>3, <1>7, <1>8, ChatMoved
<1> QED  BY <1>3, <1>9 DEF AiInv, Bounds, AiCacheFits

LEMMA ReadSlotsStep ==
  ASSUME Ai!Assumptions, AiInv, NEW c \in Chats, Ai!ReadSlots(c)
  PROVE  AiInv'
<1>1. PICK W : W = seen[c]
  OBVIOUS
<1>2. PICK k : k = [chat[c].context EXCEPT !.seats = seats]
  OBVIOUS
<1>3. chat[c].step = "slots"
      /\ UNCHANGED <<aiToken, aiIssued, seen, cases, booking, seats, aiNow, asked,
                     events, aiMode>>
  BY DEF Ai!ReadSlots, Ai!Elsewhere
<1>4. /\ Knows(chat[c], W) /\ Ai!Facts \in W /\ IsChat(chat[c]) /\ Read(chat[c].context, W)
      /\ WasBooking(chat[c].context.booking, W)
  BY <1>1, <1>3 DEF AiInv, Chatting, Knows
<1>5. Puts(c, "ask", k)
  <2>1. PICK q : q = chat[c]
    OBVIOUS
  <2>2. [q EXCEPT !.step = "ask"].context = q.context
    BY <1>4, <2>1 DEF IsChat
  <2>3. chat' = [chat EXCEPT ![c] = [[q EXCEPT !.step = "ask"] EXCEPT
                   !.context = [[q EXCEPT !.step = "ask"].context EXCEPT
                                  !.seats = seats]]]
    BY <2>1 DEF Ai!ReadSlots, AiInv, Chatting
  <2>4. chat' = [chat EXCEPT ![c] = [[q EXCEPT !.step = "ask"] EXCEPT !.context = k]]
    BY <1>2, <2>1, <2>2, <2>3
  <2> QED  BY <2>1, <2>4 DEF AiInv, Chatting, Puts
<1>6. Read(k, W) /\ WasBooking(k.booking, W)
  <2>1. PICK j : j = chat[c].context
    OBVIOUS
  <2>2. /\ IsContext(k) /\ k.cases = j.cases /\ k.caseSeats = j.caseSeats
        /\ k.seats = seats /\ k.closed = j.closed /\ k.booking = j.booking
    BY <1>2, <1>4, <2>1 DEF Read, IsContext
  <2>3. \A p \in seats : WasSeat(p, W)
    BY <1>4 DEF WasSeat, Ai!Facts
  <2> QED  BY <1>4, <2>1, <2>2, <2>3 DEF Read
<1>7. PICK x : /\ ChatBecomes(c, x) /\ IsChat(x) /\ x.step = "ask" /\ x.kind = chat[c].kind
               /\ x.about = chat[c].about /\ x.context = k /\ x.answer = chat[c].answer
  BY <1>5, InvParts, PutsKnown
<1>8. Knows(x, W) /\ TokenFits(x)'
  BY <1>3, <1>4, <1>6, <1>7 DEF Knows, TokenFits, Ai!Calling, Ai!Steps, Ai!Reading
<1>9. FactsTyped' /\ Chatting'
  BY <1>1, <1>3, <1>7, <1>8, ChatMoved
<1> QED  BY <1>3, <1>9 DEF AiInv, Bounds, AiCacheFits

LEMMA ContextFailsStep ==
  ASSUME Ai!Assumptions, AiInv, NEW c \in Chats, Ai!ContextFails(c)
  PROVE  AiInv'
<1>1. PICK W : W = seen[c]
  OBVIOUS
<1>2. /\ chat[c].step \in Ai!Reading
      /\ Puts(c, "ask", None)
      /\ UNCHANGED <<aiToken, aiIssued, seen, cases, booking, seats, aiNow, asked,
                     events, aiMode>>
  BY DEF Ai!ContextFails, Ai!Elsewhere, Puts
<1>3. PICK x : /\ ChatBecomes(c, x) /\ IsChat(x) /\ x.step = "ask" /\ x.kind = chat[c].kind
               /\ x.about = chat[c].about /\ x.context = None /\ x.answer = chat[c].answer
  BY <1>2, InvParts, PutsKnown
<1>4. Knows(chat[c], W) /\ chat[c].step # "idle"
  BY <1>1, <1>2 DEF AiInv, Chatting, Ai!Reading
<1>5. Knows(x, W) /\ TokenFits(x)'
  BY <1>3, <1>4 DEF Knows, TokenFits, Ai!Calling, Ai!Steps
<1>6. FactsTyped' /\ Chatting'
  BY <1>1, <1>2, <1>3, <1>4, <1>5, ChatMoved
<1> QED  BY <1>2, <1>6 DEF AiInv, Bounds, AiCacheFits

----------------------------------------------------------------------------
(* What is answered *)

\* An answer is shown, and the chat is idle.
LEMMA Answered ==
  ASSUME AiInv, NEW c \in Chats, NEW a, Ai!Shows(c, a), chat[c].step # "idle",
         a.says \in Ai!Answers /\ Truthful(a, seen[c]),
         UNCHANGED <<cases, booking, seats, aiNow, asked, events, aiMode, seen,
                     aiIssued, aiToken>>
  PROVE  AiInv'
<1>1. PICK x : x = [Ai!Idle EXCEPT !.answer = a]
  OBVIOUS
<1>2. /\ IsChat(x) /\ x.step = "idle" /\ x.kind = None /\ x.about = None /\ x.answer = a
  BY <1>1 DEF Ai!Idle, IsChat
<1>3. chat' = [chat EXCEPT ![c] = x]
  BY <1>1 DEF Ai!Shows
<1>4. ChatBecomes(c, x)
  BY <1>3 DEF ChatBecomes, AiInv, Chatting
<1>5. Knows(x, seen[c]) /\ TokenFits(x)'
  BY <1>2 DEF Knows, TokenFits, Ai!Calling, Ai!Steps, Ai!Reading, Ai!Topics
<1>6. FactsTyped' /\ Chatting'
  BY <1>2, <1>4, <1>5, ChatMoved
<1> QED  BY <1>6 DEF AiInv, Bounds, AiCacheFits

LEMMA LocalAnswerTrue ==
  ASSUME Ai!Assumptions, AiInv, NEW c \in Chats, chat[c].step \in {"ask"} \cup Ai!Calling
  PROVE  Ai!LocalAnswer(c).says \in Ai!Answers /\ Truthful(Ai!LocalAnswer(c), seen[c])
<1>1. PICK x : x = chat[c]
  OBVIOUS
<1>2. PICK W : W = seen[c]
  OBVIOUS
<1>3. /\ x.kind \in Ai!AllKinds /\ x.about \in Ai!Topics
      /\ x.context = None \/ (Read(x.context, W) /\ WasBooking(x.context.booking, W))
  BY <1>1, <1>2 DEF AiInv, Chatting, Knows, Ai!Calling
<1>4. PICK a : a = Ai!mockAnswer(x.kind, x.about, x.context)
  OBVIOUS
<1>5. a.says \in Ai!Answers /\ Truthful(a, W)
  <2>1. CASE x.context = None
    BY <1>3, <1>4, <2>1, AnswerWithout
  <2>2. CASE Read(x.context, W) /\ WasBooking(x.context.booking, W)
    BY <1>3, <1>4, <2>2, AnswerTrue
  <2> QED  BY <1>3, <2>1, <2>2
<1> QED  BY <1>1, <1>2, <1>4, <1>5 DEF Ai!LocalAnswer

LEMMA AnswerHereStep ==
  ASSUME Ai!Assumptions, AiInv, NEW c \in Chats, Ai!AnswerHere(c)
  PROVE  AiInv'
<1>1. PICK a : a = Ai!LocalAnswer(c)
  OBVIOUS
<1>2. /\ chat[c].step = "ask" /\ Ai!Shows(c, a)
      /\ UNCHANGED <<cases, booking, seats, aiNow, asked, events, aiMode, seen,
                     aiIssued, aiToken>>
  BY <1>1 DEF Ai!AnswerHere, Ai!Elsewhere
<1>3. a.says \in Ai!Answers /\ Truthful(a, seen[c])
  BY <1>1, <1>2, LocalAnswerTrue
<1> QED  BY <1>2, <1>3, Answered

LEMMA AnswerLiveStep ==
  ASSUME Ai!Assumptions, AiInv, NEW c \in Chats, Ai!AnswerLive(c)
  PROVE  AiInv'
<1>1. PICK a : a = Ai!Saying("upstream", None, Ai!formatEligibilityBlock(chat[c].context))
  OBVIOUS
<1>2. /\ chat[c].step = "present" /\ Ai!Shows(c, a)
      /\ UNCHANGED <<cases, booking, seats, aiNow, asked, events, aiMode, seen,
                     aiIssued, aiToken>>
  BY <1>1 DEF Ai!AnswerLive, Ai!Elsewhere
<1>3. PICK k : k = chat[c].context
  OBVIOUS
<1>4. PICK W : W = seen[c]
  OBVIOUS
<1>5. k = None \/ (Read(k, W) /\ WasBooking(k.booking, W))
  BY <1>2, <1>3, <1>4 DEF AiInv, Chatting, Knows, Ai!Calling
<1>6. a.says \in Ai!Answers /\ Truthful(a, W)
  BY <1>1, <1>3, <1>5, ToldTrue
<1> QED  BY <1>2, <1>4, <1>6, Answered

LEMMA UpstreamFailsStep ==
  ASSUME Ai!Assumptions, AiInv, NEW c \in Chats, Ai!UpstreamFails(c)
  PROVE  AiInv'
<1>1. PICK a : a = IF aiMode = "strict" THEN Ai!Saying("error", None, None) ELSE Ai!LocalAnswer(c)
  OBVIOUS
<1>2. /\ chat[c].step \in Ai!Calling /\ Ai!Shows(c, a)
      /\ UNCHANGED <<cases, booking, seats, aiNow, asked, events, aiMode, seen,
                     aiIssued, aiToken>>
  BY <1>1 DEF Ai!UpstreamFails, Ai!Elsewhere
<1>3. a.says \in Ai!Answers /\ Truthful(a, seen[c])
  <2>1. CASE aiMode = "strict"
    <3>1. a.says = "error"
      BY <1>1, <2>1 DEF Ai!Saying
    <3> QED  BY <3>1 DEF Truthful, Ai!Answers
  <2>2. CASE aiMode # "strict"
    BY <1>1, <1>2, <2>2, LocalAnswerTrue
  <2> QED  BY <2>1, <2>2
<1> QED  BY <1>2, <1>3, Answered DEF Ai!Calling

----------------------------------------------------------------------------
(* The tokens *)

\* A chat keeps what it knows while it asks for a token and presents it.
LEMMA KnowsOn ==
  ASSUME NEW q, NEW W, Knows(q, W), q.step \in {"ask"} \cup Ai!Calling,
         NEW x, IsChat(x), x.step \in Ai!Calling, x.kind = q.kind, x.about = q.about,
         x.context = q.context, x.answer = q.answer
  PROVE  Knows(x, W)
BY DEF Knows, Ai!Calling, Ai!Steps

LEMMA AiGetAccessTokenStep ==
  ASSUME Ai!Assumptions, AiInv, NEW c \in Chats, Ai!GetAccessToken(c)
  PROVE  AiInv'
<1>1. PICK s : s = IF Ai!Fresh(aiToken) THEN "present" ELSE "fetch"
  OBVIOUS
<1>2. PICK t : t = IF Ai!Fresh(aiToken) THEN aiToken.token ELSE None
  OBVIOUS
<1>3. PICK n : n = aiNow
  OBVIOUS
<1>4. /\ chat[c].step = "ask"
      /\ Brings(c, s, t, n)
      /\ UNCHANGED <<aiToken, aiIssued, seen, cases, booking, seats, aiNow, asked,
                     events, aiMode>>
  BY <1>1, <1>2, <1>3 DEF Ai!GetAccessToken, Ai!Elsewhere, Brings
<1>5. PICK x : /\ ChatBecomes(c, x) /\ IsChat(x) /\ x.step = s /\ x.kind = chat[c].kind
               /\ x.about = chat[c].about /\ x.context = chat[c].context
               /\ x.token = t /\ x.sent = n /\ x.answer = chat[c].answer
  BY <1>4, InvParts, BringsKnown
<1>6. PICK W : W = seen[c]
  OBVIOUS
<1>7. Knows(chat[c], W)
  BY <1>6 DEF AiInv, Chatting
<1>8. Knows(x, W)
  BY <1>1, <1>4, <1>5, <1>7, KnowsOn DEF Ai!Calling
<1>9. TokenFits(x)'
  <2>1. n \in Nat /\ n <= aiNow /\ aiNow <= n + 1
    BY <1>3 DEF AiInv, Bounds, Ai!Assumptions
  <2>2. s = "present" => t \in DOMAIN aiIssued /\ aiIssued[t] > n + 1
    <3>1. ASSUME Ai!Fresh(aiToken)  PROVE  t \in DOMAIN aiIssued /\ aiIssued[t] > n + 1
      <4>1. PICK e : e = aiToken
        OBVIOUS
      <4>2. /\ e \in [token : Nat, expiresAtMs : Nat] /\ e.token \in DOMAIN aiIssued
            /\ e.expiresAtMs <= aiIssued[e.token] /\ e.expiresAtMs > n + 1 /\ t = e.token
        BY <1>2, <1>3, <3>1, <4>1 DEF Ai!Fresh, AiInv, AiCacheFits
      <4>3. aiIssued[e.token] \in Nat
        BY <4>2 DEF AiInv, Bounds
      <4> QED  BY <2>1, <4>2, <4>3
    <3> QED  BY <1>1, <3>1
  <2> QED  BY <1>1, <1>4, <1>5, <2>1, <2>2 DEF TokenFits
<1>10. FactsTyped' /\ Chatting'
  BY <1>4, <1>5, <1>6, <1>8, <1>9, ChatMoved
<1> QED  BY <1>4, <1>10 DEF AiInv, Bounds, AiCacheFits

LEMMA AiIssueStep ==
  ASSUME Ai!Assumptions, AiInv, NEW c \in Chats, Ai!Issue(c)
  PROVE  AiInv'
<1>1. PICK q : q = chat[c]
  OBVIOUS
<1>2. PICK W : W = seen[c]
  OBVIOUS
<1>3. PICK t : t = Len(aiIssued')
  OBVIOUS
<1>4. /\ q.step = "fetch" /\ aiIssued' = Append(aiIssued, aiNow + AiLife)
      /\ chat' = [chat EXCEPT ![c].step = "issue", ![c].token = t]
      /\ UNCHANGED <<aiToken, seen, cases, booking, seats, aiNow, asked, events,
                     aiMode>>
  BY <1>1, <1>3 DEF Ai!Issue, Ai!Elsewhere
<1>5. Knows(q, W) /\ TokenFits(q) /\ IsChat(q)
  BY <1>1, <1>2 DEF AiInv, Chatting, Knows
<1>6. PICK x : x = [q EXCEPT !.step = "issue", !.token = t]
  OBVIOUS
<1>7. /\ IsChat(x) /\ x.step = "issue" /\ x.kind = q.kind /\ x.about = q.about
      /\ x.context = q.context /\ x.answer = q.answer /\ x.token = t /\ x.sent = q.sent
  BY <1>5, <1>6 DEF IsChat
<1>8. ChatBecomes(c, x)
  BY <1>1, <1>4, <1>6 DEF ChatBecomes, AiInv, Chatting
<1>9. Knows(x, W)
  BY <1>4, <1>5, <1>7, KnowsOn DEF Ai!Calling
<1>10. aiNow \in Nat /\ AiLife \in Nat /\ aiIssued \in Seq(Nat)
  BY DEF AiInv, Bounds, Ai!Assumptions
<1>11. t \in DOMAIN aiIssued' /\ aiIssued'[t] = aiNow + AiLife
  BY <1>3, <1>4, <1>10
<1>12. TokenFits(x)'
  <2>1. q.sent \in Nat /\ q.sent <= aiNow /\ aiNow <= q.sent + 1
    BY <1>4, <1>5 DEF TokenFits, Ai!Calling
  <2>2. aiNow + AiLife >= q.sent + AiLife
    BY <1>10, <2>1
  <2> QED  BY <1>4, <1>7, <1>11, <2>1, <2>2 DEF TokenFits
<1>13. FactsTyped' /\ Chatting'
  BY <1>1, <1>2, <1>4, <1>7, <1>8, <1>9, <1>12, ChatMoved
<1>14. aiIssued' \in Seq(Nat)
  BY <1>4, <1>10
<1>15. AiCacheFits'
  <2> SUFFICES ASSUME aiToken # None
               PROVE  aiToken.token \in DOMAIN aiIssued' /\ aiIssued'[aiToken.token] = aiIssued[aiToken.token]
    BY <1>4 DEF AiCacheFits, AiInv
  <2> QED  BY <1>4, <1>10 DEF AiInv, AiCacheFits
<1> QED  BY <1>4, <1>13, <1>14, <1>15 DEF AiInv, Bounds

LEMMA AiKeepTokenStep ==
  ASSUME Ai!Assumptions, AiInv, NEW c \in Chats, Ai!KeepToken(c)
  PROVE  AiInv'
<1>1. PICK q : q = chat[c]
  OBVIOUS
<1>2. PICK W : W = seen[c]
  OBVIOUS
<1>3. PICK n : n = aiNow
  OBVIOUS
<1>4. /\ q.step = "issue" /\ aiToken' = [token |-> q.token, expiresAtMs |-> q.sent + AiLife]
      /\ chat' = [chat EXCEPT ![c].step = "present", ![c].sent = n]
      /\ UNCHANGED <<aiIssued, seen, cases, booking, seats, aiNow, asked, events,
                     aiMode>>
  BY <1>1, <1>3 DEF Ai!KeepToken, Ai!Elsewhere
<1>5. Knows(q, W) /\ TokenFits(q) /\ IsChat(q)
  BY <1>1, <1>2 DEF AiInv, Chatting, Knows
<1>6. PICK x : x = [q EXCEPT !.step = "present", !.sent = n]
  OBVIOUS
<1>7. /\ IsChat(x) /\ x.step = "present" /\ x.kind = q.kind /\ x.about = q.about
      /\ x.context = q.context /\ x.answer = q.answer /\ x.token = q.token /\ x.sent = n
  BY <1>5, <1>6 DEF IsChat
<1>8. ChatBecomes(c, x)
  BY <1>1, <1>4, <1>6 DEF ChatBecomes, AiInv, Chatting
<1>9. Knows(x, W)
  BY <1>4, <1>5, <1>7, KnowsOn DEF Ai!Calling
<1>10. aiNow \in Nat /\ AiLife \in Nat /\ AiLife > 2 /\ aiIssued \in Seq(Nat)
  BY DEF AiInv, Bounds, Ai!Assumptions
<1>11. /\ q.sent \in Nat /\ q.sent <= aiNow /\ aiNow <= q.sent + 1
       /\ q.token \in DOMAIN aiIssued /\ aiIssued[q.token] >= q.sent + AiLife
  BY <1>4, <1>5 DEF TokenFits, Ai!Calling
<1>12. aiIssued[q.token] \in Nat /\ q.token \in Nat
  BY <1>10, <1>11
<1>13. aiIssued[q.token] > aiNow + 1
  BY <1>10, <1>11, <1>12
<1>14. TokenFits(x)'
  BY <1>3, <1>4, <1>7, <1>10, <1>11, <1>13 DEF TokenFits
<1>15. FactsTyped' /\ Chatting'
  BY <1>1, <1>2, <1>4, <1>8, <1>9, <1>14, ChatMoved
<1>16. AiCacheFits'
  BY <1>4, <1>10, <1>11, <1>12 DEF AiCacheFits
<1> QED  BY <1>4, <1>15, <1>16 DEF AiInv, Bounds

----------------------------------------------------------------------------
(* What happens meanwhile *)

\* Every open question has seen it.
LEMMA HappensKeeps ==
  ASSUME Ai!Assumptions, AiInv, Ai!Happens, FactsTyped'
  PROVE  AiInv'
<1>1. PICK f : f = Ai!Facts'
  OBVIOUS
<1>2. /\ events < MaxEvents[aiMode] /\ events' = events + 1
      /\ seen' = [c \in Chats |-> IF chat[c].step = "idle" THEN seen[c] ELSE seen[c] \cup {f}]
      /\ UNCHANGED <<aiToken, aiIssued, aiNow, chat, asked, aiMode>>
  BY <1>1 DEF Ai!Happens, Ai!Witness
<1>3. Bounds' /\ AiCacheFits'
  <2>1. MaxEvents[aiMode] \in Nat
    BY DEF Ai!Assumptions, AiInv, Bounds
  <2> QED  BY <1>2, <2>1 DEF AiInv, Bounds, AiCacheFits
<1>4. ASSUME NEW c \in Chats
      PROVE  /\ Knows(chat[c], seen[c])' /\ TokenFits(chat[c])'
             /\ chat'[c].step # "idle" => f \in seen'[c]
  <2>1. PICK x : x = chat[c]
    OBVIOUS
  <2>2. PICK W : W = seen[c]
    OBVIOUS
  <2>3. PICK V : V = seen'[c]
    OBVIOUS
  <2>4. W \subseteq V /\ chat'[c] = x /\ (x.step # "idle" => f \in V)
    BY <1>2, <2>1, <2>2, <2>3
  <2>5. Knows(x, W) /\ TokenFits(x)
    BY <2>1, <2>2 DEF AiInv, Chatting
  <2>6. Knows(x, V)
    BY <2>4, <2>5, Remembers
  <2>7. TokenFits(x)'
    BY <1>2, <2>5 DEF TokenFits
  <2> QED  BY <2>3, <2>4, <2>6, <2>7
<1>5. chat' = [c \in Chats |-> chat'[c]] /\ seen' = [c \in Chats |-> seen'[c]]
  BY <1>2 DEF AiInv, Chatting
<1>6. Chatting'
  BY <1>1, <1>4, <1>5 DEF Chatting
<1> QED  BY <1>3, <1>6 DEF AiInv

LEMMA GoingsStep ==
  ASSUME Ai!Assumptions, AiInv, Ai!Goings
  PROVE  AiInv'
<1>1. cases \in Seq(Case) /\ booking \in Ai!Topics /\ seats \subseteq Programs
  BY DEF AiInv, FactsTyped
<1>2. ASSUME NEW p \in Programs, Ai!Apply(p)  PROVE  AiInv'
  <2>1. PICK new : new = [program |-> p, status |-> "submitted"]
    OBVIOUS
  <2>2. new \in Case
    BY <2>1 DEF Case, Ai!Statuses
  <2>3. cases' = <<new>> \o cases /\ UNCHANGED <<booking, seats>> /\ Ai!Happens
    BY <1>2, <2>1 DEF Ai!Apply
  <2>4. cases' \in Seq(Case)
    BY <1>1, <2>2, <2>3
  <2>5. FactsTyped'
    BY <1>1, <2>3, <2>4 DEF FactsTyped
  <2> QED  BY <2>3, <2>5, HappensKeeps
<1>3. ASSUME NEW i \in DOMAIN cases, NEW s \in Ai!Statuses,
             cases' = [cases EXCEPT ![i].status = s]
      PROVE  cases' \in Seq(Case)
  <2>1. PICK new : new = [cases[i] EXCEPT !.status = s]
    OBVIOUS
  <2>2. cases[i] \in Case
    BY <1>1
  <2>3. new \in Case
    BY <2>1, <2>2 DEF Case
  <2>4. cases' = [cases EXCEPT ![i] = new]
    BY <1>3, <2>1
  <2> QED  BY <1>1, <2>3, <2>4
<1>4. ASSUME NEW i \in DOMAIN cases, NEW verdict \in {"approved", "declined"},
             Ai!Decide(i, verdict)
      PROVE  AiInv'
  <2>1. cases' = [cases EXCEPT ![i].status = verdict] /\ UNCHANGED <<booking,
                                                                     seats>> /\ Ai!Happens
    BY <1>4 DEF Ai!Decide
  <2>2. cases' \in Seq(Case)
    BY <1>3, <2>1 DEF Ai!Statuses
  <2>3. FactsTyped'
    BY <1>1, <2>1, <2>2 DEF FactsTyped
  <2> QED  BY <2>1, <2>3, HappensKeeps
<1>5. ASSUME NEW i \in DOMAIN cases, Ai!Book(i)  PROVE  AiInv'
  <2>1. /\ booking' = cases[i].program /\ cases[i].program \in seats
        /\ seats' = seats \ {booking'} /\ cases' = cases /\ Ai!Happens
    BY <1>5 DEF Ai!Book
  <2>2. FactsTyped'
    BY <1>1, <2>1 DEF FactsTyped, Ai!Topics
  <2> QED  BY <2>1, <2>2, HappensKeeps
<1>6. ASSUME NEW i \in DOMAIN cases, Ai!Claim(i)  PROVE  AiInv'
  <2>1. /\ cases' = [cases EXCEPT ![i].status = "claimed"] /\ booking' = None
        /\ seats' = seats /\ Ai!Happens
    BY <1>6 DEF Ai!Claim
  <2>2. cases' \in Seq(Case)
    BY <1>3, <2>1 DEF Ai!Statuses
  <2>3. FactsTyped'
    BY <1>1, <2>1, <2>2 DEF FactsTyped, Ai!Topics
  <2> QED  BY <2>1, <2>3, HappensKeeps
<1> QED  BY <1>2, <1>4, <1>5, <1>6 DEF Ai!Goings

\* Time only passes where no message is late.
LEMMA AiTickStep ==
  ASSUME Ai!Assumptions, AiInv, Ai!Tick
  PROVE  AiInv'
<1>1. /\ aiNow < AiLastTime /\ aiNow' = aiNow + 1 /\ \A c \in Chats : ~Ai!OnItsWay(c)
      /\ UNCHANGED <<cases, booking, seats, aiToken, aiIssued, chat, seen, asked,
                     events, aiMode>>
  BY DEF Ai!Tick
<1>2. aiNow \in Nat /\ AiLastTime \in Nat /\ aiNow <= AiLastTime
  BY DEF AiInv, Bounds, Ai!Assumptions
<1>3. ASSUME NEW c \in Chats  PROVE  TokenFits(chat[c])'
  <2>1. PICK x : x = chat[c]
    OBVIOUS
  <2>2. TokenFits(x) /\ chat'[c] = x /\ (x.step \in Ai!Calling => ~(x.sent < aiNow))
    BY <1>1, <2>1 DEF AiInv, Chatting, Ai!OnItsWay
  <2>3. TokenFits(x)'
    BY <1>1, <1>2, <2>2 DEF TokenFits
  <2> QED  BY <2>2, <2>3
<1>4. FactsTyped' /\ Bounds' /\ AiCacheFits'
  BY <1>1, <1>2 DEF AiInv, FactsTyped, Bounds, AiCacheFits
<1>5. Chatting'
  BY <1>1, <1>3 DEF AiInv, Chatting, Ai!Facts
<1> QED  BY <1>4, <1>5 DEF AiInv

LEMMA RestartStep ==
  ASSUME AiInv, Ai!Restart
  PROVE  AiInv'
<1>1. /\ aiToken' = None
      /\ UNCHANGED <<aiIssued, chat, seen, cases, booking, seats, aiNow, asked,
                     events, aiMode>>
  BY DEF Ai!Restart, Ai!Elsewhere
<1> QED  BY <1>1 DEF AiInv, FactsTyped, Bounds, AiCacheFits, Chatting, TokenFits, Ai!Facts

----------------------------------------------------------------------------
(* The theorems *)

LEMMA AiInitially == Ai!Assumptions /\ Ai!Init => AiInv
<1> SUFFICES ASSUME Ai!Assumptions, Ai!Init  PROVE  AiInv
  OBVIOUS
<1>1. FactsTyped /\ AiCacheFits
  BY DEF Ai!Init, FactsTyped, AiCacheFits, Ai!Topics
<1>2. Bounds
  <2>1. aiMode \in AiModes /\ MaxAsked[aiMode] \in Nat /\ MaxEvents[aiMode] \in Nat /\ AiLastTime \in Nat
    BY DEF Ai!Init, Ai!Assumptions
  <2>2. aiIssued = <<>> /\ aiNow = 0 /\ asked = 0 /\ events = 0
    BY DEF Ai!Init
  <2> QED  BY <2>1, <2>2 DEF Bounds
<1>3. PICK x : x = Ai!Idle
  OBVIOUS
<1>4. IsChat(x) /\ x.step = "idle" /\ x.kind = None /\ x.about = None /\ x.answer = None
  BY <1>3 DEF Ai!Idle, IsChat
<1>5. Knows(x, {}) /\ TokenFits(x)
  BY <1>4 DEF Knows, TokenFits, Ai!Calling, Ai!Steps, Ai!Reading, Ai!Topics
<1>6. Chatting
  BY <1>3, <1>4, <1>5 DEF Ai!Init, Chatting
<1> QED  BY <1>1, <1>2, <1>6 DEF AiInv

LEMMA AsksStep == Ai!Assumptions /\ AiInv /\ Ai!Asks => AiInv'
BY SendStep, ReadProgramsStep, ReadCasesStep, ReadBookingsStep, ReadSlotsStep,
   ContextFailsStep, AnswerHereStep, AiGetAccessTokenStep, AiIssueStep, AiKeepTokenStep,
   AnswerLiveStep, UpstreamFailsStep DEF Ai!Asks

LEMMA AiHolds == ASSUME Ai!Assumptions PROVE Ai!Spec => []AiInv
<1> USE Ai!Assumptions
<1>1. Ai!Init => AiInv
  BY AiInitially
<1>2. AiInv /\ [Ai!Next]_(Ai!vars) => AiInv'
  <2> SUFFICES ASSUME AiInv, [Ai!Next]_(Ai!vars)  PROVE  AiInv'
    OBVIOUS
  <2>1. CASE UNCHANGED Ai!vars
    BY <2>1 DEF Ai!vars, AiInv, FactsTyped, Bounds, AiCacheFits, Chatting, TokenFits,
       Ai!Facts
  <2> QED  BY <2>1, AsksStep, GoingsStep, AiTickStep, RestartStep DEF Ai!Next
<1> QED  BY <1>1, <1>2, PTL DEF Ai!Spec

\* The variables and the chats are what TypeOK says (ai/egov-ai.service.ts).
THEOREM AiTypeCorrect == ASSUME Ai!Assumptions PROVE Ai!Spec => []Ai!TypeOK
<1>1. AiInv => Ai!TypeOK
  <2> SUFFICES ASSUME AiInv  PROVE  Ai!TypeOK
    OBVIOUS
  <2>1. \A c \in Chats : /\ chat[c].step \in Ai!Steps /\ chat[c].kind \in Ai!AllKinds \cup {None}
                         /\ chat[c].about \in Ai!Topics
                         /\ chat[c].answer = None \/ chat[c].answer.says \in Ai!Answers
    BY DEF AiInv, Chatting, Knows
  <2>2. aiToken = None \/ aiToken \in [token: Nat, expiresAtMs: Nat]
    BY DEF AiInv, AiCacheFits
  <2> QED  BY <2>1, <2>2 DEF AiInv, FactsTyped, Bounds, Ai!TypeOK, Case
<1> QED  BY <1>1, AiHolds, PTL

\* Whatever the assistant says of the citizen's cases, bookings and free seats
\* was so between the question and the answer.
THEOREM ToldWasTrueHolds == ASSUME Ai!Assumptions PROVE Ai!Spec => []ToldWasTrue
<1>1. AiInv => Ai!ToldWasTrue
  <2> SUFFICES ASSUME AiInv  PROVE  Ai!ToldWasTrue
    OBVIOUS
  <2>1. \A c \in Chats : chat[c].answer # None => Truthful(chat[c].answer, seen[c])
    BY DEF AiInv, Chatting, Knows
  <2> QED  BY <2>1 DEF Ai!ToldWasTrue, Ai!Told, Truthful, WasCase, WasOpen, WasSeat,
              WasBooking
<1> QED  BY <1>1, AiHolds, PTL DEF ToldWasTrue

\* No token is presented that the service would find expired.
THEOREM AiTokensAcceptedHolds == ASSUME Ai!Assumptions PROVE Ai!Spec => []Ai!TokensAccepted
<1>1. AiInv => Ai!TokensAccepted
  <2> SUFFICES ASSUME AiInv, NEW c \in Chats, chat[c].step = "present"
               PROVE  aiNow < aiIssued[chat[c].token]
    BY DEF Ai!TokensAccepted, Ai!Accepted
  <2>1. TokenFits(chat[c]) /\ aiNow \in Nat /\ aiIssued \in Seq(Nat)
    BY DEF AiInv, Chatting, Bounds
  <2> QED  BY <2>1 DEF TokenFits, Ai!Calling
<1> QED  BY <1>1, AiHolds, PTL

----------------------------------------------------------------------------
(***************************************************************************)
(* What is proved of ClaimDesk: what a cash window shows is on record, a   *)
(* claim is handed out once at most unless requests overlap, and the face  *)
(* check on record is the claimant's unless staff leave it backwards.      *)
(***************************************************************************)


\* A booking that was claimed with a face check that was passed
Recorded(b) ==
  /\ status[b] = "claimed" /\ claim[b] \in Sessions
  /\ session[claim[b]].result = "passed"

ClaimsRecorded ==
  \A b \in Bookings : IF status[b] = "claimed" THEN Recorded(b) ELSE claim[b] = None

\* a face check that a tab is about to go to or is at
Holds(t, s) ==
  \/ t.at = "face" /\ t.face = s
  \/ \E c \in t.calls : c.kind = "start" /\ c.step = "ready" /\ c.session = s

\* What a request has learnt and brings with it, by the step it is at.
CallKnown(c) ==
  /\ c.kind = "validate" => c.session \in Sessions
  /\ c.step \in {"checked", "first"} => c.kind = "validate"
  /\ c.step = "checked" => session[c.session].result = "passed"
  /\ c.kind = "start" /\ c.step = "ready" =>
       c.session \in Sessions /\ session[c.session].booking = c.booking
  /\ c.step \in {"done", "first"} => Recorded(c.booking)

TabKnown(t) ==
  /\ \A c \in t.calls : CallKnown(c)
  /\ t.result # None => Recorded(t.result.booking)
  /\ t.at = "face" =>
       /\ t.calls = {} /\ t.face \in Sessions /\ t.pending \in Bookings
       /\ session[t.face].booking = t.pending

\* A face check that is to be made is open, and one tab's.
HeldOnce ==
  \A d \in Desks, s \in Sessions : Holds(desk[d], s) =>
     /\ session[s].result = "pending" /\ session[s].booking # None
     /\ \A e \in Desks : Holds(desk[e], s) => e = d

\* So is one that is not started.
UnusedOpen == \A s \in Desk!Unused : session[s].result = "pending"

RecordInv ==
  Desk!TypeOK /\ ClaimsRecorded /\ HeldOnce /\ UnusedOpen /\ \A d \in Desks : TabKnown(desk[d])

\* The token a page has is that of the claim pending in its tab.
TokenOfPending(t) ==
  /\ t.at = "page" /\ t.token # None /\ t.pending # None
       => session[t.token].booking = t.pending
  /\ \A c \in t.calls : c.kind = "validate" => session[c.session].booking = c.booking

ClaimantInv == Desk!FaceOfClaimant /\ \A d \in Desks : TokenOfPending(desk[d])

\* One request at a time, which finds a booking as it has read it.
OneCall ==
  \A d, e \in Desks : \A c \in desk[d].calls, f \in desk[e].calls : d = e /\ c = f

Unreleased(t) ==
  \A c \in t.calls :
    /\ c.step = "checked" => status[c.booking] = "booked"
    /\ c.step = "first" => released[c.booking] = 0

OncePaid ==
  \A b \in Bookings : released[b] # 0 => released[b] = 1 /\ status[b] = "claimed"

ReleaseInv == OneCall /\ OncePaid /\ \A d \in Desks : Unreleased(desk[d])

DeskInv ==
  /\ RecordInv
  /\ deskMode # "back" => ClaimantInv
  /\ deskMode # "overlap" => ReleaseInv

----------------------------------------------------------------------------
(* One tab changes *)

\* A tab changes and the server does not: what the tab is then must be true,
\* hold no face check it did not hold, and have the only request there is.
LEMMA TabMoves ==
  ASSUME DeskInv, NEW d \in Desks, NEW t \in Desk!Tab, desk' = [desk EXCEPT ![d] = t],
         UNCHANGED <<Desk!Server, deskMode>>, deskOps' \in 0 .. DeskMaxOps[deskMode],
         released' \in [Bookings -> Nat],
         TabKnown(t), \A s \in Sessions : Holds(t, s) => Holds(desk[d], s),
         deskMode # "back" => TokenOfPending(t),
         deskMode # "overlap" => /\ \A e \in Desks \ {d} : desk[e].calls = {}
                                 /\ \A c, f \in t.calls : c = f
                                 /\ Unreleased(t)' /\ OncePaid'
  PROVE  DeskInv'
  <1>1. desk \in [Desks -> Desk!Tab] /\ desk'[d] = t
        /\ \A e \in Desks \ {d} : desk'[e] = desk[e]
    BY DEF DeskInv, RecordInv, Desk!TypeOK
  <1>2. UNCHANGED <<status, claim, session, deskMode>>
    BY DEF Desk!Server
  <1>3. Desk!TypeOK'
    BY <1>1, <1>2 DEF DeskInv, RecordInv, Desk!TypeOK
  <1>4. ClaimsRecorded'
    BY <1>2 DEF DeskInv, RecordInv, ClaimsRecorded, Recorded
  <1>5. \A e \in Desks : TabKnown(desk[e])'
    <2>1. \A e \in Desks : TabKnown(desk'[e])
      BY <1>1 DEF DeskInv, RecordInv
    <2> QED
      BY <1>2, <2>1 DEF TabKnown, CallKnown, Recorded
  <1>6. HeldOnce'
    <2>1. \A e \in Desks, s \in Sessions : Holds(desk'[e], s) => Holds(desk[e], s)
      BY <1>1
    <2>2. SUFFICES ASSUME NEW e \in Desks, NEW s \in Sessions, Holds(desk'[e], s)
                   PROVE  /\ session[s].result = "pending" /\ session[s].booking # None
                          /\ \A g \in Desks : Holds(desk'[g], s) => g = e
      BY <1>2 DEF HeldOnce, Holds
    <2> QED
      BY <2>1, <2>2 DEF DeskInv, RecordInv, HeldOnce
  <1>7. ASSUME deskMode # "back" PROVE ClaimantInv'
    <2>1. \A e \in Desks : TokenOfPending(desk'[e])
      BY <1>1, <1>7 DEF DeskInv, ClaimantInv
    <2> QED
      BY <1>2, <1>7, <2>1 DEF DeskInv, ClaimantInv, Desk!FaceOfClaimant, TokenOfPending
  <1>8. ASSUME deskMode # "overlap" PROVE ReleaseInv'
    <2>1. \A e \in Desks \ {d} : desk'[e].calls = {}
      BY <1>1, <1>8
    <2>2. OneCall'
      BY <1>1, <1>8, <2>1 DEF OneCall
    <2>3. \A e \in Desks : Unreleased(desk[e])'
      BY <1>1, <1>8, <2>1 DEF Unreleased
    <2> QED
      BY <1>8, <2>2, <2>3 DEF ReleaseInv
  <1>9. UnusedOpen'
    BY <1>2 DEF DeskInv, RecordInv, UnusedOpen, Desk!Unused
  <1> QED
    BY <1>2, <1>3, <1>4, <1>5, <1>6, <1>7, <1>8, <1>9 DEF DeskInv, RecordInv

\* The same for a tab that nothing is released at
LEMMA TabChanges ==
  ASSUME DeskInv, NEW d \in Desks, NEW t \in Desk!Tab, desk' = [desk EXCEPT ![d] = t],
         UNCHANGED <<Desk!Server, released, deskMode>>, deskOps' \in 0 .. DeskMaxOps[deskMode],
         TabKnown(t), \A s \in Sessions : Holds(t, s) => Holds(desk[d], s),
         deskMode # "back" => TokenOfPending(t),
         deskMode # "overlap" => /\ \A e \in Desks \ {d} : desk[e].calls = {}
                                 /\ \A c, f \in t.calls : c = f
                                 /\ Unreleased(t)
  PROVE  DeskInv'
  <1>1. released' \in [Bookings -> Nat] /\ UNCHANGED <<status, released>>
    BY DEF DeskInv, RecordInv, Desk!TypeOK, Desk!Server
  <1>2. deskMode # "overlap" => Unreleased(t)' /\ OncePaid'
    BY <1>1 DEF DeskInv, ReleaseInv, Unreleased, OncePaid
  <1> QED
    BY <1>1, <1>2, TabMoves

\* What a tab is made of
LEMMA TabFacts ==
  ASSUME NEW t \in Desk!Tab
  PROVE  /\ t.at \in {"page", "face"} /\ t.token \in Sessions \cup {None}
         /\ t.back \in Sessions \cup {None} /\ t.face \in Sessions \cup {None}
         /\ t.pending \in Bookings \cup {None} /\ t.field \in Bookings \cup {None}
         /\ t.preview \in Bookings \cup {None} /\ t.result \in Desk!Cards \cup {None}
         /\ t.camera \in BOOLEAN /\ t.calls \in SUBSET Desk!Calls
  BY DEF Desk!Tab

LEMMA DeskTyped ==
  ASSUME DeskInv, NEW d \in Desks
  PROVE  /\ desk \in [Desks -> Desk!Tab] /\ desk[d] \in Desk!Tab
         /\ TabKnown(desk[d])
         /\ deskMode # "back" => TokenOfPending(desk[d])
         /\ deskOps \in 0 .. DeskMaxOps[deskMode]
  BY DEF DeskInv, RecordInv, Desk!TypeOK, ClaimantInv

\* Without overlap there is no other request than c.
LEMMA TheOnlyCall ==
  ASSUME DeskInv, deskMode # "overlap", NEW d \in Desks, NEW c \in desk[d].calls
  PROVE  /\ desk[d].calls = {c} /\ \A e \in Desks \ {d} : desk[e].calls = {}
         /\ Unreleased(desk[d])
  BY DEF DeskInv, ReleaseInv, OneCall

LEMMA QuietAll ==
  ASSUME deskMode # "overlap", Desk!Quiet(Desks)
  PROVE  \A e \in Desks : desk[e].calls = {}
  BY DEF Desk!Quiet

----------------------------------------------------------------------------
(* The page *)

LEMMA Counted ==
  ASSUME Desk!Assumptions, DeskInv, Desk!Does
  PROVE  deskOps' \in 0 .. DeskMaxOps[deskMode] /\ deskMode' = deskMode
  BY DEF Desk!Assumptions, Desk!Does, DeskInv, RecordInv, Desk!TypeOK

\* A page that is loaded with the token of its pending claim
LEMMA MountedKnown ==
  ASSUME Desk!Assumptions, DeskInv, NEW p \in Bookings \cup {None}, NEW s \in Sessions \cup {None}
  PROVE  /\ Desk!Mounted(p, s) \in Desk!Tab /\ TabKnown(Desk!Mounted(p, s)) /\ Unreleased(Desk!Mounted(p, s))
         /\ \A u : ~Holds(Desk!Mounted(p, s), u)
         /\ (s # None /\ p # None => session[s].booking = p)
              => TokenOfPending(Desk!Mounted(p, s))
         /\ \A c, f \in Desk!Mounted(p, s).calls : c = f
  <1> DEFINE t == Desk!Mounted(p, s)
  <1>1. /\ t.at = "page" /\ t.token = s /\ t.pending = p /\ t.result = None
        /\ t.calls = IF s # None /\ p # None THEN {Desk!Call("validate", p, s)} ELSE {}
        /\ t \in [at : {"page"}, token : {s}, back : {None}, face : {None}, pending : {p},
                  field : {None}, preview : {None}, result : {None}, camera : {FALSE},
                  calls : {t.calls}]
    BY DEF Desk!Mounted, Desk!EmptyPage
  <1>2. ASSUME s # None, p # None
        PROVE  Desk!Call("validate", p, s) \in Desk!Calls /\ CallKnown(Desk!Call("validate", p, s))
    BY <1>2 DEF Desk!Call, Desk!Calls, CallKnown
  <1>3. t.calls \subseteq Desk!Calls /\ \A c \in t.calls : CallKnown(c)
    BY <1>1, <1>2
  <1>4. t \in Desk!Tab
    BY <1>1, <1>3 DEF Desk!Tab
  <1> HIDE DEF t
  <1>5. \A c \in t.calls : c.kind = "validate" /\ c.step = "sent" /\ c.session = s /\ c.booking = p
    BY <1>1 DEF Desk!Call
  <1>6. TabKnown(t) /\ Unreleased(t) /\ \A u : ~Holds(t, u)
    BY <1>1, <1>3, <1>5 DEF TabKnown, Unreleased, Holds
  <1>7. (s # None /\ p # None => session[s].booking = p) => TokenOfPending(t)
    BY <1>1, <1>5 DEF TokenOfPending
  <1> QED
    BY <1>1, <1>4, <1>6, <1>7 DEF t

LEMMA PageKept ==
  ASSUME Desk!Assumptions, DeskInv, NEW d \in Desks,
         \/ Desk!OpenCamera(d) \/ Desk!lookupClaim(d) \/ Desk!startFaceLiveness(d) \/ Desk!Reload(d) \/ Desk!Back(d)
         \/ \E b \in Bookings : Desk!Type(d, b) \/ Desk!Scan(d, b)
  PROVE  DeskInv'
  <1>1. /\ desk[d] \in Desk!Tab /\ TabKnown(desk[d]) /\ deskOps \in 0 .. DeskMaxOps[deskMode]
        /\ deskMode # "back" => TokenOfPending(desk[d])
    BY DeskTyped
  <1> DEFINE T == desk[d]
  <1>2. /\ T.at \in {"page", "face"} /\ T.token \in Sessions \cup {None}
        /\ T.back \in Sessions \cup {None} /\ T.face \in Sessions \cup {None}
        /\ T.pending \in Bookings \cup {None} /\ T.field \in Bookings \cup {None}
        /\ T.preview \in Bookings \cup {None} /\ T.result \in Desk!Cards \cup {None}
        /\ T.camera \in BOOLEAN /\ T.calls \in SUBSET Desk!Calls
    BY <1>1, TabFacts
  \* what the page shows changes, and a request may be sent that brings nothing
  <1>3. ASSUME NEW t \in Desk!Tab, desk' = [desk EXCEPT ![d] = t],
               UNCHANGED <<Desk!Server, released, deskMode>>, deskOps' \in 0 .. DeskMaxOps[deskMode],
               t.at = "page", T.at = "page", t.token = T.token, t.pending = T.pending,
               t.result \in {T.result, None},
               NEW N, t.calls = T.calls \cup N,
               \A n \in N : n.step = "sent" /\ n.kind # "validate",
               \A n, m \in N : n = m,
               deskMode # "overlap" => \A e \in Desks : desk[e].calls = {}
        PROVE  DeskInv'
    <2>1. \A n \in N : CallKnown(n)
      BY <1>3 DEF CallKnown
    <2>2. TabKnown(t)
      BY <1>1, <1>3, <2>1 DEF TabKnown
    <2>3. \A s \in Sessions : Holds(t, s) => Holds(T, s)
      BY <1>3 DEF Holds
    <2>4. deskMode # "back" => TokenOfPending(t)
      BY <1>1, <1>3 DEF TokenOfPending
    <2>5. deskMode # "overlap" => /\ \A e \in Desks \ {d} : desk[e].calls = {}
                                  /\ \A c, f \in t.calls : c = f
                                  /\ Unreleased(t)
      BY <1>3 DEF Unreleased
    <2> HIDE DEF T
    <2> QED
      BY <1>3, <2>2, <2>3, <2>4, <2>5, TabChanges DEF T
  <1>4. CASE \E b \in Bookings : Desk!Type(d, b)
    <2>1. PICK b \in Bookings : Desk!Type(d, b)
      BY <1>4
    <2> DEFINE t == [T EXCEPT !.field = b]
    <2>2. /\ t \in Desk!Tab /\ t.at = T.at /\ t.token = T.token /\ t.pending = T.pending
          /\ t.result = T.result /\ t.calls = T.calls
      BY <1>1 DEF Desk!Tab
    <2>3. /\ desk' = [desk EXCEPT ![d] = t] /\ UNCHANGED <<Desk!Server, released>> /\ Desk!Does
          /\ T.at = "page" /\ Desk!Quiet(Desks)
      BY <2>1 DEF Desk!Type, Desk!OnPage
    <2> DEFINE N == {}
    <2>4. t.calls = T.calls \cup N /\ \A n \in N : FALSE
      BY <2>2
    <2> HIDE DEF t, T, N
    <2> QED
      BY <1>3, <2>2, <2>3, <2>4, Counted, QuietAll
  <1>5. CASE Desk!OpenCamera(d)
    <2> DEFINE t == [T EXCEPT !.camera = TRUE]
    <2>1. /\ t \in Desk!Tab /\ t.at = T.at /\ t.token = T.token /\ t.pending = T.pending
          /\ t.result = T.result /\ t.calls = T.calls
      BY <1>1 DEF Desk!Tab
    <2>2. /\ desk' = [desk EXCEPT ![d] = t] /\ UNCHANGED <<Desk!Server, released>> /\ Desk!Does
          /\ T.at = "page" /\ Desk!Quiet(Desks)
      BY <1>5 DEF Desk!OpenCamera, Desk!OnPage
    <2> DEFINE N == {}
    <2>3. t.calls = T.calls \cup N /\ \A n \in N : FALSE
      BY <2>1
    <2> HIDE DEF t, T, N
    <2> QED
      BY <1>3, <2>1, <2>2, <2>3, Counted, QuietAll
  \* a claim is looked up, from the field or the camera
  <1>6. ASSUME NEW b \in Bookings, NEW camera \in BOOLEAN, NEW t,
               t = [Desk!LooksUp(d, b) EXCEPT !.camera = camera], desk' = [desk EXCEPT ![d] = t],
               UNCHANGED <<Desk!Server, released, deskMode>>, deskOps' \in 0 .. DeskMaxOps[deskMode],
               Desk!OnPage(d), Desk!Quiet(Desks)
        PROVE  DeskInv'
    <2> DEFINE N == {Desk!Call("preview", b, None)}
    <2>1. N \subseteq Desk!Calls /\ \A n \in N : n.step = "sent" /\ n.kind # "validate"
      BY DEF Desk!Call, Desk!Calls
    <2>2. /\ t \in Desk!Tab /\ t.at = T.at /\ t.token = T.token /\ t.pending = T.pending
          /\ t.result = None /\ t.calls = T.calls \cup N
      BY <1>1, <1>2, <1>6, <2>1 DEF Desk!Tab, Desk!LooksUp
    <2>3. T.at = "page" /\ \A n, m \in N : n = m
      BY <1>6 DEF Desk!OnPage
    <2> HIDE DEF T, N
    <2> QED
      BY <1>3, <1>6, <2>1, <2>2, <2>3, QuietAll
  <1>7. CASE \E b \in Bookings : Desk!Scan(d, b)
    BY <1>1, <1>6, <1>7 DEF Desk!Scan
  <1>8. CASE Desk!lookupClaim(d)
    <2>1. desk[d].field \in Bookings /\ Desk!OnPage(d) /\ Desk!Quiet(Desks) /\ Desk!Does
          /\ UNCHANGED <<Desk!Server, released>>
      BY <1>2, <1>8 DEF Desk!lookupClaim
    <2>2. Desk!LooksUp(d, desk[d].field) = [Desk!LooksUp(d, desk[d].field) EXCEPT !.camera = desk[d].camera]
      BY <1>1 DEF Desk!LooksUp, Desk!Tab
    <2> QED
      BY <1>2, <1>6, <1>8, <2>1, <2>2, Counted DEF Desk!lookupClaim
  <1>9. CASE Desk!startFaceLiveness(d)
    <2> DEFINE N == {Desk!Call("start", T.field, None)}
               t == [T EXCEPT !.calls = T.calls \cup N]
    <2>0. T.field \in Bookings /\ Desk!OnPage(d) /\ Desk!Quiet(Desks) /\ Desk!Does
          /\ UNCHANGED <<Desk!Server, released>>
      BY <1>2, <1>9 DEF Desk!startFaceLiveness
    <2>1. N \subseteq Desk!Calls /\ \A n \in N : n.step = "sent" /\ n.kind # "validate"
      BY <2>0 DEF Desk!Call, Desk!Calls
    <2>2. /\ t \in Desk!Tab /\ t.at = T.at /\ t.token = T.token /\ t.pending = T.pending
          /\ t.result = T.result /\ t.calls = T.calls \cup N
      BY <1>1, <1>2, <2>1 DEF Desk!Tab
    <2>3. T.at = "page" /\ \A n, m \in N : n = m
      BY <2>0 DEF Desk!OnPage
    <2>4. desk' = [desk EXCEPT ![d] = t]
      BY <1>9, DeskTyped DEF Desk!startFaceLiveness
    <2> HIDE DEF T, N, t
    <2> QED
      BY <1>3, <2>0, <2>1, <2>2, <2>3, <2>4, QuietAll, Counted
  \* the page is loaded
  <1>10. ASSUME NEW s \in Sessions \cup {None}, desk' = [desk EXCEPT ![d] = Desk!Mounted(T.pending, s)],
                UNCHANGED <<Desk!Server, released, deskMode>>, deskOps' \in 0 .. DeskMaxOps[deskMode],
                deskMode # "back" => s = T.token /\ T.at = "page",
                deskMode # "overlap" => \A e \in Desks \ {d} : desk[e].calls = {}
         PROVE  DeskInv'
    <2>1. deskMode # "back" => TokenOfPending(Desk!Mounted(T.pending, s))
      BY <1>1, <1>2, <1>10, MountedKnown DEF TokenOfPending
    <2> HIDE DEF T
    <2> QED
      BY <1>2, <1>10, <2>1, MountedKnown, TabChanges
  <1>11. CASE Desk!Reload(d)
    BY <1>2, <1>10, <1>11, Counted DEF Desk!Reload, Desk!Quiet, Desk!OnPage
  <1>12. CASE Desk!Back(d)
    BY <1>2, <1>10, <1>12, Counted DEF Desk!Back, Desk!Quiet
  <1> QED
    BY <1>4, <1>5, <1>7, <1>8, <1>9, <1>11, <1>12

----------------------------------------------------------------------------
(* The face check *)

LEMMA FaceDoneKept ==
  ASSUME Desk!Assumptions, DeskInv, NEW d \in Desks, NEW result \in {"passed", "failed"},
         Desk!FaceDone(d, result)
  PROVE  DeskInv'
  <1> DEFINE s == desk[d].face
             t == Desk!Mounted(desk[d].pending, s)
  <1>1. /\ desk \in [Desks -> Desk!Tab] /\ TabKnown(desk[d]) /\ desk[d].at = "face"
        /\ deskMode' = deskMode /\ deskOps' \in 0 .. DeskMaxOps[deskMode] /\ Desk!Quiet(Desks)
        /\ UNCHANGED <<status, claim, released>>
    BY DeskTyped, Counted DEF Desk!FaceDone
  <1>2. /\ s \in Sessions /\ desk[d].pending \in Bookings
        /\ session[s].booking = desk[d].pending /\ Holds(desk[d], s)
    BY <1>1 DEF TabKnown, Holds
  <1>3. /\ session \in [Sessions -> [booking : Bookings \cup {None},
                                     result : {"pending", "passed", "failed"}]]
        /\ session' = [session EXCEPT ![s].result = result]
        /\ desk' = [desk EXCEPT ![d] = t]
    BY DEF Desk!FaceDone, DeskInv, RecordInv, Desk!TypeOK
  <1>4. session[s].result = "pending" /\ \A e \in Desks : Holds(desk[e], s) => e = d
    BY <1>2 DEF DeskInv, RecordInv, HeldOnce
  <1>5. /\ t \in Desk!Tab /\ TabKnown(t) /\ Unreleased(t) /\ TokenOfPending(t)
        /\ \A u : ~Holds(t, u)
        /\ \A c, f \in t.calls : c = f
    BY <1>2, MountedKnown
  <1> HIDE DEF t
  <1>6. /\ \A u \in Sessions : session'[u].booking = session[u].booking
        /\ \A u \in Sessions \ {s} : session'[u] = session[u]
        /\ session' \in [Sessions -> [booking : Bookings \cup {None},
                                      result : {"pending", "passed", "failed"}]]
    BY <1>2, <1>3
  <1>7. desk'[d] = t /\ (\A e \in Desks \ {d} : desk'[e] = desk[e]) /\ desk' \in [Desks -> Desk!Tab]
    BY <1>1, <1>3, <1>5
  <1>8. Desk!TypeOK'
    BY <1>1, <1>6, <1>7 DEF DeskInv, RecordInv, Desk!TypeOK
  \* a check that was passed is not this one
  <1>9. \A u \in Sessions : session[u].result = "passed" => session'[u] = session[u]
    BY <1>4, <1>6
  <1>10. \A b : Recorded(b) => Recorded(b)'
    BY <1>1, <1>9 DEF Recorded
  <1>11. ClaimsRecorded'
    BY <1>1, <1>10 DEF DeskInv, RecordInv, ClaimsRecorded
  <1>12. \A e \in Desks : TabKnown(desk'[e]) /\ desk'[e] \in Desk!Tab
    BY <1>5, <1>7 DEF DeskInv, RecordInv
  <1>13. \A c \in Desk!Calls : CallKnown(c) => CallKnown(c)'
    BY <1>1, <1>6, <1>9, <1>10 DEF CallKnown
  <1>14. \A e \in Desks : TabKnown(desk[e])'
    <2> SUFFICES ASSUME NEW e \in Desks PROVE TabKnown(desk[e])'
      OBVIOUS
    <2>1. desk'[e].calls \subseteq Desk!Calls
      BY <1>12, TabFacts
    <2> QED
      BY <1>6, <1>10, <1>12, <1>13, <2>1 DEF TabKnown
  <1>15. HeldOnce'
    <2> SUFFICES ASSUME NEW e \in Desks, NEW u \in Sessions, Holds(desk'[e], u)
                 PROVE  /\ session'[u].result = "pending" /\ session'[u].booking # None
                        /\ \A g \in Desks : Holds(desk'[g], u) => g = e
      BY DEF HeldOnce, Holds
    <2>1. e # d /\ Holds(desk[e], u)
      BY <1>5, <1>7
    <2>2. u # s
      BY <1>4, <2>1
    <2>3. \A g \in Desks : Holds(desk'[g], u) => Holds(desk[g], u)
      BY <1>5, <1>7
    <2> QED
      BY <1>6, <2>1, <2>2, <2>3 DEF DeskInv, RecordInv, HeldOnce
  <1>16. ASSUME deskMode # "back" PROVE ClaimantInv'
    <2>1. Desk!FaceOfClaimant'
      BY <1>1, <1>6, <1>11, <1>16 DEF DeskInv, ClaimantInv, RecordInv, Desk!TypeOK,
         Desk!FaceOfClaimant
    <2>2. \A e \in Desks : TokenOfPending(desk'[e])
      BY <1>5, <1>7, <1>16 DEF DeskInv, ClaimantInv
    <2>3. \A e \in Desks : TokenOfPending(desk[e])'
      <3> SUFFICES ASSUME NEW e \in Desks PROVE TokenOfPending(desk[e])'
        OBVIOUS
      <3>1. desk'[e].token \in Sessions \cup {None}
        BY <1>12, TabFacts
      <3>2. \A c \in desk'[e].calls : c.kind = "validate" => c.session \in Sessions
        BY <1>12 DEF TabKnown, CallKnown
      <3> QED
        BY <1>6, <2>2, <3>1, <3>2 DEF TokenOfPending
    <2> QED
      BY <2>1, <2>3 DEF ClaimantInv
  <1>17. ASSUME deskMode # "overlap" PROVE ReleaseInv'
    <2>1. \A e \in Desks \ {d} : desk'[e].calls = {}
      BY <1>1, <1>7, <1>17, QuietAll
    <2>2. OneCall'
      BY <1>5, <1>7, <2>1 DEF OneCall
    <2>3. \A e \in Desks : Unreleased(desk[e])'
      BY <1>1, <1>5, <1>7, <2>1 DEF Unreleased
    <2> QED
      BY <1>1, <1>17, <2>2, <2>3 DEF DeskInv, ReleaseInv, OncePaid
  <1>18. UnusedOpen'
    BY <1>2, <1>6 DEF DeskInv, RecordInv, UnusedOpen, Desk!Unused, Desk!Assumptions
  <1> QED
    BY <1>1, <1>8, <1>11, <1>14, <1>15, <1>16, <1>17, <1>18 DEF DeskInv, RecordInv

----------------------------------------------------------------------------
(* The server *)

\* What a tab and its requests know stays so.
LEMMA KnownStays ==
  ASSUME Desk!Assumptions, DeskInv,
         \A b \in Bookings : Recorded(b) => Recorded(b)',
         \A s \in Sessions : session[s].result = "passed" => session'[s].result = "passed",
         \A s \in Sessions : session[s].booking # None
                               => session'[s].booking = session[s].booking
  PROVE  \A t \in Desk!Tab : TabKnown(t) => /\ TabKnown(t)'
                                            /\ TokenOfPending(t) => TokenOfPending(t)'
  <1> SUFFICES ASSUME NEW t \in Desk!Tab, TabKnown(t)
               PROVE  TabKnown(t)' /\ (TokenOfPending(t) => TokenOfPending(t)')
    OBVIOUS
  <1>1. /\ t.token \in Sessions \cup {None} /\ t.pending \in Bookings \cup {None}
        /\ t.result \in Desk!Cards \cup {None} /\ t.calls \subseteq Desk!Calls
    BY TabFacts
  <1>2. \A c \in t.calls : CallKnown(c) /\ c.booking \in Bookings
    BY <1>1 DEF TabKnown, Desk!Calls
  <1>3. \A c \in t.calls : CallKnown(c)'
    <2> SUFFICES ASSUME NEW c \in t.calls PROVE CallKnown(c)'
      OBVIOUS
    <2>1. c.step = "checked" => c.session \in Sessions
      BY <1>2 DEF CallKnown
    <2> QED
      BY <1>2, <2>1 DEF CallKnown, Desk!Assumptions
  <1>4. t.result # None => t.result.booking \in Bookings
    BY <1>1 DEF Desk!Cards
  <1>5. TabKnown(t)'
    BY <1>3, <1>4 DEF TabKnown, Desk!Assumptions
  <1>6. ASSUME TokenOfPending(t) PROVE TokenOfPending(t)'
    <2>1. \A c \in t.calls : c.kind = "validate" => c.session \in Sessions
      BY <1>2 DEF CallKnown
    <2> QED
      BY <1>1, <1>2, <1>6, <2>1 DEF TokenOfPending, Desk!Assumptions
  <1> QED
    BY <1>5, <1>6

\* A tab with a request is on the page.
LEMMA CallTab ==
  ASSUME DeskInv, NEW d \in Desks, NEW c \in desk[d].calls
  PROVE  /\ desk \in [Desks -> Desk!Tab] /\ desk[d] \in Desk!Tab /\ desk[d].at = "page"
         /\ desk[d].calls \subseteq Desk!Calls /\ c \in Desk!Calls /\ c.booking \in Bookings
         /\ c.kind \in {"preview", "start", "validate"}
         /\ c.session \in Sessions \cup {None}
         /\ TabKnown(desk[d]) /\ CallKnown(c) /\ (deskMode # "back" => TokenOfPending(desk[d]))
         /\ deskOps \in 0 .. DeskMaxOps[deskMode]
  <1>1. /\ desk \in [Desks -> Desk!Tab] /\ desk[d] \in Desk!Tab /\ TabKnown(desk[d])
        /\ deskMode # "back" => TokenOfPending(desk[d])
        /\ deskOps \in 0 .. DeskMaxOps[deskMode]
    BY DeskTyped
  <1>2. desk[d].calls \subseteq Desk!Calls /\ desk[d].at \in {"page", "face"}
    BY <1>1, TabFacts
  <1> QED
    BY <1>1, <1>2 DEF TabKnown, Desk!Calls

\* A request with a new answer, in the place of the old
LEMMA BecomesKept ==
  ASSUME DeskInv, NEW d \in Desks, NEW c \in desk[d].calls,
         NEW step \in {"checked", "error", "ready", "done"}, Desk!Becomes(d, c, step),
         UNCHANGED <<Desk!Server, released, deskOps, deskMode>>,
         step = "ready" => c.kind # "start",
         step = "checked" => /\ c.kind = "validate" /\ session[c.session].result = "passed"
                             /\ status[c.booking] = "booked",
         step = "done" => Recorded(c.booking)
  PROVE  DeskInv'
  <1> DEFINE n == [c EXCEPT !.step = step]
             t == [desk[d] EXCEPT !.calls = (desk[d].calls \ {c}) \cup {n}]
  <1>1. /\ desk \in [Desks -> Desk!Tab] /\ desk[d] \in Desk!Tab /\ desk[d].at = "page"
        /\ desk[d].calls \subseteq Desk!Calls /\ c \in Desk!Calls /\ TabKnown(desk[d]) /\ CallKnown(c)
        /\ deskMode # "back" => TokenOfPending(desk[d])
        /\ deskOps \in 0 .. DeskMaxOps[deskMode]
    BY CallTab
  <1>2. /\ n \in Desk!Calls /\ n.kind = c.kind /\ n.booking = c.booking /\ n.session = c.session
        /\ n.step = step
    BY <1>1 DEF Desk!Calls
  <1>3. desk' = [desk EXCEPT ![d] = t]
    BY <1>1 DEF Desk!Becomes
  <1> HIDE DEF n
  <1>4. /\ t \in Desk!Tab /\ t.at = "page" /\ t.token = desk[d].token /\ t.pending = desk[d].pending
        /\ t.result = desk[d].result /\ t.calls = (desk[d].calls \ {c}) \cup {n}
    BY <1>1, <1>2 DEF Desk!Tab
  <1> HIDE DEF t
  <1>5. CallKnown(n)
    BY <1>1, <1>2 DEF CallKnown
  <1>6. TabKnown(t)
    BY <1>1, <1>4, <1>5 DEF TabKnown
  <1>7. \A s \in Sessions : Holds(t, s) => Holds(desk[d], s)
    BY <1>2, <1>4 DEF Holds
  <1>8. deskMode # "back" => TokenOfPending(t)
    BY <1>1, <1>2, <1>4 DEF TokenOfPending
  <1>9. deskMode # "overlap" => /\ \A e \in Desks \ {d} : desk[e].calls = {}
                                /\ \A m, f \in t.calls : m = f
                                /\ Unreleased(t)
    BY <1>2, <1>4, TheOnlyCall DEF Unreleased
  <1> QED
    BY <1>1, <1>3, <1>4, <1>6, <1>7, <1>8, <1>9, TabChanges

LEMMA AnsweredKept ==
  ASSUME Desk!Assumptions, DeskInv, NEW d \in Desks, NEW c \in desk[d].calls,
         \/ Desk!Preview(d, c) \/ Desk!Validate(d, c)
         \/ Desk!StartSession(d, c) /\ ~Desk!Ready(c.booking)
  PROVE  DeskInv'
  <1>1. /\ c.booking \in Bookings /\ CallKnown(c) /\ c \in Desk!Calls
        /\ c.kind \in {"preview", "start", "validate"}
    BY CallTab
  <1>2. status[c.booking] \in {"booked", "claimed", "moved"}
        /\ (Desk!isClaimDone(c.booking) => Recorded(c.booking))
    BY <1>1 DEF DeskInv, RecordInv, Desk!TypeOK, ClaimsRecorded, Desk!isClaimDone
  <1>3. CASE Desk!Preview(d, c)
    <2>1. PICK step \in {"error", "done", "ready"} :
               /\ Desk!Becomes(d, c, step)
               /\ step = "done" => Desk!isClaimDone(c.booking)
      BY <1>2, <1>3 DEF Desk!Preview, Desk!Recognized, Desk!isClaimDone, Desk!Ready
    <2> QED
      BY <1>2, <1>3, <2>1, BecomesKept DEF Desk!Preview
  <1>4. CASE Desk!Validate(d, c)
    <2>1. PICK step \in {"error", "done", "checked"} :
               /\ Desk!Becomes(d, c, step)
               /\ step = "done" => Desk!isClaimDone(c.booking)
               /\ step = "checked" => Desk!Ready(c.booking) /\ Desk!Passed(c.session)
      BY <1>4 DEF Desk!Validate
    <2> QED
      BY <1>2, <1>4, <2>1, BecomesKept DEF Desk!Validate, Desk!Ready, Desk!Passed
  <1>5. CASE Desk!StartSession(d, c) /\ ~Desk!Ready(c.booking)
    <2>1. PICK step \in {"error", "done"} :
               /\ Desk!Becomes(d, c, step)
               /\ step = "done" => Desk!isClaimDone(c.booking)
      BY <1>5 DEF Desk!StartSession
    <2>2. UNCHANGED <<Desk!Server, released, deskOps, deskMode>>
      BY <1>5 DEF Desk!StartSession, Desk!Server
    <2> QED
      BY <1>2, <2>1, <2>2, BecomesKept
  <1> QED
    BY <1>3, <1>4, <1>5

\* A face check is started for the claim.
LEMMA StartedKept ==
  ASSUME Desk!Assumptions, DeskInv, NEW d \in Desks, NEW c \in desk[d].calls,
         Desk!StartSession(d, c), Desk!Ready(c.booking)
  PROVE  DeskInv'
  <1>1. /\ desk \in [Desks -> Desk!Tab] /\ desk[d] \in Desk!Tab /\ desk[d].at = "page"
        /\ desk[d].calls \subseteq Desk!Calls /\ c \in Desk!Calls /\ TabKnown(desk[d]) /\ CallKnown(c)
        /\ c.booking \in Bookings /\ c.kind = "start"
        /\ deskMode # "back" => TokenOfPending(desk[d])
    BY CallTab DEF Desk!StartSession
  <1>2. PICK s \in Desk!Unused :
             /\ session' = [session EXCEPT ![s].booking = c.booking]
             /\ desk' = [desk EXCEPT ![d].calls =
                  (@ \ {c}) \cup {[c EXCEPT !.step = "ready", !.session = s]}]
    BY DEF Desk!StartSession
  <1>3. UNCHANGED <<status, claim, released, deskOps, deskMode>>
    BY DEF Desk!StartSession
  <1>4. /\ s \in Sessions /\ session[s].booking = None /\ session[s].result = "pending"
        /\ session \in [Sessions -> [booking : Bookings \cup {None},
                                     result : {"pending", "passed", "failed"}]]
    BY DEF DeskInv, RecordInv, UnusedOpen, Desk!Unused, Desk!TypeOK
  <1>5. /\ session'[s].booking = c.booking /\ session'[s].result = "pending"
        /\ \A u \in Sessions \ {s} : session'[u] = session[u]
        /\ session' \in [Sessions -> [booking : Bookings \cup {None},
                                      result : {"pending", "passed", "failed"}]]
    BY <1>1, <1>2, <1>4
  <1>6. PICK n \in Desk!Calls : n = [c EXCEPT !.step = "ready", !.session = s]
    BY <1>1, <1>4 DEF Desk!Calls
  <1>7. n.kind = "start" /\ n.step = "ready" /\ n.booking = c.booking /\ n.session = s
    BY <1>1, <1>6 DEF Desk!Calls
  <1>8. PICK t \in Desk!Tab :
             /\ t.at = "page" /\ t.token = desk[d].token /\ t.pending = desk[d].pending
             /\ t.result = desk[d].result /\ t.calls = (desk[d].calls \ {c}) \cup {n}
             /\ desk' = [desk EXCEPT ![d] = t]
    <2> DEFINE g == [desk[d] EXCEPT !.calls = (desk[d].calls \ {c}) \cup {n}]
    <2>1. desk' = [desk EXCEPT ![d] = g]
      BY <1>1, <1>2, <1>6
    <2>2. /\ g \in Desk!Tab /\ g.at = "page" /\ g.token = desk[d].token
          /\ g.pending = desk[d].pending /\ g.result = desk[d].result
          /\ g.calls = (desk[d].calls \ {c}) \cup {n}
      BY <1>1 DEF Desk!Tab
    <2> HIDE DEF g
    <2> QED
      BY <2>1, <2>2
  <1>9. desk'[d] = t /\ (\A e \in Desks \ {d} : desk'[e] = desk[e]) /\ desk' \in [Desks -> Desk!Tab]
    BY <1>1, <1>8
  <1>10. Desk!TypeOK'
    BY <1>3, <1>5, <1>9 DEF DeskInv, RecordInv, Desk!TypeOK
  <1>11. \A b \in Bookings : Recorded(b) => Recorded(b)'
    BY <1>3, <1>4, <1>5 DEF Recorded
  <1>12. ClaimsRecorded'
    BY <1>3, <1>11 DEF DeskInv, RecordInv, ClaimsRecorded
  <1>13. \A g \in Desk!Tab : TabKnown(g) => /\ TabKnown(g)'
                                            /\ TokenOfPending(g) => TokenOfPending(g)'
    BY <1>4, <1>5, <1>11, KnownStays
  <1>14. CallKnown(n)'
    BY <1>4, <1>5, <1>7 DEF CallKnown
  <1>15. \A e \in Desks : TabKnown(desk[e])'
    <2> SUFFICES ASSUME NEW e \in Desks PROVE TabKnown(desk[e])'
      OBVIOUS
    <2>1. PICK g \in Desk!Tab : g = desk[e] /\ TabKnown(g)
      BY <1>1 DEF DeskInv, RecordInv
    <2>2. TabKnown(g)'
      BY <1>13, <2>1
    <2>3. PICK h \in Desk!Tab : h = desk'[e]
      BY <1>9
    <2>4. /\ h.result = g.result /\ (h.at = "face" => h = g)
          /\ \A f \in h.calls : f \in g.calls \/ f = n
      BY <1>1, <1>8, <1>9, <2>1, <2>3
    <2>5. TabKnown(h)'
      BY <1>14, <2>2, <2>4 DEF TabKnown
    <2> QED
      BY <2>3, <2>5
  <1>17. UnusedOpen'
    BY <1>4, <1>5 DEF DeskInv, RecordInv, UnusedOpen, Desk!Unused
  <1>18. HeldOnce'
    <2> SUFFICES ASSUME NEW e \in Desks, NEW u \in Sessions, Holds(desk'[e], u)
                 PROVE  /\ session'[u].result = "pending" /\ session'[u].booking # None
                        /\ \A g \in Desks : Holds(desk'[g], u) => g = e
      BY DEF HeldOnce, Holds
    <2>1. \A g \in Desks : ~Holds(desk[g], s)
      BY <1>4 DEF DeskInv, RecordInv, HeldOnce
    <2>2. \A v : Holds(t, v) => v = s \/ Holds(desk[d], v)
      BY <1>1, <1>7, <1>8 DEF Holds
    <2>3. \A g \in Desks : Holds(desk'[g], u) => Holds(desk[g], u) \/ (g = d /\ u = s)
      BY <1>9, <2>2
    <2>4. CASE u = s
      BY <1>1, <1>5, <2>1, <2>3, <2>4 DEF Desk!Assumptions
    <2>5. CASE u # s
      BY <1>5, <2>3, <2>5 DEF DeskInv, RecordInv, HeldOnce
    <2> QED
      BY <2>4, <2>5
  <1>19. ASSUME deskMode # "back" PROVE ClaimantInv'
    <2>1. Desk!FaceOfClaimant'
      <3> SUFFICES ASSUME NEW b \in Bookings, claim[b] # None
                   PROVE  session'[claim[b]].booking = b
        BY <1>3 DEF Desk!FaceOfClaimant
      <3>1. session[claim[b]].booking = b /\ claim[b] \in Sessions
        BY <1>19 DEF DeskInv, ClaimantInv, Desk!FaceOfClaimant, RecordInv, Desk!TypeOK
      <3> QED
        BY <1>4, <1>5, <3>1 DEF Desk!Assumptions
    <2>2. ASSUME NEW e \in Desks PROVE TokenOfPending(desk[e])'
      <3>1. PICK g \in Desk!Tab : g = desk[e] /\ TabKnown(g) /\ TokenOfPending(g)
        BY <1>1, <1>19 DEF DeskInv, RecordInv, ClaimantInv
      <3>2. TokenOfPending(g)'
        BY <1>13, <3>1
      <3>3. PICK h \in Desk!Tab : h = desk'[e]
        BY <1>9
      <3>4. /\ h.at = g.at /\ h.token = g.token /\ h.pending = g.pending
            /\ \A f \in h.calls : f \in g.calls \/ f.kind = "start"
        BY <1>1, <1>7, <1>8, <1>9, <3>1, <3>3
      <3>5. TokenOfPending(h)'
        BY <3>2, <3>4 DEF TokenOfPending
      <3> QED
        BY <3>3, <3>5
    <2> QED
      BY <2>1, <2>2 DEF ClaimantInv
  <1>20. ASSUME deskMode # "overlap" PROVE ReleaseInv'
    <2>1. \A e \in Desks \ {d} : desk'[e].calls = {}
      BY <1>9, <1>20, TheOnlyCall
    <2>2. t.calls = {n}
      BY <1>8, <1>20, TheOnlyCall
    <2>3. OneCall'
      BY <1>9, <2>1, <2>2 DEF OneCall
    <2>4. \A e \in Desks : Unreleased(desk[e])'
      BY <1>7, <1>9, <2>1, <2>2 DEF Unreleased
    <2> QED
      BY <1>3, <1>20, <2>3, <2>4 DEF DeskInv, ReleaseInv, OncePaid
  <1> QED
    BY <1>3, <1>10, <1>12, <1>15, <1>17, <1>18, <1>19, <1>20 DEF DeskInv, RecordInv

\* The claim is written: booking, case and record.
LEMMA WrittenKept ==
  ASSUME Desk!Assumptions, DeskInv, NEW d \in Desks, NEW c \in desk[d].calls, Desk!WriteClaim(d, c)
  PROVE  DeskInv'
  <1>1. /\ desk \in [Desks -> Desk!Tab] /\ desk[d] \in Desk!Tab /\ desk[d].at = "page"
        /\ desk[d].calls \subseteq Desk!Calls /\ c \in Desk!Calls /\ TabKnown(desk[d]) /\ CallKnown(c)
        /\ c.booking \in Bookings /\ c.step = "checked"
        /\ deskMode # "back" => TokenOfPending(desk[d])
    BY CallTab DEF Desk!WriteClaim
  <1>2. c.kind = "validate" /\ c.session \in Sessions /\ session[c.session].result = "passed"
    BY <1>1 DEF CallKnown
  <1>3. /\ status \in [Bookings -> {"booked", "claimed", "moved"}]
        /\ claim \in [Bookings -> Sessions \cup {None}]
        /\ status' = [status EXCEPT ![c.booking] = "claimed"]
        /\ claim' = [claim EXCEPT ![c.booking] = c.session]
        /\ UNCHANGED <<session, released, deskOps, deskMode>>
    BY DEF DeskInv, RecordInv, Desk!TypeOK, Desk!WriteClaim
  <1>4. /\ status'[c.booking] = "claimed" /\ claim'[c.booking] = c.session
        /\ \A b \in Bookings \ {c.booking} : status'[b] = status[b] /\ claim'[b] = claim[b]
        /\ status' \in [Bookings -> {"booked", "claimed", "moved"}]
        /\ claim' \in [Bookings -> Sessions \cup {None}]
    BY <1>1, <1>2, <1>3
  <1>5. PICK n \in Desk!Calls : n = [c EXCEPT !.step = "first"]
    BY <1>1 DEF Desk!Calls
  <1>6. n.kind = "validate" /\ n.step = "first" /\ n.booking = c.booking /\ n.session = c.session
    BY <1>1, <1>2, <1>5 DEF Desk!Calls
  <1>7. PICK t \in Desk!Tab :
             /\ t.at = "page" /\ t.token = desk[d].token /\ t.pending = desk[d].pending
             /\ t.result = desk[d].result /\ t.calls = (desk[d].calls \ {c}) \cup {n}
             /\ desk' = [desk EXCEPT ![d] = t]
    <2> DEFINE g == [desk[d] EXCEPT !.calls = (desk[d].calls \ {c}) \cup {n}]
    <2>1. desk' = [desk EXCEPT ![d] = g]
      BY <1>1, <1>5 DEF Desk!WriteClaim, Desk!Becomes
    <2>2. /\ g \in Desk!Tab /\ g.at = "page" /\ g.token = desk[d].token
          /\ g.pending = desk[d].pending /\ g.result = desk[d].result
          /\ g.calls = (desk[d].calls \ {c}) \cup {n}
      BY <1>1 DEF Desk!Tab
    <2> HIDE DEF g
    <2> QED
      BY <2>1, <2>2
  <1>8. desk'[d] = t /\ (\A e \in Desks \ {d} : desk'[e] = desk[e]) /\ desk' \in [Desks -> Desk!Tab]
    BY <1>1, <1>7
  <1>9. Desk!TypeOK'
    BY <1>3, <1>4, <1>8 DEF DeskInv, RecordInv, Desk!TypeOK
  <1>10. Recorded(c.booking)' /\ \A b \in Bookings : Recorded(b) => Recorded(b)'
    BY <1>2, <1>3, <1>4 DEF Recorded
  <1>11. ClaimsRecorded'
    BY <1>4, <1>10 DEF DeskInv, RecordInv, ClaimsRecorded
  <1>12. \A g \in Desk!Tab : TabKnown(g) => TabKnown(g)'
    BY <1>3, <1>10, KnownStays
  <1>13. CallKnown(n)'
    BY <1>2, <1>6, <1>10 DEF CallKnown
  <1>14. \A e \in Desks : TabKnown(desk[e])'
    <2> SUFFICES ASSUME NEW e \in Desks PROVE TabKnown(desk[e])'
      OBVIOUS
    <2>1. PICK g \in Desk!Tab : g = desk[e] /\ TabKnown(g)
      BY <1>1 DEF DeskInv, RecordInv
    <2>2. TabKnown(g)'
      BY <1>12, <2>1
    <2>3. PICK h \in Desk!Tab : h = desk'[e]
      BY <1>8
    <2>4. /\ h.result = g.result /\ (h.at = "face" => h = g)
          /\ \A f \in h.calls : f \in g.calls \/ f = n
      BY <1>1, <1>7, <1>8, <2>1, <2>3
    <2>5. TabKnown(h)'
      BY <1>13, <2>2, <2>4 DEF TabKnown
    <2> QED
      BY <2>3, <2>5
  <1>15. HeldOnce' /\ UnusedOpen'
    <2>1. \A v : Holds(t, v) => Holds(desk[d], v)
      BY <1>1, <1>6, <1>7 DEF Holds
    <2>2. \A g \in Desks, u \in Sessions : Holds(desk'[g], u) => Holds(desk[g], u)
      BY <1>8, <2>1
    <2>3. SUFFICES ASSUME NEW e \in Desks, NEW u \in Sessions, Holds(desk'[e], u)
                   PROVE  /\ session[u].result = "pending" /\ session[u].booking # None
                          /\ \A g \in Desks : Holds(desk'[g], u) => g = e
      BY <1>3 DEF HeldOnce, Holds, DeskInv, RecordInv, UnusedOpen, Desk!Unused
    <2> QED
      BY <2>2, <2>3 DEF DeskInv, RecordInv, HeldOnce
  <1>16. ASSUME deskMode # "back" PROVE ClaimantInv'
    <2>0. session[c.session].booking = c.booking
      BY <1>1, <1>2, <1>16 DEF TokenOfPending
    <2>1. Desk!FaceOfClaimant'
      BY <1>3, <1>4, <1>16, <2>0 DEF DeskInv, ClaimantInv, Desk!FaceOfClaimant
    <2>2. ASSUME NEW e \in Desks PROVE TokenOfPending(desk'[e])
      <3>1. TokenOfPending(desk[e])
        BY <1>16 DEF DeskInv, ClaimantInv
      <3>2. TokenOfPending(t)
        <4>1. TokenOfPending(desk[d])
          BY <1>1, <1>16
        <4> QED
          BY <1>1, <1>6, <1>7, <2>0, <4>1 DEF TokenOfPending
      <3> QED
        BY <1>8, <3>1, <3>2
    <2>3. \A e \in Desks : TokenOfPending(desk[e])'
      BY <1>3, <2>2 DEF TokenOfPending
    <2> QED
      BY <2>1, <2>3 DEF ClaimantInv
  <1>17. ASSUME deskMode # "overlap" PROVE ReleaseInv'
    <2>1. \A e \in Desks \ {d} : desk'[e].calls = {}
      BY <1>8, <1>17, TheOnlyCall
    <2>2. t.calls = {n} /\ status[c.booking] = "booked"
      BY <1>1, <1>7, <1>17, TheOnlyCall DEF Unreleased
    <2>3. OneCall'
      BY <1>8, <2>1, <2>2 DEF OneCall
    <2>4. released[c.booking] = 0
      BY <1>1, <1>17, <2>2 DEF DeskInv, ReleaseInv, OncePaid
    <2>5. \A e \in Desks : Unreleased(desk[e])'
      BY <1>3, <1>6, <1>8, <2>1, <2>2, <2>4 DEF Unreleased
    <2>6. OncePaid'
      BY <1>3, <1>4, <1>17 DEF DeskInv, ReleaseInv, OncePaid
    <2> QED
      BY <2>3, <2>5, <2>6 DEF ReleaseInv
  <1> QED
    BY <1>3, <1>9, <1>11, <1>14, <1>15, <1>16, <1>17 DEF DeskInv, RecordInv

\* A booking that is moved was not claimed, and nobody asks about it.
LEMMA RebookedKept ==
  ASSUME Desk!Assumptions, DeskInv, NEW b \in Bookings, Desk!Rebook(b)
  PROVE  DeskInv'
  <1>1. /\ status[b] = "booked" /\ status' = [status EXCEPT ![b] = "moved"]
        /\ deskOps' \in 0 .. DeskMaxOps[deskMode] /\ UNCHANGED <<claim, session, desk, released, deskMode>>
        /\ \A d \in Desks : desk[d].calls = {}
    BY Counted DEF Desk!Rebook
  <1>2. /\ status \in [Bookings -> {"booked", "claimed", "moved"}]
        /\ status' \in [Bookings -> {"booked", "claimed", "moved"}] /\ status'[b] = "moved"
        /\ \A a \in Bookings \ {b} : status'[a] = status[a]
    BY <1>1 DEF DeskInv, RecordInv, Desk!TypeOK
  <1>3. Desk!TypeOK'
    BY <1>1, <1>2 DEF DeskInv, RecordInv, Desk!TypeOK
  <1>4. \A a \in Bookings : Recorded(a) => Recorded(a)'
    BY <1>1, <1>2 DEF Recorded
  <1>5. ClaimsRecorded'
    BY <1>1, <1>2, <1>4 DEF DeskInv, RecordInv, ClaimsRecorded
  <1>6. \A d \in Desks : TabKnown(desk[d])'
    <2> SUFFICES ASSUME NEW d \in Desks PROVE TabKnown(desk[d])'
      OBVIOUS
    <2>1. PICK g \in Desk!Tab : g = desk[d] /\ TabKnown(g)
      BY DeskTyped
    <2>2. TabKnown(g)'
      BY <1>1, <1>4, <2>1, KnownStays
    <2> QED
      BY <1>1, <2>1, <2>2
  <1>7. HeldOnce' /\ UnusedOpen'
    BY <1>1 DEF DeskInv, RecordInv, HeldOnce, Holds, UnusedOpen, Desk!Unused
  <1>8. deskMode # "back" => ClaimantInv'
    BY <1>1 DEF DeskInv, ClaimantInv, Desk!FaceOfClaimant, TokenOfPending
  <1>9. deskMode # "overlap" => ReleaseInv'
    BY <1>1, <1>2 DEF DeskInv, ReleaseInv, OneCall, Unreleased, OncePaid
  <1> QED
    BY <1>1, <1>3, <1>5, <1>6, <1>7, <1>8, <1>9 DEF DeskInv, RecordInv

----------------------------------------------------------------------------
(* The answers *)

LEMMA ArrivedKept ==
  ASSUME Desk!Assumptions, DeskInv, NEW d \in Desks, NEW c \in desk[d].calls,
         Desk!Failed(d, c) \/ Desk!Previewed(d, c) \/ Desk!Started(d, c) \/ Desk!Finished(d, c)
  PROVE  DeskInv'
  <1>1. /\ desk \in [Desks -> Desk!Tab] /\ desk[d] \in Desk!Tab /\ desk[d].at = "page"
        /\ desk[d].calls \subseteq Desk!Calls /\ c \in Desk!Calls /\ TabKnown(desk[d]) /\ CallKnown(c)
        /\ c.booking \in Bookings
        /\ c.session \in Sessions \cup {None}
        /\ deskMode # "back" => TokenOfPending(desk[d])
        /\ deskOps \in 0 .. DeskMaxOps[deskMode]
    BY CallTab
  <1>2. UNCHANGED <<Desk!Server, deskOps, deskMode>>
    BY DEF Desk!Failed, Desk!Previewed, Desk!Started, Desk!Finished
  <1>3. deskMode # "overlap" => /\ desk[d].calls = {c}
                                /\ \A e \in Desks \ {d} : desk[e].calls = {}
                                /\ Unreleased(desk[d])
    BY TheOnlyCall
  \* a page without the request, and perhaps with a card or without its claim
  <1>4. ASSUME NEW t \in Desk!Tab, desk' = [desk EXCEPT ![d] = t],
               t.at = "page", t.calls = desk[d].calls \ {c},
               t.token \in {desk[d].token, None}, t.pending \in {desk[d].pending, None},
               t.result # None => t.result = desk[d].result \/ Recorded(t.result.booking)
        PROVE  /\ TabKnown(t) /\ \A s \in Sessions : Holds(t, s) => Holds(desk[d], s)
               /\ deskMode # "back" => TokenOfPending(t)
               /\ deskMode # "overlap" => t.calls = {}
    <2>1. TabKnown(t)
      BY <1>1, <1>4 DEF TabKnown
    <2>2. \A s \in Sessions : Holds(t, s) => Holds(desk[d], s)
      BY <1>4 DEF Holds
    <2>3. deskMode # "back" => TokenOfPending(t)
      BY <1>1, <1>4 DEF TokenOfPending
    <2>4. deskMode # "overlap" => t.calls = {}
      BY <1>3, <1>4
    <2> QED
      BY <2>1, <2>2, <2>3, <2>4
  \* without anything being released
  <1>5. ASSUME NEW t \in Desk!Tab, desk' = [desk EXCEPT ![d] = t], released' = released,
               t.at = "page", t.calls = desk[d].calls \ {c},
               t.token \in {desk[d].token, None}, t.pending \in {desk[d].pending, None},
               t.result # None => t.result = desk[d].result \/ Recorded(t.result.booking)
        PROVE  DeskInv'
    <2>1. deskMode # "overlap" => Unreleased(t)
      BY <1>4, <1>5 DEF Unreleased
    <2> QED
      BY <1>1, <1>2, <1>3, <1>4, <1>5, <2>1, TabChanges
  <1>6. CASE Desk!Failed(d, c)
    <2> DEFINE t == Desk!Without(d, c)
    <2>1. /\ t \in Desk!Tab /\ t.at = "page" /\ t.calls = desk[d].calls \ {c}
          /\ t.token = desk[d].token /\ t.pending = desk[d].pending
          /\ t.result = desk[d].result
      BY <1>1 DEF Desk!Without, Desk!Tab
    <2>2. desk' = [desk EXCEPT ![d] = t] /\ released' = released
      BY <1>6 DEF Desk!Failed
    <2> HIDE DEF t
    <2> QED
      BY <1>5, <2>1, <2>2
  \* the card of a claim that was done before
  <1>7. ASSUME c.step = "done", released' = released,
               desk' = [desk EXCEPT ![d] =
                           [Desk!Without(d, c) EXCEPT !.result = Desk!Card(c.booking, FALSE)]]
        PROVE  DeskInv'
    <2> DEFINE t == [Desk!Without(d, c) EXCEPT !.result = Desk!Card(c.booking, FALSE)]
    <2>1. Desk!Card(c.booking, FALSE) \in Desk!Cards /\ Desk!Card(c.booking, FALSE).booking = c.booking
      BY <1>1 DEF Desk!Card, Desk!Cards
    <2>2. /\ t \in Desk!Tab /\ t.at = "page" /\ t.calls = desk[d].calls \ {c}
          /\ t.token = desk[d].token /\ t.pending = desk[d].pending
          /\ t.result = Desk!Card(c.booking, FALSE)
      BY <1>1, <2>1 DEF Desk!Without, Desk!Tab
    <2>3. Recorded(c.booking)
      BY <1>1, <1>7 DEF CallKnown
    <2> HIDE DEF t
    <2> QED
      BY <1>5, <1>7, <2>1, <2>2, <2>3 DEF t
  <1>8. CASE Desk!Previewed(d, c)
    <2>1. CASE c.step = "done"
      BY <1>7, <1>8, <2>1 DEF Desk!Previewed
    <2>2. CASE c.step = "ready"
      <3> DEFINE t == [Desk!Without(d, c) EXCEPT !.preview = c.booking]
      <3>1. /\ t \in Desk!Tab /\ t.at = "page" /\ t.calls = desk[d].calls \ {c}
            /\ t.token = desk[d].token /\ t.pending = desk[d].pending
            /\ t.result = desk[d].result
        BY <1>1 DEF Desk!Without, Desk!Tab
      <3>2. desk' = [desk EXCEPT ![d] = t] /\ released' = released
        BY <1>8, <2>2 DEF Desk!Previewed
      <3> HIDE DEF t
      <3> QED
        BY <1>5, <3>1, <3>2
    <2> QED
      BY <1>8, <2>1, <2>2 DEF Desk!Previewed
  <1>9. CASE Desk!Started(d, c)
    <2>1. CASE c.step = "done"
      BY <1>7, <1>9, <2>1 DEF Desk!Started
    <2>2. CASE c.step = "ready"
      <3>1. /\ c.kind = "start" /\ c.session \in Sessions
            /\ session[c.session].booking = c.booking /\ Holds(desk[d], c.session)
        BY <1>1, <1>9, <2>2 DEF Desk!Started, CallKnown, Holds
      <3> DEFINE t == [Desk!EmptyPage EXCEPT !.at = "face", !.face = c.session,
                                        !.back = desk[d].token, !.pending = c.booking]
      <3>2. desk[d].token \in Sessions \cup {None}
        BY <1>1, TabFacts
      <3>3. /\ t \in Desk!Tab /\ t.at = "face" /\ t.calls = {} /\ t.face = c.session
            /\ t.pending = c.booking /\ t.result = None
        BY <1>1, <3>1, <3>2 DEF Desk!EmptyPage, Desk!Tab
      <3>4. desk' = [desk EXCEPT ![d] = t] /\ released' = released
        BY <1>9, <2>2 DEF Desk!Started
      <3> HIDE DEF t
      <3>5. TabKnown(t) /\ Unreleased(t) /\ TokenOfPending(t)
            /\ \A s \in Sessions : Holds(t, s) => Holds(desk[d], s)
        BY <1>1, <3>1, <3>3 DEF TabKnown, Unreleased, TokenOfPending, Holds
      <3> QED
        BY <1>1, <1>2, <1>3, <3>3, <3>4, <3>5, TabChanges
    <2> QED
      BY <1>9, <2>1, <2>2 DEF Desk!Started
  <1>10. CASE Desk!Finished(d, c)
    <2> DEFINE card == Desk!Card(c.booking, c.step = "first")
    <2>1. card \in Desk!Cards /\ card.booking = c.booking
      BY <1>1 DEF Desk!Card, Desk!Cards
    <2>2. Recorded(c.booking)
      BY <1>1, <1>10 DEF CallKnown, Desk!Finished
    <2>3. PICK t \in Desk!Tab :
               /\ desk' = [desk EXCEPT ![d] = t] /\ t.at = "page"
               /\ t.calls = desk[d].calls \ {c} /\ t.token = None /\ t.pending = None
               /\ t.result = card
      <3> DEFINE g == [Desk!Without(d, c) EXCEPT !.result = card, !.pending = None,
                         !.preview = None, !.field = None, !.token = None]
      <3>1. desk' = [desk EXCEPT ![d] = g]
        BY <1>10 DEF Desk!Finished
      <3> HIDE DEF card
      <3>2. /\ g \in Desk!Tab /\ g.at = "page" /\ g.calls = desk[d].calls \ {c}
            /\ g.token = None /\ g.pending = None /\ g.result = card
        BY <1>1, <2>1 DEF Desk!Without, Desk!Tab
      <3> HIDE DEF g
      <3> QED
        BY <3>1, <3>2
    <2> HIDE DEF card
    <2>4. /\ TabKnown(t) /\ \A s \in Sessions : Holds(t, s) => Holds(desk[d], s)
          /\ deskMode # "back" => TokenOfPending(t)
          /\ deskMode # "overlap" => t.calls = {}
      BY <1>4, <2>1, <2>2, <2>3
    <2>5. /\ released \in [Bookings -> Nat]
          /\ released' = [released EXCEPT ![c.booking] =
                             IF c.step = "first" THEN released[c.booking] + 1
                             ELSE released[c.booking]]
      BY <1>10 DEF Desk!Finished, DeskInv, RecordInv, Desk!TypeOK
    <2>6. /\ released' \in [Bookings -> Nat]
          /\ released'[c.booking] = (IF c.step = "first" THEN released[c.booking] + 1
                                     ELSE released[c.booking])
          /\ \A b \in Bookings \ {c.booking} : released'[b] = released[b]
      BY <1>1, <2>5
    <2>7. ASSUME deskMode # "overlap" PROVE OncePaid'
      <3>1. c.step = "first" => released[c.booking] = 0
        BY <1>3, <2>7 DEF Unreleased
      <3>2. status[c.booking] = "claimed" /\ status' = status
        BY <1>2, <2>2 DEF Recorded, Desk!Server
      <3> QED
        BY <2>6, <2>7, <3>1, <3>2 DEF DeskInv, ReleaseInv, OncePaid
    <2>8. deskMode # "overlap" => Unreleased(t)'
      BY <2>4 DEF Unreleased
    <2> QED
      BY <1>1, <1>2, <1>3, <2>3, <2>4, <2>6, <2>7, <2>8, TabMoves
  <1> QED
    BY <1>6, <1>8, <1>9, <1>10

----------------------------------------------------------------------------
(* The theorems *)

LEMMA DeskStep == ASSUME Desk!Assumptions, DeskInv, [Desk!Next]_(Desk!vars) PROVE DeskInv'
  <1>1. CASE UNCHANGED Desk!vars
    <2> USE <1>1 DEF Desk!vars
    <2>1. Desk!TypeOK' /\ ClaimsRecorded' /\ HeldOnce' /\ UnusedOpen'
      BY DEF DeskInv, RecordInv, Desk!TypeOK, ClaimsRecorded, Recorded, HeldOnce, Holds,
         UnusedOpen, Desk!Unused
    <2>2. \A d \in Desks : TabKnown(desk[d])'
      BY DEF DeskInv, RecordInv, TabKnown, CallKnown, Recorded
    <2>3. deskMode # "back" => ClaimantInv'
      BY DEF DeskInv, ClaimantInv, Desk!FaceOfClaimant, TokenOfPending
    <2>4. deskMode # "overlap" => ReleaseInv'
      BY DEF DeskInv, ReleaseInv, OneCall, OncePaid, Unreleased
    <2> QED
      BY <2>1, <2>2, <2>3, <2>4 DEF DeskInv, RecordInv
  <1>2. ASSUME NEW d \in Desks, NEW c \in desk[d].calls, Desk!StartSession(d, c) PROVE DeskInv'
    BY <1>2, AnsweredKept, StartedKept
  <1> QED
    BY <1>1, <1>2, PageKept, FaceDoneKept, AnsweredKept, WrittenKept, RebookedKept,
       ArrivedKept
       DEF Desk!Next

LEMMA DeskInit == ASSUME Desk!Assumptions, Desk!Init PROVE DeskInv
  <1>1. Desk!EmptyPage \in Desk!Tab /\ Desk!EmptyPage.at = "page" /\ Desk!EmptyPage.calls = {}
        /\ Desk!EmptyPage.token = None /\ Desk!EmptyPage.result = None
    BY DEF Desk!EmptyPage, Desk!Tab
  <1>2. \A d \in Desks : desk[d] = Desk!EmptyPage
    BY DEF Desk!Init
  <1>3. 0 \in 0 .. DeskMaxOps[deskMode]
    BY DEF Desk!Init, Desk!Assumptions
  <1>4. Desk!TypeOK
    BY <1>1, <1>3 DEF Desk!Init, Desk!TypeOK
  <1>5. ClaimsRecorded /\ UnusedOpen
    BY DEF Desk!Init, ClaimsRecorded, UnusedOpen, Desk!Unused
  <1>6. HeldOnce /\ \A d \in Desks : TabKnown(desk[d])
    BY <1>1, <1>2 DEF HeldOnce, Holds, TabKnown
  <1>7. ClaimantInv
    BY <1>1, <1>2 DEF Desk!Init, ClaimantInv, Desk!FaceOfClaimant, TokenOfPending
  <1>8. ReleaseInv
    BY <1>1, <1>2 DEF Desk!Init, ReleaseInv, OneCall, OncePaid, Unreleased
  <1> QED
    BY <1>4, <1>5, <1>6, <1>7, <1>8 DEF DeskInv, RecordInv

\* The tabs of the cash windows and the server's rows stay as DeskInv describes
\* them, whatever is lost, reloaded or left (validate-client.tsx).
THEOREM DeskHolds == ASSUME Desk!Assumptions PROVE Desk!Spec => []DeskInv
  BY DeskInit, DeskStep, PTL DEF Desk!Spec

\* The server's rows, the tabs and the requests of the cash windows are well
\* formed, whatever is lost, reloaded or left backwards (validate-client.tsx).
THEOREM DeskTypeCorrect == ASSUME Desk!Assumptions PROVE Desk!Spec => []Desk!TypeOK
  <1>1. DeskInv => Desk!TypeOK
    BY DEF DeskInv, RecordInv
  <1> QED
    BY <1>1, DeskHolds, PTL

\* What a cash window shows as claimed is on record with a face check that was
\* passed; unless requests overlap one window at most is told to release the
\* cash; and unless staff leave a face check with the back button, the check on
\* record is the claimant's (validateDisbursementClaim, finish).
THEOREM DeskSoundHolds == ASSUME Desk!Assumptions PROVE Desk!Spec => []DeskSound
  <1>1. ASSUME DeskInv PROVE Desk!DeskSound
    <2>1. ASSUME NEW d \in Desks, desk[d].result # None
          PROVE  LET b == desk[d].result.booking
                 IN  /\ status[b] = "claimed" /\ claim[b] # None
                     /\ session[claim[b]].result = "passed"
      BY <1>1, <2>1 DEF DeskInv, RecordInv, TabKnown, Recorded, Desk!Assumptions
    <2>2. Desk!ShownIsRecorded
      BY <2>1 DEF Desk!ShownIsRecorded
    <2>3. Desk!ReleasedOnce
      BY <1>1 DEF DeskInv, RecordInv, Desk!TypeOK, ReleaseInv, OncePaid, Desk!ReleasedOnce
    <2> QED
      BY <1>1, <2>2, <2>3 DEF DeskInv, ClaimantInv, Desk!DeskSound
  <1> QED
    BY <1>1, DeskHolds, PTL DEF DeskSound

----------------------------------------------------------------------------
(* The parts together *)

\* In the beginning every part is in its own beginning.
LEMMA ServicesStart ==
  ASSUME ServicesInit
  PROVE  Init /\ Setup!Init /\ Ai!Init /\ Reports!Init /\ Desk!Init
BY DEF ServicesInit

\* The parts that stand still stutter.
LEMMA ServicesStep ==
  ASSUME [ServicesNext]_servicesVars
  PROVE  /\ [Next]_vars
         /\ [Setup!Next]_(Setup!vars)
         /\ [Ai!Next]_(Ai!vars)
         /\ [Reports!Next]_(Reports!vars)
         /\ [Desk!Next]_(Desk!vars)
BY DEF ServicesNext, servicesVars, vars, setup, assistant, reports, desks, portal,
       Setup!vars, Ai!vars, Reports!vars, Desk!vars

\* Each part of a behaviour is a behaviour of the part.
LEMMA PartsBehave ==
  ServicesSpec => /\ Spec /\ Setup!Spec /\ Ai!Spec /\ Reports!Spec /\ Desk!Spec
<1> QED  BY ServicesStart, ServicesStep, PTL
            DEF ServicesSpec, Spec, Setup!Spec, Ai!Spec, Reports!Spec, Desk!Spec

\* A behaviour is that of one part; nobody opens the portal in another's.
LEMMA PortalPart ==
  ASSUME ServicesAssumptions
  PROVE  ServicesSpec => [](part \in Parts /\ (part = "portal" => PortalInv))
<1> DEFINE I == part \in Parts /\ (part = "portal" => PortalInv)
<1>1. Portal!Assumptions
  BY DEF ServicesAssumptions
<1>2. ServicesInit => I
  BY <1>1, PortalInit DEF ServicesInit
<1>3. ASSUME I, [ServicesNext]_servicesVars PROVE I'
  <2>1. part' = part /\ (part = "portal" => [Portal!Next]_(Portal!vars))
    BY <1>3 DEF ServicesNext, servicesVars, portal, Portal!vars
  <2> QED BY <1>1, <1>3, <2>1, PortalStep
<1> QED BY <1>2, <1>3, PTL DEF ServicesSpec

\* No token the platform presents to eReport or to the eGov AI is one the
\* service finds expired, with everything else going on besides: the caches
\* stay valid and the retry after a refusal gets a new one (ereport.service.ts,
\* egov-ai.service.ts).
THEOREM TokensAcceptedHolds ==
  ASSUME ServicesAssumptions
  PROVE  ServicesSpec => []TokensAccepted
<1>1. Ai!Assumptions /\ Reports!Assumptions
  BY DEF ServicesAssumptions
<1>2. (Ai!Spec => []Ai!TokensAccepted) /\ (Reports!Spec => []Reports!TokensAccepted)
  BY <1>1, AiTokensAcceptedHolds, ReportTokensAccepted
<1> QED  BY <1>2, PartsBehave, PTL DEF TokensAccepted

\* What the runs check of the parts that are proved about, for the platform as
\* a whole: a program's settings, the engine of its open cases, the links of a
\* family, the reports, the assistant's answers and the cash windows.
THEOREM ServicesSound ==
  ASSUME ServicesAssumptions
  PROVE  ServicesSpec => [](/\ LinksSound /\ SettingsKept /\ EngineServesCases
                            /\ ReportsTrackable /\ ToldWasTrue /\ DeskSound)
<1>1. Setup!Assumptions /\ Ai!Assumptions /\ Reports!Assumptions /\ Desk!Assumptions
  BY DEF ServicesAssumptions
<1>2. /\ Spec => []LinksSound
      /\ Setup!Spec => [](SettingsKept /\ EngineServesCases)
  BY <1>1, LinksSoundHolds, SettingsKeptHolds, EngineServesCasesHolds, PTL
<1>3. /\ Reports!Spec => []ReportsTrackable
      /\ Ai!Spec => []ToldWasTrue
      /\ Desk!Spec => []DeskSound
  BY <1>1, ReportsTrackableHolds, ToldWasTrueHolds, DeskSoundHolds
<1> QED  BY <1>2, <1>3, PartsBehave, PTL

\* Whatever is built meanwhile and in however many tabs, an application of the
\* portal is at a step its pinned version has, of the kind its status says;
\* what was approved passed every face check, was approved at every review step
\* and checked off on the answers that stand, and is paid once (engine.ts,
\* store.tsx).
THEOREM PinnedVersionHolds ==
  ASSUME ServicesAssumptions
  PROVE  ServicesSpec => []PinnedVersionGoverns
<1>1. Portal!Assumptions
  BY DEF ServicesAssumptions
<1>2. (part = "portal" => PortalInv) => PinnedVersionGoverns
  BY <1>1, SoundAtAStep, SoundApproved DEF PinnedVersionGoverns
<1> QED BY <1>2, PortalPart, PTL

\* The rows, the tabs and the requests of every part are well formed in every
\* behaviour.
THEOREM ServicesTyped ==
  ASSUME ServicesAssumptions
  PROVE  ServicesSpec => []AllTypesOK
<1>1. Setup!Assumptions /\ Ai!Assumptions /\ Reports!Assumptions /\ Desk!Assumptions
  BY DEF ServicesAssumptions
<1>2. PortalInv => Portal!TypeOK
  BY PortalTyped
<1>3. /\ Spec => []TypeOK
      /\ Setup!Spec => []Setup!TypeOK
      /\ Ai!Spec => []Ai!TypeOK
      /\ Reports!Spec => []Reports!TypeOK
      /\ Desk!Spec => []Desk!TypeOK
  BY <1>1, TypeCorrect, SetupTypeCorrect, AiTypeCorrect, ReportTypeCorrect, DeskTypeCorrect
<1>4. /\ part \in Parts /\ (part = "portal" => PortalInv)
      /\ TypeOK /\ Setup!TypeOK /\ Ai!TypeOK /\ Reports!TypeOK /\ Desk!TypeOK
      => AllTypesOK
  BY <1>2 DEF Parts, AllTypesOK
<1> QED BY <1>3, <1>4, PortalPart, PartsBehave, PTL

=============================================================================
