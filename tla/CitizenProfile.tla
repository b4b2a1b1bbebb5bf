--------------------------- MODULE CitizenProfile ---------------------------
(***************************************************************************)
(* The account and the profile of a citizen, and everybody who writes      *)
(* them: the SSO exchange, the password login, the first-time enrolment    *)
(* with eVerify (auth.service.ts) and the profile changes an office        *)
(* decides (office-ops.service.ts).  One action per awaited call.  A       *)
(* repository.save(entity) writes every column in which the entity differs *)
(* from the row, so an entity read earlier puts old values back.           *)
(*                                                                         *)
(* A citizen stands for the uniqid and for the e-mail address eGov knows   *)
(* him by.  `contact' stands for the phone and the address, which all      *)
(* writers treat alike.                                                    *)
(***************************************************************************)
EXTENDS Naturals, FiniteSets

CONSTANTS
    Citizens,   \* people with an eGov identity
    Fixtures,   \* the citizens of the mock SSO, whom the login enrols
    Accounts,   \* ids for user_accounts and their beneficiaries
    Changes,    \* ids for profile_change_requests
    Requests,   \* requests in flight
    Endpoints,  \* the endpoints that are called
    MaxCalls,   \* bound: how many requests a citizen or his office makes
    Modes,      \* "alone", "overlap" and "crash", see CanBegin and Drop
    None

VARIABLES
    accounts,   \* user_accounts with their beneficiaries row, None if absent
    changes,    \* profile_change_requests, None if absent
    tokens,     \* the pending-login tokens issued: <<citizen, account>>
    applied,    \* history: the changes the office wrote into a profile
    pc,         \* the next awaited call of a request
    call,       \* what the request holds in memory
    calls,      \* how many requests were made about a citizen
    mode        \* how requests meet in this behaviour

vars == <<accounts, changes, tokens, applied, pc, call, calls, mode>>

Contacts == {"sso", "everify", "office"}

Row == [email : Citizens \cup {None}, uniqid : Citizens \cup {None},
        contact : Contacts \cup {None}, locked : BOOLEAN, enrolled : BOOLEAN,
        password : BOOLEAN, role : BOOLEAN]

Change == [account : Accounts, state : {"pending", "approved", "rejected"},
           documents : BOOLEAN]

\* what is assumed of the constants; a null is neither an id nor a row
Assumptions ==
    /\ Citizens # {} /\ Fixtures \subseteq Citizens
    /\ None \notin Citizens \cup Accounts \cup Changes \cup Contacts
    /\ None \notin Row \cup Change
    /\ MaxCalls \in [Citizens -> Nat]
    /\ Modes \subseteq {"alone", "overlap", "crash"}

\* endpoint, citizen it is about, account and entity found, the change to
\* decide and the verdict, and the contact and e-mail the provider answered
Call == [endpoint : {"exchange", "login", "enrol", "file", "decide"},
         citizen : Citizens, account : Accounts \cup {None},
         entity : Row \cup {None}, change : Changes \cup {None},
         approve : BOOLEAN, contact : Contacts \cup {None}, mail : BOOLEAN]

Labels == {"idle", "find", "insert", "role", "query", "save", "saveUser",
           "issue", "documents", "apply", "verdict"}

----------------------------------------------------------------------------
(* Rows and who they belong to *)

Made == {x \in Accounts : accounts[x] # None}

\* the accounts findByEgovUniqid and findByEmail can return
WithUniqid(c) == {x \in Made : accounts[x].uniqid = c}
WithEmail(c) == {x \in Made : accounts[x].email = c}

\* UNIQUE (email) on user_accounts and UNIQUE (egov_uniqid) on beneficiaries
EmailTaken(x, c) == c # None /\ WithEmail(c) \ {x} # {}
UniqidTaken(x, c) == c # None /\ WithUniqid(c) \ {x} # {}

\* the accounts of a citizen, however they are found
AccountsOf(c) == WithUniqid(c) \cup WithEmail(c)

Busy == {r \in Requests : pc[r] # "idle"}

Idle == [endpoint |-> "exchange", citizen |-> CHOOSE c \in Citizens : TRUE,
         account |-> None, entity |-> None, change |-> None,
         approve |-> FALSE, contact |-> None, mail |-> FALSE]

\* Two requests about one citizen overlap in the mode "overlap" only.
CanBegin(r, e, c) ==
    /\ pc[r] = "idle"
    /\ e \in Endpoints
    /\ calls[c] < MaxCalls[c]
    /\ mode # "overlap" => \A q \in Busy : call[q].citizen # c

Begin(r, e, c, label, held) ==
    /\ CanBegin(r, e, c)
    /\ pc' = [pc EXCEPT ![r] = label]
    /\ call' = [call EXCEPT ![r] = held]
    /\ calls' = [calls EXCEPT ![c] = @ + 1]
    /\ UNCHANGED <<accounts, changes, tokens, applied, mode>>

Goto(r, label) == pc' = [pc EXCEPT ![r] = label]

\* the answer, or an exception: nothing is written
Answer(r) ==
    /\ Goto(r, "idle")
    /\ call' = [call EXCEPT ![r] = Idle]
    /\ UNCHANGED <<accounts, changes, tokens, applied, calls, mode>>

----------------------------------------------------------------------------
(* The SSO exchange and the password login *)

\* The provider answered with the profile; the profile need not carry an
\* e-mail address or a phone number.
BeginExchange(r, c) ==
    \E mail \in BOOLEAN, contact \in {None, "sso"} :
        Begin(r, "exchange", c, "find",
              [Idle EXCEPT !.citizen = c, !.mail = mail, !.contact = contact])

\* The password login knows the e-mail address only.
BeginLogin(r, c) ==
    Begin(r, "login", c, "find",
          [Idle EXCEPT !.endpoint = "login", !.citizen = c, !.mail = TRUE])

\* findByEgovUniqid, then findByEmail
Found(r) ==
    LET c == call[r].citizen IN
    CASE call[r].endpoint = "exchange" /\ WithUniqid(c) # {} -> WithUniqid(c)
      [] call[r].mail /\ (call[r].endpoint = "login" \/ WithUniqid(c) = {}) ->
            WithEmail(c)
      [] OTHER -> {}

\* The login compares the password of an account that has one, and sets the
\* password of one that has none.
FindAccount(r) ==
    /\ pc[r] = "find"
    /\ \/ /\ Found(r) = {}
          /\ Goto(r, "insert")
          /\ UNCHANGED <<accounts, changes, tokens, applied, call, calls, mode>>
       \/ \E x \in Found(r) :
          LET login == call[r].endpoint = "login" IN
          IF login /\ accounts[x].password
          THEN Answer(r)
          ELSE /\ call' = [call EXCEPT
                     ![r].account = x,
                     ![r].entity = [accounts[x] EXCEPT !.password = @ \/ login]]
               /\ Goto(r, IF login THEN "saveUser" ELSE "save")
               /\ UNCHANGED <<accounts, changes, tokens, applied, calls, mode>>

\* The row of the SSO exchange has the default profile_locked = true, the
\* password login creates it unlocked.  UNIQUE (email) refuses a second one.
InsertAccount(r) ==
    LET c == call[r].citizen IN
    /\ pc[r] = "insert"
    /\ IF call[r].mail /\ WithEmail(c) # {}
       THEN Answer(r)
       ELSE \E x \in Accounts \ Made :
            /\ accounts' = [accounts EXCEPT ![x] =
                  [email |-> IF call[r].mail THEN c ELSE None, uniqid |-> None,
                   contact |-> None, locked |-> call[r].endpoint = "exchange",
                   enrolled |-> FALSE, password |-> call[r].endpoint = "login",
                   role |-> FALSE]]
            /\ call' = [call EXCEPT ![r].account = x]
            /\ Goto(r, "role")
            /\ UNCHANGED <<changes, tokens, applied, calls, mode>>

\* assignRole, then findById reads the new account again.
AssignRole(r) ==
    LET x == call[r].account
        row == [accounts[x] EXCEPT !.role = TRUE] IN
    /\ pc[r] = "role"
    /\ accounts' = [accounts EXCEPT ![x] = row]
    /\ call' = [call EXCEPT ![r].entity = row]
    /\ Goto(r, IF call[r].endpoint = "login" THEN "issue" ELSE "save")
    /\ UNCHANGED <<changes, tokens, applied, calls, mode>>

\* The fault: the profile is merged as if it were never locked.
MergeUnlocked(row, incoming) ==
    IF incoming = None THEN row.contact ELSE incoming

\* The fault: a new contact is kept beside the old one, in one column.
MergeBoth(row, incoming) ==
    IF incoming = None THEN row.contact ELSE {row.contact, incoming}

\* `merge' of applySsoProfile: a locked profile only has its blanks filled.
Merge(row, incoming) ==
    IF incoming = None \/ (row.locked /\ row.contact # None)
    THEN row.contact ELSE incoming

\* The fault: every exchange states anew whether the citizen is enrolled.
ApplySsoProfileAnew(row, c, contact) ==
    [row EXCEPT !.uniqid = c, !.contact = Merge(row, contact), !.locked = TRUE,
                !.enrolled = c \in Fixtures]

ApplySsoProfile(row, c, contact) ==
    [row EXCEPT !.uniqid = c, !.contact = Merge(row, contact), !.locked = TRUE,
                !.enrolled = @ \/ c \in Fixtures]

\* A save writes the whole entity but the role, which has a table of its own.
Saved(x, entity) == [entity EXCEPT !.role = accounts[x].role]

\* beneficiaries.save: UNIQUE (egov_uniqid) refuses a second account.
SaveProfile(r) ==
    LET x == call[r].account
        entity == IF call[r].endpoint = "exchange"
                  THEN ApplySsoProfile(call[r].entity, call[r].citizen,
                                       call[r].contact)
                  ELSE call[r].entity
        written == [Saved(x, entity) EXCEPT !.email = accounts[x].email,
                       !.password = accounts[x].password] IN
    /\ pc[r] = "save"
    /\ IF UniqidTaken(x, entity.uniqid)
       THEN Answer(r)
       ELSE /\ accounts' = [accounts EXCEPT ![x] = written]
            /\ call' = [call EXCEPT ![r].entity = entity]
            /\ Goto(r, "saveUser")
            /\ UNCHANGED <<changes, tokens, applied, calls, mode>>

\* users.save cascades to the beneficiary, so the entity is written again.
SaveUser(r) ==
    LET x == call[r].account
        entity == IF call[r].mail
                  THEN [call[r].entity EXCEPT !.email = call[r].citizen]
                  ELSE call[r].entity IN
    /\ pc[r] = "saveUser"
    /\ IF EmailTaken(x, entity.email) \/ UniqidTaken(x, entity.uniqid)
       THEN Answer(r)
       ELSE /\ accounts' = [accounts EXCEPT ![x] = Saved(x, entity)]
            /\ Goto(r, "issue")
            /\ UNCHANGED <<changes, tokens, applied, call, calls, mode>>

\* issuePendingLoginToken after an exchange, issueTokens otherwise
Issue(r) ==
    /\ pc[r] = "issue"
    /\ tokens' = IF call[r].endpoint = "exchange"
                 THEN tokens \cup {<<call[r].citizen, call[r].account>>}
                 ELSE tokens
    /\ Goto(r, "idle")
    /\ call' = [call EXCEPT ![r] = Idle]
    /\ UNCHANGED <<accounts, changes, applied, calls, mode>>

----------------------------------------------------------------------------
(* The first-time enrolment *)

\* firstTimeEverify reads the account before it asks the two providers.
BeginEnrol(r, c) ==
    \E x \in AccountsOf(c) :
        Begin(r, "enrol", c, "query",
              [Idle EXCEPT !.endpoint = "enrol", !.citizen = c,
                           !.account = x, !.entity = accounts[x]])

\* A contact the office approved, or any contact of a locked profile, stays.
Enrolled(row, contact) ==
    [row EXCEPT !.enrolled = TRUE,
                !.contact = IF (~row.locked \/ @ = None) /\ contact # None
                            THEN contact ELSE @]

QueryIdentity(r) ==
    /\ pc[r] = "query"
    /\ \/ Answer(r)    \* the face or the identity does not match
       \/ \E contact \in {None, "everify"}, mail \in BOOLEAN :
          /\ call' = [call EXCEPT ![r].entity = Enrolled(@, contact),
                        ![r].mail = mail /\ WithEmail(call[r].citizen) = {}]
          /\ Goto(r, "save")
          /\ UNCHANGED <<accounts, changes, tokens, applied, calls, mode>>

----------------------------------------------------------------------------
(* Profile changes *)

\* requestProfileChange: the partial unique index admits one pending request.
BeginFile(r, c) ==
    \E x \in AccountsOf(c) :
    \E n \in {m \in Changes : changes[m] = None} :
        /\ accounts[x].role
        /\ ~\E m \in Changes : /\ changes[m] # None
                               /\ changes[m].account = x
                               /\ changes[m].state = "pending"
        /\ CanBegin(r, "file", c)
        /\ changes' = [changes EXCEPT ![n] =
              [account |-> x, state |-> "pending", documents |-> FALSE]]
        /\ call' = [call EXCEPT ![r] = [Idle EXCEPT !.endpoint = "file",
                      !.citizen = c, !.account = x, !.change = n]]
        /\ calls' = [calls EXCEPT ![c] = @ + 1]
        /\ Goto(r, "documents")
        /\ UNCHANGED <<accounts, tokens, applied, mode>>

AttachDocuments(r) ==
    /\ pc[r] = "documents"
    /\ changes' = [changes EXCEPT ![call[r].change].documents = TRUE]
    /\ Goto(r, "idle")
    /\ call' = [call EXCEPT ![r] = Idle]
    /\ UNCHANGED <<accounts, tokens, applied, calls, mode>>

\* the request is pending and has a proof document
Decidable(n) == changes[n].state = "pending" /\ changes[n].documents

\* decideProfileChangeRequest reads the request once.
BeginDecide(r, c) ==
    \E n \in Changes, approve \in BOOLEAN :
        /\ changes[n] # None
        /\ changes[n].account \in AccountsOf(c)
        /\ Decidable(n)
        /\ Begin(r, "decide", c, IF approve THEN "apply" ELSE "verdict",
                 [Idle EXCEPT !.endpoint = "decide", !.citizen = c,
                              !.account = changes[n].account, !.change = n,
                              !.approve = approve])

\* applyProposedChanges is one UPDATE.
ApplyChange(r) ==
    LET x == call[r].account IN
    /\ pc[r] = "apply"
    /\ accounts' = [accounts EXCEPT ![x].contact = "office",
                                    ![x].locked = TRUE]
    /\ applied' = applied \cup {call[r].change}
    /\ Goto(r, "verdict")
    /\ UNCHANGED <<changes, tokens, call, calls, mode>>

WriteVerdict(r) ==
    /\ pc[r] = "verdict"
    /\ changes' = [changes EXCEPT ![call[r].change].state =
                     IF call[r].approve THEN "approved" ELSE "rejected"]
    /\ Goto(r, "idle")
    /\ call' = [call EXCEPT ![r] = Idle]
    /\ UNCHANGED <<accounts, tokens, applied, calls, mode>>

----------------------------------------------------------------------------
\* A replica dies, or its connection is lost, between two awaits.
Drop(r) ==
    /\ mode = "crash"
    /\ pc[r] # "idle"
    /\ Answer(r)

Init ==
    /\ accounts = [x \in Accounts |-> None]
    /\ changes = [n \in Changes |-> None]
    /\ tokens = {}
    /\ applied = {}
    /\ pc = [r \in Requests |-> "idle"]
    /\ call = [r \in Requests |-> Idle]
    /\ calls = [c \in Citizens |-> 0]
    /\ mode \in Modes

Next ==
    \E r \in Requests :
        \/ \E c \in Citizens : \/ BeginExchange(r, c)
                               \/ BeginLogin(r, c)
                               \/ BeginEnrol(r, c)
                               \/ BeginFile(r, c)
                               \/ BeginDecide(r, c)
        \/ FindAccount(r)
        \/ InsertAccount(r)
        \/ AssignRole(r)
        \/ SaveProfile(r)
        \/ SaveUser(r)
        \/ Issue(r)
        \/ QueryIdentity(r)
        \/ AttachDocuments(r)
        \/ ApplyChange(r)
        \/ WriteVerdict(r)
        \/ Drop(r)

Spec == Init /\ [][Next]_vars

----------------------------------------------------------------------------
(* Properties *)

\* The columns, the requests in flight and the history hold what they can.
TypeOK ==
    /\ accounts \in [Accounts -> Row \cup {None}]
    /\ changes \in [Changes -> Change \cup {None}]
    /\ tokens \subseteq Citizens \X Accounts
    /\ applied \subseteq Changes
    /\ pc \in [Requests -> Labels]
    /\ call \in [Requests -> Call]
    /\ calls \in [Citizens -> Nat]
    /\ mode \in Modes

\* Whichever logins overlap or die, a citizen's identity is on one account;
\* and the account a login token names is the one with his identity, for as
\* long as requests about him do not overlap: no later login, enrolment or
\* office decision moves the identity away.
IdentityOnOneAccount ==
    /\ \A x, y \in Made : accounts[x].uniqid # None
                          /\ accounts[x].uniqid = accounts[y].uniqid => x = y
    /\ mode # "overlap" => \A t \in tokens : accounts[t[2]].uniqid = t[1]

\* What an office approved is in the profile and stays there: "SSO re-login
\* cannot wipe approved changes", nor can an enrolment, unless the request
\* read the profile before the office changed it.  A change recorded as
\* approved was applied, in all modes; one that is applied is recorded as
\* approved, or about to be, unless a decision was cut off or two overlap.
ApprovedChangeKept ==
    /\ mode # "overlap" =>
          \A n \in applied : accounts[changes[n].account].contact = "office"
    /\ \A n \in Changes : changes[n] # None =>
          /\ changes[n].state = "approved" => n \in applied
          /\ mode = "alone" /\ n \in applied =>
                \/ changes[n].state = "approved"
                \/ \E r \in Busy : call[r].change = n /\ pc[r] = "verdict"

\* An eGov identity is on one account, the one its login tokens name; what an
\* office approved stays in the profile, and on record.
ProfileSound == IdentityOnOneAccount /\ ApprovedChangeKept

\* A citizen enrols once: no request takes the verification back.
EnrolmentPermanent ==
    [][\A x \in Accounts :
          mode # "overlap" /\ accounts[x] # None /\ accounts[x].enrolled
          => accounts'[x] # None /\ accounts'[x].enrolled]_vars

=============================================================================
