--------------------------- MODULE AccountsProofs ---------------------------
(***************************************************************************)
(* What is proved of the parts of Accounts: of the organization and its    *)
(* staff (Organizations), of the offices (OfficeHierarchy), of the         *)
(* permission decision (AccessPolicy), and of all of them side by side     *)
(* with the pages (ConsoleProofs) and the face check (FaceLivenessProofs). *)
(***************************************************************************)
EXTENDS Accounts, ConsoleProofs

FaceLife == INSTANCE FaceLivenessProofs WITH
    Sessions <- FaceSessions, Calls <- FaceCalls, Modes <- FaceModes,
    call <- faceCall, mode <- faceMode

(***************************************************************************)
(* The organization and the accounts of its staff, for any number of users *)
(* and requests.  As long as requests do not overlap, what was last        *)
(* decided stands, no account is made in an organization that is not       *)
(* active, and a session is only issued once the invitation is accepted,   *)
(* in any order of the requests and, where the properties say so, although *)
(* any of them may die between two statements.                             *)
(***************************************************************************)

\* What a request under way may rely on, however requests overlap: an account
\* once made is never deleted.
Held(r) ==
  /\ pc[r] \in {"saveOrg", "transition"} => call[r].status \in OrgStatus
  /\ pc[r] \in {"saveAdmin", "saveLogin"} => call[r].status \in Status
  /\ pc[r] \in {"insert", "create"} => call[r].user \in Users
  /\ pc[r] \in {"saveAdmin", "role", "invite", "approve", "saveLogin",
                "complete", "activate", "issue"} =>
       call[r].user \in Users \ Free

\* What it may rely on when it runs alone: nothing it read has changed.
HeldAlone(r) ==
  LET c == call[r] IN
  /\ pc[r] = "saveOrg" => c.status = org
  /\ pc[r] \in {"insert", "create"} => org = "active"
  /\ pc[r] \in {"create", "role"} => c.kind # "org_admin"
  /\ pc[r] = "saveLogin" \/ (pc[r] = "saveAdmin" /\ c.kind = "officer") =>
       c.status = account[c.user].status
  /\ pc[r] = "saveAdmin" => c.status # "pending"
                            \/ c.status = account[c.user].status
  /\ pc[r] = "saveAdmin" => c.kind # "office_admin"
  /\ pc[r] = "approve" => account[c.user].status = "pending"
  /\ pc[r] \in {"role", "invite"} =>
       /\ c.user \notin sessions
       /\ c.kind = account[c.user].kind
  /\ pc[r] = "invite" => c.kind = "office_admin"
  /\ pc[r] = "issue" => invitation[c.user] # "pending"

Alone == \A r, q \in Busy : r = q

\* An administrator whose account is made is invited, or is about to be, or
\* has accepted, and with it registered a device.
Reached(u) ==
  account[u].kind # "officer" =>
     \/ invitation[u] = "pending"
     \/ u \in devices
     \/ \E r \in Requests : pc[r] \in {"role", "invite"} /\ call[r].user = u

\* The rows at any moment
Sound ==
  /\ org = decided
  /\ \A u \in Users \ Free : account[u].status = standing[u]
  /\ \A u \in sessions : /\ invitation[u] # "pending"
                         /\ account[u].status # "pending"
  /\ mode = "alone" => \A u \in Users \ Free : Reached(u)

TenancyInv ==
  /\ TypeOK
  /\ sessions \cap Free = {}
  /\ \A r \in Requests : Held(r)
  /\ mode # "overlap" =>
       /\ Alone
       /\ Sound
       /\ \A r \in Requests : HeldAlone(r)

GoesOn(r, label) ==
  /\ pc' = [pc EXCEPT ![r] = label]
  /\ ops' = ops
  /\ mode' = mode

\* A request that begins knows what it has just read, and leaves the others
\* as they were: there are none, or little is promised.
LEMMA BeginKeeps ==
  ASSUME TenancyInv, NEW r \in Requests, NEW label \in Labels \ {"idle"},
         NEW u \in Users \cup {None}, NEW k \in Kinds,
         NEW s \in Status \cup OrgStatus \cup {None},
         Begin(r, label, u, k, s),
         label \in {"saveOrg", "transition"} => s \in OrgStatus,
         label \in {"saveAdmin", "saveLogin"} => s \in Status,
         label \in {"insert", "create"} => u \in Users,
         label \notin {"saveOrg", "transition", "insert", "create"} =>
            u \in Users \ Free,
         mode # "overlap" => HeldAlone(r)'
  PROVE  TenancyInv'
  <1> USE DEF TenancyInv
  <1>1. /\ pc[r] = "idle" /\ CanBegin
        /\ pc' = [pc EXCEPT ![r] = label]
        /\ call' = [call EXCEPT ![r] = [user |-> u, kind |-> k, status |-> s]]
        /\ ops' = ops + 1
        /\ UNCHANGED <<org, account, invitation, devices, sessions, decided,
                      standing, mode>>
    BY DEF Begin, rows, history
  <1>2. TypeOK'
    BY <1>1 DEF TypeOK, Call
  <1>3. /\ pc'[r] = label
        /\ call'[r] = [user |-> u, kind |-> k, status |-> s]
        /\ \A q \in Requests \ {r} : pc'[q] = pc[q] /\ call'[q] = call[q]
    BY <1>1 DEF TypeOK
  <1>4. Free' = Free
    BY <1>1 DEF Free
  <1>5. \A q \in Requests : Held(q)'
    <2>1. Held(r)'
      BY <1>3, <1>4 DEF Held
    <2>2. \A q \in Requests \ {r} : Held(q)'
      BY <1>3, <1>4 DEF Held
    <2> QED
      BY <2>1, <2>2
  <1>6. ASSUME mode # "overlap"
        PROVE  Alone' /\ Sound' /\ \A q \in Requests : HeldAlone(q)'
    <2>1. Busy = {} /\ Busy' = {r}
      BY <1>1, <1>3, <1>6 DEF CanBegin, Busy
    <2>2. Alone'
      BY <2>1 DEF Alone
    <2>3. \A q \in Requests : pc[q] = "idle"
      BY <2>1 DEF Busy
    <2>4. Sound'
      BY <1>1, <1>4, <1>6, <2>3 DEF Sound, Reached
    <2>5. \A q \in Requests \ {r} : pc'[q] = "idle"
      BY <1>3, <2>3
    <2>6. \A q \in Requests \ {r} : HeldAlone(q)'
      BY <2>5 DEF HeldAlone
    <2> QED
      BY <1>6, <2>2, <2>4, <2>6
  <1> QED
    BY <1>1, <1>2, <1>4, <1>5, <1>6

\* A request under way takes a step: what the others hold, they keep.
LEMMA StepKeeps ==
  ASSUME TenancyInv, NEW r \in Requests, NEW label \in Labels,
         pc[r] # "idle", GoesOn(r, label), call' = call, TypeOK',
         Free' \subseteq Free, sessions' \cap Free' = {}, Held(r)',
         mode # "overlap" => Sound' /\ HeldAlone(r)'
  PROVE  TenancyInv'
  <1> USE DEF TenancyInv, GoesOn
  <1>1. pc'[r] = label /\ \A q \in Requests \ {r} : pc'[q] = pc[q]
    BY DEF TypeOK
  <1>2. \A q \in Requests \ {r} : Held(q)'
    BY <1>1 DEF Held
  <1>3. ASSUME mode # "overlap"
        PROVE  Alone' /\ \A q \in Requests \ {r} : HeldAlone(q)'
    <2>1. \A q \in Requests \ {r} : pc[q] = "idle"
      BY <1>3 DEF Alone, Busy
    <2>2. \A q \in Requests \ {r} : pc'[q] = "idle"
      BY <1>1, <2>1
    <2> QED
      BY <2>2 DEF Alone, Busy, HeldAlone
  <1> QED
    BY <1>2, <1>3

\* The end of a request that changed no row
LEMMA AnswerKeeps ==
  ASSUME TenancyInv, NEW r \in Requests, pc[r] # "idle", Answer(r),
         mode = "alone" => pc[r] \notin {"role", "invite"}
  PROVE  TenancyInv'
  <1> USE DEF TenancyInv
  <1>1. /\ GoesOn(r, "idle") /\ call' = call
        /\ UNCHANGED <<org, account, invitation, devices, sessions, decided,
                      standing>>
    BY DEF Answer, Goto, GoesOn, rows, history
  <1>2. TypeOK' /\ pc'[r] = "idle"
    BY <1>1 DEF TypeOK, GoesOn, Labels
  <1>3. Free' = Free
    BY <1>1 DEF Free
  <1>4. ASSUME mode # "overlap" PROVE Sound'
    <2>1. ASSUME mode = "alone", NEW u \in Users \ Free' PROVE Reached(u)'
      <3>1. Reached(u)
        BY <1>3, <1>4, <2>1 DEF Sound
      <3>2. \A q \in Requests : pc[q] \in {"role", "invite"} => pc'[q] = pc[q]
        BY <1>1, <2>1 DEF GoesOn, TypeOK
      <3> QED
        BY <1>1, <3>1, <3>2 DEF Reached
    <2> QED
      BY <1>1, <1>3, <1>4, <2>1 DEF Sound, GoesOn
  <1>5. Held(r)' /\ HeldAlone(r)'
    BY <1>2 DEF Held, HeldAlone
  <1> QED
    BY <1>1, <1>2, <1>3, <1>4, <1>5, StepKeeps, "idle" \in Labels DEF Labels


----------------------------------------------------------------------------
(* The requests that begin *)

LEMMA BeginsKeep ==
  ASSUME Assumptions, TenancyInv, NEW r \in Requests,
         \/ BeginRename(r)
         \/ \E next \in OrgStatus : BeginTransition(r, next)
         \/ \E u \in Users :
              \/ BeginCreateAdmin(r, u)
              \/ BeginUpdateAdmin(r, u)
              \/ \E next \in {"active", "suspended"} : BeginAdminStatus(r, u, next)
              \/ BeginApprove(r, u)
              \/ \E k \in {"office_admin", "officer"} : BeginStaffAccount(r, u, k)
              \/ BeginLogin(r, u)
  PROVE  TenancyInv'
  <1> USE DEF Labels, Kinds, Status, OrgStatus
  <1>1. TypeOK
    BY DEF TenancyInv
  <1>3. \A u \in Users \ Free : account[u] \in Account
    BY <1>1 DEF TypeOK, Free
  <1>4. CASE BeginRename(r)
    <2>1. org \in OrgStatus /\ Begin(r, "saveOrg", None, "officer", org)
      BY <1>4 DEF BeginRename
    <2>2. HeldAlone(r)'
      BY <1>1, <2>1 DEF Begin, TypeOK, rows, HeldAlone
    <2> QED
      BY <2>1, <2>2, BeginKeeps
  <1>5. ASSUME NEW next \in OrgStatus, BeginTransition(r, next) PROVE TenancyInv'
    <2>1. Begin(r, "transition", None, "officer", next)
      BY <1>5 DEF BeginTransition
    <2>2. HeldAlone(r)'
      BY <1>1, <2>1 DEF Begin, TypeOK, rows, HeldAlone
    <2> QED
      BY <2>1, <2>2, BeginKeeps
  <1>6. ASSUME NEW u \in Users, BeginCreateAdmin(r, u) PROVE TenancyInv'
    <2>1. org = "active" /\ Begin(r, "insert", u, "org_admin", "active")
      BY <1>6 DEF BeginCreateAdmin
    <2>2. HeldAlone(r)'
      BY <1>1, <2>1 DEF Begin, TypeOK, rows, HeldAlone
    <2> QED
      BY <2>1, <2>2, BeginKeeps
  <1>7. ASSUME NEW u \in Users, BeginUpdateAdmin(r, u) PROVE TenancyInv'
    <2>1. u \in Users \ Free /\ Begin(r, "saveAdmin", u, "officer", account[u].status)
      BY <1>7 DEF BeginUpdateAdmin, AdminWritable, Free
    <2>2. account[u].status \in Status
      BY <1>3, <2>1 DEF Account
    <2>3. HeldAlone(r)'
      BY <1>1, <2>1 DEF Begin, TypeOK, rows, HeldAlone
    <2> QED
      BY <2>1, <2>2, <2>3, BeginKeeps
  <1>8. ASSUME NEW u \in Users, NEW next \in {"active", "suspended"},
               BeginAdminStatus(r, u, next)
        PROVE  TenancyInv'
    <2>1. u \in Users \ Free /\ Begin(r, "saveAdmin", u, "org_admin", next)
      BY <1>8 DEF BeginAdminStatus, AdminWritable, Free
    <2>2. HeldAlone(r)'
      BY <1>1, <2>1 DEF Begin, TypeOK, rows, HeldAlone
    <2> QED
      BY <2>1, <2>2, BeginKeeps
  <1>9. ASSUME NEW u \in Users, BeginApprove(r, u) PROVE TenancyInv'
    <2>1. /\ u \in Users \ Free /\ account[u].status = "pending"
          /\ Begin(r, "approve", u, "officer", "active")
      BY <1>9 DEF BeginApprove, Free
    <2>2. HeldAlone(r)'
      BY <1>1, <2>1 DEF Begin, TypeOK, rows, HeldAlone
    <2> QED
      BY <2>1, <2>2, BeginKeeps
  <1>10. ASSUME NEW u \in Users, NEW k \in {"office_admin", "officer"},
                BeginStaffAccount(r, u, k)
         PROVE  TenancyInv'
    <2>1. org = "active" /\ Begin(r, "create", u, k, "active")
      BY <1>10 DEF BeginStaffAccount, OrgAdminActs, Admitted
    <2>2. HeldAlone(r)'
      BY <1>1, <2>1 DEF Begin, TypeOK, rows, HeldAlone
    <2> QED
      BY <2>1, <2>2, BeginKeeps
  <1>11. ASSUME NEW u \in Users, BeginLogin(r, u) PROVE TenancyInv'
    <2>1. u \in Users \ Free /\ Begin(r, "saveLogin", u, "officer", account[u].status)
      BY <1>11 DEF BeginLogin, Free
    <2>2. account[u].status \in Status
      BY <1>3, <2>1 DEF Account
    <2>3. HeldAlone(r)'
      BY <1>1, <2>1 DEF Begin, TypeOK, rows, HeldAlone
    <2> QED
      BY <2>1, <2>2, <2>3, BeginKeeps
  <1> QED
    BY <1>4, <1>5, <1>6, <1>7, <1>8, <1>9, <1>10, <1>11

\* The requests that are one transaction
LEMMA AtOnceKeeps ==
  ASSUME Assumptions, TenancyInv, NEW u \in Users,
         CreateOrganization(u) \/ CreateOfficeAdmin(u) \/ RequestStaffAccount(u)
  PROVE  TenancyInv'
  <1> USE DEF TenancyInv
  <1>1. PICK k \in Kinds, s \in {"active", "pending"} :
          /\ NewAccount(u, k, s, TRUE)
          /\ IF k = "officer" THEN invitation' = invitation
             ELSE s = "active" /\ invitation' = [invitation EXCEPT ![u] = "pending"]
    BY DEF CreateOrganization, CreateOfficeAdmin, RequestStaffAccount, Kinds
  <1>2. /\ u \in Free /\ CanBegin /\ ops' = ops + 1
        /\ UNCHANGED <<devices, sessions, pc, call, mode>>
        /\ UNCHANGED <<org, decided>> \/ (org' = "active" /\ decided' = "active")
    BY DEF CreateOrganization, CreateOfficeAdmin, RequestStaffAccount
  <1> DEFINE new == [kind |-> k, status |-> s, role |-> TRUE]
  <1>3. new \in Account /\ new # None
    <2>1. new \in Account
      BY DEF Account, Status
    <2> QED
      BY <2>1 DEF Assumptions
  <1>4. /\ account' = [account EXCEPT ![u] = new]
        /\ standing' = [standing EXCEPT ![u] = s]
    BY <1>1 DEF NewAccount
  <1>5. TypeOK'
    BY <1>1, <1>2, <1>3, <1>4 DEF TypeOK, Status, OrgStatus, Account
  <1>6. /\ account'[u] = new /\ standing'[u] = s
        /\ \A v \in Users \ {u} : /\ account'[v] = account[v]
                                  /\ standing'[v] = standing[v]
                                  /\ invitation'[v] = invitation[v]
    BY <1>1, <1>4 DEF TypeOK
  <1>7. Free' = Free \ {u}
    BY <1>2, <1>3, <1>6 DEF Free
  <1>8. \A q \in Requests : Held(q)'
    BY <1>2, <1>7 DEF Held
  <1>9. ASSUME mode # "overlap"
        PROVE  Alone' /\ Sound' /\ \A q \in Requests : HeldAlone(q)'
    <2>1. \A q \in Requests : pc[q] = "idle"
      BY <1>2, <1>9 DEF CanBegin, Busy
    <2>2. Alone' /\ \A q \in Requests : HeldAlone(q)'
      BY <1>2, <2>1 DEF Alone, Busy, HeldAlone
    <2>3. org' = decided'
      BY <1>2, <1>9 DEF Sound
    <2>4. \A v \in (Users \ Free)' : account'[v].status = standing'[v]
      BY <1>6, <1>7, <1>9 DEF Sound
    <2>5. \A v \in sessions' : invitation'[v] # "pending" /\ account'[v].status # "pending"
      BY <1>2, <1>6, <1>7, <1>9 DEF Sound, TypeOK
    <2>6. ASSUME mode = "alone", NEW v \in (Users \ Free)' PROVE Reached(v)'
      <3>1. CASE v = u
        BY <1>1, <1>6, <3>1 DEF Reached, TypeOK
      <3>2. CASE v # u
        <4>1. Reached(v)
          BY <1>7, <1>9, <2>6, <3>2 DEF Sound
        <4> QED
          BY <1>2, <1>6, <3>2, <4>1, <2>1 DEF Reached
      <3> QED
        BY <3>1, <3>2
    <2> QED
      BY <1>2, <2>2, <2>3, <2>4, <2>5, <2>6 DEF Sound
  <1> QED
    BY <1>2, <1>5, <1>7, <1>8, <1>9

----------------------------------------------------------------------------
(* The steps of a request under way *)

\* of those that write the organization
LEMMA OrganizationKeeps ==
  ASSUME TenancyInv, NEW r \in Requests,
         RenameOrganization(r) \/ TransitionOrganization(r)
  PROVE  TenancyInv'
  <1> USE DEF TenancyInv
  <1>1. /\ pc[r] \in {"saveOrg", "transition"} /\ GoesOn(r, "idle") /\ call' = call
        /\ org' = call[r].status
        /\ UNCHANGED <<account, invitation, devices, sessions, standing>>
        /\ decided' = call[r].status \/ (pc[r] = "saveOrg" /\ decided' = decided)
    BY DEF RenameOrganization, TransitionOrganization, Goto, GoesOn, history
  <1>2. call[r].status \in OrgStatus
    BY <1>1 DEF Held
  <1>3. TypeOK' /\ pc'[r] = "idle"
    BY <1>1, <1>2 DEF TypeOK, GoesOn, Labels
  <1>4. Free' = Free
    BY <1>1 DEF Free
  <1>5. ASSUME mode # "overlap" PROVE Sound'
    <2>1. org' = decided'
      BY <1>1, <1>5 DEF HeldAlone, Sound
    <2>2. ASSUME mode = "alone", NEW u \in Users \ Free' PROVE Reached(u)'
      <3>1. Reached(u)
        BY <1>4, <1>5, <2>2 DEF Sound
      <3>2. \A q \in Requests : pc[q] \in {"role", "invite"} => pc'[q] = pc[q]
        BY <1>1 DEF GoesOn, TypeOK
      <3> QED
        BY <1>1, <3>1, <3>2 DEF Reached
    <2> QED
      BY <1>1, <1>4, <1>5, <2>1, <2>2 DEF Sound, GoesOn
  <1>6. Held(r)' /\ HeldAlone(r)'
    BY <1>3 DEF Held, HeldAlone
  <1> QED
    BY <1>1, <1>3, <1>4, <1>5, <1>6, StepKeeps, "idle" \in Labels DEF Labels

\* A request that touches one account leaves the others reached: it is not in
\* the middle of making one of them.
LEMMA OthersReached ==
  ASSUME TenancyInv, NEW r \in Requests, NEW label \in Labels, GoesOn(r, label),
         call' = call, pc[r] # "idle", mode = "alone", devices \subseteq devices',
         call[r].user \in Users,
         \A v \in Users \ {call[r].user} : /\ account'[v] = account[v]
                                           /\ invitation'[v] = invitation[v],
         NEW v \in (Users \ Free)', v # call[r].user
  PROVE  Reached(v)'
  <1> USE DEF TenancyInv
  <1>1. v \in Users \ Free
    BY DEF Free
  <1>2. Reached(v)
    BY <1>1 DEF Sound
  <1>3. \A q \in Requests : pc[q] \in {"role", "invite"} /\ call[q].user = v =>
                              pc'[q] = pc[q]
    BY DEF GoesOn, TypeOK
  <1> QED
    BY <1>2, <1>3 DEF Reached

\* of those that make an account
LEMMA InsertsKeep ==
  ASSUME Assumptions, TenancyInv, NEW r \in Requests,
         InsertAdmin(r) \/ CreateAccount(r)
  PROVE  TenancyInv'
  <1> USE DEF TenancyInv
  <1>1. PICK u \in Users : u = call[r].user
    BY DEF InsertAdmin, CreateAccount, Held
  <1>2. CASE u \notin Free
    <2>1. Answer(r) /\ pc[r] \in {"insert", "create"}
      BY <1>1, <1>2 DEF InsertAdmin, CreateAccount
    <2> QED
      BY <2>1, AnswerKeeps
  <1>3. CASE u \in Free
    <2>1. PICK label \in {"idle", "role"}, k \in Kinds, g \in BOOLEAN :
            /\ NewAccount(u, k, "active", g) /\ GoesOn(r, label) /\ call' = call
            /\ UNCHANGED <<org, devices, sessions, decided>>
            /\ \/ /\ pc[r] = "insert" /\ label = "idle" /\ k = "org_admin"
                  /\ invitation' = [invitation EXCEPT ![u] = "pending"]
               \/ /\ pc[r] = "create" /\ label = "role" /\ k = call[r].kind
                  /\ invitation' = invitation
      <3>1. CASE InsertAdmin(r)
        BY <1>1, <1>3, <3>1 DEF InsertAdmin, Goto, GoesOn, Kinds
      <3>2. CASE CreateAccount(r)
        <4>1. call[r].kind \in Kinds
          BY DEF TypeOK, Call
        <4> QED
          BY <1>1, <1>3, <3>2, <4>1 DEF CreateAccount, Goto, GoesOn
      <3> QED
        BY <3>1, <3>2
    <2> DEFINE new == [kind |-> k, status |-> "active", role |-> g]
    <2>2. new \in Account /\ new # None
      <3>1. new \in Account
        BY DEF Account, Status
      <3> QED
        BY <3>1 DEF Assumptions
    <2>3. /\ account' = [account EXCEPT ![u] = new]
          /\ standing' = [standing EXCEPT ![u] = "active"]
      BY <2>1 DEF NewAccount
    <2> HIDE DEF new
    <2>4. TypeOK' /\ pc'[r] = label
      BY <2>1, <2>2, <2>3 DEF TypeOK, GoesOn, Labels, Status
    <2>5. /\ account'[u] = new /\ standing'[u] = "active"
          /\ \A v \in Users \ {u} : /\ account'[v] = account[v]
                                    /\ standing'[v] = standing[v]
                                    /\ invitation'[v] = invitation[v]
      BY <2>1, <2>3 DEF TypeOK
    <2>6. Free' = Free \ {u}
      BY <1>3, <2>2, <2>5 DEF Free
    <2>7. Held(r)'
      BY <1>1, <2>1, <2>4, <2>6 DEF Held
    <2>8. ASSUME mode # "overlap" PROVE Sound' /\ HeldAlone(r)'
      <3>1. new.kind = k /\ new.status = "active"
        BY DEF new
      <3>2. u \notin sessions /\ (label = "role" => call[r].kind # "org_admin")
        BY <1>3, <2>1, <2>8 DEF HeldAlone
      <3>3. HeldAlone(r)'
        <4>1. CASE label = "idle"
          BY <2>4, <4>1 DEF HeldAlone
        <4>2. CASE label = "role"
          BY <1>1, <2>1, <2>4, <2>5, <3>1, <3>2, <4>2 DEF HeldAlone
        <4> QED
          BY <4>1, <4>2
      <3>4. org' = decided' /\ \A v \in (Users \ Free)' : account'[v].status = standing'[v]
        BY <2>1, <2>5, <2>6, <2>8, <3>1 DEF Sound
      <3>5. \A v \in sessions' : invitation'[v] # "pending" /\ account'[v].status # "pending"
        BY <2>1, <2>5, <2>8, <3>2 DEF Sound, TypeOK
      <3>6. ASSUME mode = "alone", NEW v \in (Users \ Free)' PROVE Reached(v)'
        <4>1. CASE v # u
          BY <1>1, <2>1, <2>5, <3>6, <4>1, OthersReached DEF Labels
        <4>2. CASE v = u
          BY <1>1, <2>1, <2>4, <4>2 DEF Reached, TypeOK
        <4> QED
          BY <4>1, <4>2
      <3> QED
        BY <2>1, <3>3, <3>4, <3>5, <3>6 DEF Sound, GoesOn
    <2>9. label \in Labels /\ sessions' \cap Free' = {}
      BY <2>1, <2>6 DEF Labels
    <2> QED
      BY <2>1, <2>4, <2>6, <2>7, <2>8, <2>9, StepKeeps
  <1> QED
    BY <1>2, <1>3

\* of those that write an account that is there: the row stays a row
LEMMA RowWritten ==
  ASSUME Assumptions, TypeOK, NEW u \in Users \ Free, NEW new \in Account,
         account' = [account EXCEPT ![u] = new]
  PROVE  /\ account' \in [Users -> Account \cup {None}]
         /\ account'[u] = new
         /\ \A v \in Users \ {u} : account'[v] = account[v]
         /\ Free' = Free
  <1>1. /\ account' \in [Users -> Account \cup {None}] /\ account'[u] = new
        /\ \A v \in Users \ {u} : account'[v] = account[v]
    BY DEF TypeOK
  <1>2. Free' = Free
    BY <1>1 DEF Free, Assumptions
  <1> QED
    BY <1>1, <1>2

LEMMA SaveAdminKeeps ==
  ASSUME Assumptions, TenancyInv, NEW r \in Requests, SaveAdmin(r)
  PROVE  TenancyInv'
  <1> USE DEF TenancyInv
  <1>1. PICK u \in Users \ Free, s \in Status : u = call[r].user /\ s = call[r].status
    BY DEF SaveAdmin, Held
  <1>2. PICK new \in Account : new = [account[u] EXCEPT !.status = s]
    <2>1. account[u] \in Account
      BY DEF TypeOK, Free
    <2>2. [account[u] EXCEPT !.status = s] \in Account
      BY <2>1 DEF Account
    <2> QED
      BY <2>2
  <1>3. new.kind = account[u].kind /\ new.status = s
    BY <1>1, <1>2 DEF TypeOK, Free, Account
  <1>4. /\ pc[r] = "saveAdmin" /\ GoesOn(r, "idle") /\ call' = call
        /\ account' = [account EXCEPT ![u] = new]
        /\ standing' = IF call[r].kind = "org_admin"
                       THEN [standing EXCEPT ![u] = s] ELSE standing
        /\ UNCHANGED <<org, invitation, devices, sessions, decided>>
    BY <1>1, <1>2 DEF SaveAdmin, SavedStatus, Goto, GoesOn
  <1>5. /\ account' \in [Users -> Account \cup {None}]
        /\ account'[u] = new
        /\ \A v \in Users \ {u} : account'[v] = account[v]
        /\ Free' = Free
    BY <1>4, RowWritten
  <1>6. TypeOK' /\ pc'[r] = "idle"
    BY <1>4, <1>5 DEF TypeOK, GoesOn, Labels
  <1>7. Held(r)' /\ HeldAlone(r)'
    BY <1>6 DEF Held, HeldAlone
  <1>8. ASSUME mode # "overlap" PROVE Sound'
    <2>1. \A v \in Users \ Free : account'[v].status = standing'[v]
      <3>1. account'[u].status = standing'[u]
        <4>1. call[r].kind = "officer" => s = account[u].status
          BY <1>1, <1>4, <1>8 DEF HeldAlone
        <4>2. call[r].kind \in {"officer", "org_admin"}
          BY <1>4, <1>8 DEF HeldAlone, TypeOK, Call, Kinds
        <4> QED
          BY <1>3, <1>4, <1>5, <1>8, <4>1, <4>2 DEF Sound, TypeOK
      <3>2. \A v \in Users \ {u} : standing'[v] = standing[v]
        BY <1>4 DEF TypeOK
      <3> QED
        BY <1>5, <1>8, <3>1, <3>2 DEF Sound
    <2>2. \A v \in sessions : account'[v].status # "pending"
      <3>1. u \in sessions => s # "pending"
        BY <1>1, <1>4, <1>8 DEF HeldAlone, Sound
      <3> QED
        BY <1>3, <1>5, <1>8, <3>1 DEF Sound, TypeOK
    <2>3. ASSUME mode = "alone", NEW v \in Users \ Free PROVE Reached(v)'
      <3>1. Reached(v)
        BY <1>8, <2>3 DEF Sound
      <3>2. account'[v].kind = account[v].kind
        BY <1>3, <1>5
      <3>3. \A q \in Requests : pc[q] \in {"role", "invite"} => pc'[q] = pc[q]
        BY <1>4 DEF GoesOn, TypeOK
      <3> QED
        BY <1>4, <3>1, <3>2, <3>3 DEF Reached
    <2> QED
      BY <1>4, <1>5, <1>8, <2>1, <2>2, <2>3 DEF Sound, GoesOn
  <1> QED
    BY <1>4, <1>5, <1>6, <1>7, <1>8, StepKeeps, "idle" \in Labels DEF Labels

LEMMA SaveLoginKeeps ==
  ASSUME Assumptions, TenancyInv, NEW r \in Requests, SaveLogin(r)
  PROVE  TenancyInv'
  <1> USE DEF TenancyInv
  <1>1. PICK u \in Users \ Free, s \in Status : u = call[r].user /\ s = call[r].status
    BY DEF SaveLogin, Held
  <1>2. PICK new \in Account : new = [account[u] EXCEPT !.status = s]
    <2>1. account[u] \in Account
      BY DEF TypeOK, Free
    <2>2. [account[u] EXCEPT !.status = s] \in Account
      BY <2>1 DEF Account
    <2> QED
      BY <2>2
  <1>3. new.kind = account[u].kind /\ new.status = s
    BY <1>1, <1>2 DEF TypeOK, Free, Account
  <1>4. PICK label \in {"complete", "idle"} :
          /\ pc[r] = "saveLogin" /\ GoesOn(r, label) /\ call' = call
          /\ account' = [account EXCEPT ![u] = new]
          /\ UNCHANGED <<org, invitation, devices, sessions, decided, standing>>
    BY <1>1, <1>2 DEF SaveLogin, Goto, GoesOn, history
  <1>5. /\ account' \in [Users -> Account \cup {None}]
        /\ account'[u] = new
        /\ \A v \in Users \ {u} : account'[v] = account[v]
        /\ Free' = Free
    BY <1>4, RowWritten
  <1>6. TypeOK' /\ pc'[r] = label
    BY <1>4, <1>5 DEF TypeOK, GoesOn, Labels
  <1>7. Held(r)' /\ HeldAlone(r)'
    BY <1>1, <1>4, <1>5, <1>6 DEF Held, HeldAlone
  <1>8. ASSUME mode # "overlap" PROVE Sound'
    <2>1. \A v \in Users \ Free : account'[v].status = account[v].status
                                 /\ account'[v].kind = account[v].kind
      BY <1>1, <1>3, <1>4, <1>5, <1>8 DEF HeldAlone
    <2>2. sessions \subseteq Users \ Free
      BY DEF TypeOK
    <2>3. ASSUME mode = "alone", NEW v \in Users \ Free PROVE Reached(v)'
      <3>1. Reached(v)
        BY <1>8, <2>3 DEF Sound
      <3>2. \A q \in Requests : pc[q] \in {"role", "invite"} => pc'[q] = pc[q]
        BY <1>4 DEF GoesOn, TypeOK
      <3> QED
        BY <1>4, <2>1, <3>1, <3>2 DEF Reached
    <2> QED
      BY <1>4, <1>5, <1>8, <2>1, <2>2, <2>3 DEF Sound, GoesOn
  <1> QED
    BY <1>4, <1>5, <1>6, <1>7, <1>8, StepKeeps, label \in Labels DEF Labels

LEMMA ApproveKeeps ==
  ASSUME Assumptions, TenancyInv, NEW r \in Requests, ApproveStaff(r)
  PROVE  TenancyInv'
  <1> USE DEF TenancyInv
  <1>1. PICK u \in Users \ Free : u = call[r].user /\ pc[r] = "approve"
    BY DEF ApproveStaff, Held
  <1>2. CASE invitation[u] = "pending"
    BY <1>1, <1>2, AnswerKeeps DEF ApproveStaff
  <1>3. CASE invitation[u] # "pending"
    <2> DEFINE new == [account[u] EXCEPT !.status = "active"]
    <2>0. account[u] \in Account
      BY <1>1 DEF TypeOK, Free
    <2>1. new \in Account
      BY <2>0 DEF Account, Status
    <2>2. new.kind = account[u].kind /\ new.status = "active"
      BY <2>0 DEF Account
    <2>3. /\ GoesOn(r, "idle") /\ call' = call
          /\ account' = [account EXCEPT ![u] = new]
          /\ standing' = [standing EXCEPT ![u] = "active"]
          /\ invitation' = [invitation EXCEPT ![u] = "pending"]
          /\ UNCHANGED <<org, devices, sessions, decided>>
      BY <1>1, <1>3 DEF ApproveStaff, Goto, GoesOn
    <2> HIDE DEF new
    <2>4. /\ account' \in [Users -> Account \cup {None}]
          /\ account'[u] = new
          /\ \A v \in Users \ {u} : account'[v] = account[v]
          /\ Free' = Free
      BY <2>1, <2>3, RowWritten
    <2>5. TypeOK' /\ pc'[r] = "idle"
      BY <2>3, <2>4 DEF TypeOK, GoesOn, Labels, Status
    <2>6. Held(r)' /\ HeldAlone(r)'
      BY <2>5 DEF Held, HeldAlone
    <2>7. ASSUME mode # "overlap" PROVE Sound'
      <3>1. \A v \in Users \ Free : account'[v].status = standing'[v]
        BY <2>2, <2>3, <2>4, <2>7 DEF Sound, TypeOK
      <3>2. u \notin sessions
        BY <1>1, <2>7 DEF HeldAlone, Sound
      <3>3. \A v \in sessions : invitation'[v] # "pending" /\ account'[v].status # "pending"
        BY <2>3, <2>4, <2>7, <3>2 DEF Sound, TypeOK
      <3>4. ASSUME mode = "alone", NEW v \in (Users \ Free)' PROVE Reached(v)'
        <4>1. CASE v # u
          BY <1>1, <2>3, <2>4, <3>4, <4>1, OthersReached DEF Labels, TypeOK
        <4>2. CASE v = u
          BY <2>3, <4>2 DEF Reached, TypeOK
        <4> QED
          BY <4>1, <4>2
      <3> QED
        BY <2>3, <2>4, <2>7, <3>1, <3>3, <3>4 DEF Sound, GoesOn
    <2> QED
      BY <1>1, <2>3, <2>4, <2>5, <2>6, <2>7, StepKeeps, "idle" \in Labels DEF Labels
  <1> QED
    BY <1>2, <1>3


\* The role of a new account; an administrator is to be invited next.
LEMMA AssignRoleKeeps ==
  ASSUME Assumptions, TenancyInv, NEW r \in Requests, AssignRole(r)
  PROVE  TenancyInv'
  <1> USE DEF TenancyInv
  <1>1. PICK u \in Users \ Free : u = call[r].user
    BY DEF AssignRole, Held
  <1>2. PICK new \in Account : new = [account[u] EXCEPT !.role = TRUE]
    <2>1. account[u] \in Account
      BY DEF TypeOK, Free
    <2>2. [account[u] EXCEPT !.role = TRUE] \in Account
      BY <2>1 DEF Account
    <2> QED
      BY <2>2
  <1>3. new.kind = account[u].kind /\ new.status = account[u].status
    BY <1>1, <1>2 DEF TypeOK, Free, Account
  <1>4. PICK label \in {"invite", "idle"} :
          /\ pc[r] = "role" /\ GoesOn(r, label) /\ call' = call
          /\ label = IF call[r].kind = "office_admin" THEN "invite" ELSE "idle"
          /\ account' = [account EXCEPT ![u] = new]
          /\ UNCHANGED <<org, invitation, devices, sessions, decided, standing>>
    BY <1>1, <1>2 DEF AssignRole, Goto, GoesOn, history
  <1>5. /\ account' \in [Users -> Account \cup {None}]
        /\ account'[u] = new
        /\ \A v \in Users \ {u} : account'[v] = account[v]
        /\ Free' = Free
    BY <1>4, RowWritten
  <1>6. TypeOK' /\ pc'[r] = label
    BY <1>4, <1>5 DEF TypeOK, GoesOn, Labels
  <1>7. Held(r)'
    BY <1>1, <1>4, <1>5, <1>6 DEF Held
  <1>8. ASSUME mode # "overlap" PROVE Sound' /\ HeldAlone(r)'
    <2>1. u \notin sessions /\ call[r].kind = account[u].kind
      BY <1>1, <1>4, <1>8 DEF HeldAlone
    <2>2. HeldAlone(r)'
      BY <1>1, <1>3, <1>4, <1>5, <1>6, <2>1 DEF HeldAlone
    <2>3. \A v \in Users \ Free : account'[v].status = account[v].status
                                 /\ account'[v].kind = account[v].kind
      BY <1>3, <1>5
    <2>4. sessions \subseteq Users \ Free
      BY DEF TypeOK
    <2>5. ASSUME mode = "alone", NEW v \in (Users \ Free)' PROVE Reached(v)'
      <3>1. CASE v # u
        BY <1>1, <1>4, <1>5, <2>5, <3>1, OthersReached DEF Labels
      <3>2. CASE v = u
        <4>1. account[u].kind \in Kinds
          BY <1>1 DEF TypeOK, Free, Account
        <4>2. CASE label = "invite"
          BY <1>1, <1>4, <1>6, <3>2, <4>2 DEF Reached
        <4>3. CASE label = "idle"
          <5>1. account[u].kind # "office_admin" /\ Reached(u)
            BY <1>4, <1>8, <2>1, <2>5, <3>2, <4>3 DEF Sound
          <5>2. account[u].kind # "org_admin"
            BY <1>1, <1>4, <1>8, <2>1 DEF HeldAlone
          <5>3. account'[u].kind = "officer"
            BY <1>3, <1>5, <4>1, <5>1, <5>2 DEF Kinds
          <5> QED
            BY <3>2, <5>3 DEF Reached
        <4> QED
          BY <4>2, <4>3
      <3> QED
        BY <3>1, <3>2
    <2> QED
      BY <1>4, <1>5, <1>8, <2>2, <2>3, <2>4, <2>5 DEF Sound, GoesOn
  <1> QED
    BY <1>4, <1>5, <1>6, <1>7, <1>8, StepKeeps, label \in Labels DEF Labels

\* The invitation of a new administrator
LEMMA InviteKeeps ==
  ASSUME TenancyInv, NEW r \in Requests, Invite(r)
  PROVE  TenancyInv'
  <1> USE DEF TenancyInv
  <1>1. PICK u \in Users \ Free : u = call[r].user
    BY DEF Invite, Held
  <1>2. /\ pc[r] = "invite" /\ GoesOn(r, "idle") /\ call' = call
        /\ invitation' = [invitation EXCEPT ![u] = "pending"]
        /\ UNCHANGED <<org, account, devices, sessions, decided, standing>>
    BY <1>1 DEF Invite, Goto, GoesOn, history
  <1>3. TypeOK' /\ pc'[r] = "idle" /\ Free' = Free
    BY <1>2 DEF TypeOK, GoesOn, Labels, Free
  <1>4. Held(r)' /\ HeldAlone(r)'
    BY <1>3 DEF Held, HeldAlone
  <1>5. ASSUME mode # "overlap" PROVE Sound'
    <2>1. u \notin sessions
      BY <1>1, <1>2, <1>5 DEF HeldAlone
    <2>2. \A v \in sessions : invitation'[v] # "pending"
      BY <1>2, <1>5, <2>1 DEF Sound, TypeOK
    <2>3. ASSUME mode = "alone", NEW v \in (Users \ Free)' PROVE Reached(v)'
      <3>1. CASE v # u
        BY <1>1, <1>2, <2>3, <3>1, OthersReached DEF Labels, TypeOK
      <3>2. CASE v = u
        BY <1>2, <3>2 DEF Reached, TypeOK
      <3> QED
        BY <3>1, <3>2
    <2> QED
      BY <1>2, <1>3, <1>5, <2>2, <2>3 DEF Sound, GoesOn
  <1> QED
    BY <1>2, <1>3, <1>4, <1>5, StepKeeps, "idle" \in Labels DEF Labels

\* The checks of completeLogin
LEMMA CompleteLoginKeeps ==
  ASSUME TenancyInv, NEW r \in Requests, CompleteLogin(r)
  PROVE  TenancyInv'
  <1> USE DEF TenancyInv
  <1>1. PICK label \in {"activate", "idle"} :
          /\ pc[r] = "complete" /\ GoesOn(r, label) /\ call' = call
          /\ UNCHANGED <<org, account, invitation, devices, sessions, decided,
                        standing>>
    BY DEF CompleteLogin, Goto, GoesOn, rows, history
  <1>2. TypeOK' /\ pc'[r] = label /\ Free' = Free
    BY <1>1 DEF TypeOK, GoesOn, Labels, Free
  <1>3. Held(r)' /\ HeldAlone(r)'
    BY <1>1, <1>2 DEF Held, HeldAlone
  <1>4. ASSUME mode # "overlap" PROVE Sound'
    <2>1. ASSUME mode = "alone", NEW v \in Users \ Free PROVE Reached(v)'
      <3>1. Reached(v)
        BY <1>4, <2>1 DEF Sound
      <3>2. \A q \in Requests : pc[q] \in {"role", "invite"} => pc'[q] = pc[q]
        BY <1>1 DEF GoesOn, TypeOK
      <3> QED
        BY <1>1, <3>1, <3>2 DEF Reached
    <2> QED
      BY <1>1, <1>2, <1>4, <2>1 DEF Sound, GoesOn
  <1> QED
    BY <1>1, <1>2, <1>3, <1>4, StepKeeps, label \in Labels DEF Labels

\* The acceptance of the invitation, with the device
LEMMA ActivateKeeps ==
  ASSUME TenancyInv, NEW r \in Requests, ActivateInvitation(r)
  PROVE  TenancyInv'
  <1> USE DEF TenancyInv
  <1>1. PICK u \in Users \ Free : u = call[r].user /\ pc[r] = "activate"
    BY DEF ActivateInvitation, Held
  <1>2. PICK fingerprint \in BOOLEAN :
          IF Activated(u, fingerprint)
          THEN /\ devices' = IF invitation[u] = "pending" /\ fingerprint
                             THEN devices \cup {u} ELSE devices
               /\ invitation' = [invitation EXCEPT ![u] =
                     IF @ = "pending" THEN "accepted" ELSE @]
               /\ Goto(r, "issue")
               /\ UNCHANGED <<org, account, sessions, history>>
          ELSE Answer(r)
    BY <1>1 DEF ActivateInvitation
  <1>3. CASE ~Activated(u, fingerprint)
    BY <1>1, <1>2, <1>3, AnswerKeeps
  <1>4. CASE Activated(u, fingerprint)
    <2>1. /\ GoesOn(r, "issue") /\ call' = call
          /\ UNCHANGED <<org, account, sessions, decided, standing>>
          /\ devices' = IF invitation[u] = "pending" THEN devices \cup {u}
                        ELSE devices
          /\ invitation' = [invitation EXCEPT ![u] =
                               IF @ = "pending" THEN "accepted" ELSE @]
      BY <1>2, <1>4 DEF Activated, Goto, GoesOn, history
    <2>2. TypeOK' /\ pc'[r] = "issue" /\ Free' = Free
      BY <2>1 DEF TypeOK, GoesOn, Labels, Free
    <2>3. invitation'[u] # "pending"
      BY <2>1 DEF TypeOK
    <2>4. Held(r)' /\ HeldAlone(r)'
      BY <1>1, <2>1, <2>2, <2>3 DEF Held, HeldAlone
    <2>5. ASSUME mode # "overlap" PROVE Sound'
      <3>1. \A v \in sessions : invitation'[v] # "pending"
        BY <2>1, <2>5 DEF Sound, TypeOK
      <3>2. ASSUME mode = "alone", NEW v \in (Users \ Free)' PROVE Reached(v)'
        <4>1. CASE v # u
          BY <1>1, <2>1, <3>2, <4>1, OthersReached DEF Labels, TypeOK
        <4>2. CASE v = u
          <5>1. Reached(u)
            BY <2>5, <3>2 DEF Sound
          <5>2. \A q \in Requests : pc[q] \in {"role", "invite"} => pc'[q] = pc[q]
            BY <1>1, <2>1 DEF GoesOn, TypeOK
          <5> QED
            BY <2>1, <4>2, <5>1, <5>2 DEF Reached
        <4> QED
          BY <4>1, <4>2
      <3> QED
        BY <2>1, <2>2, <2>5, <3>1, <3>2 DEF Sound, GoesOn
    <2> QED
      BY <1>1, <2>1, <2>2, <2>4, <2>5, StepKeeps, "issue" \in Labels DEF Labels
  <1> QED
    BY <1>3, <1>4

\* The session
LEMMA IssueKeeps ==
  ASSUME TenancyInv, NEW r \in Requests, IssueTokens(r)
  PROVE  TenancyInv'
  <1> USE DEF TenancyInv
  <1>1. PICK u \in Users \ Free : u = call[r].user /\ pc[r] = "issue"
    BY DEF IssueTokens, Held
  <1>2. /\ GoesOn(r, "idle") /\ call' = call
        /\ sessions' = sessions \/ (ActiveContext(u) /\ sessions' = sessions \cup {u})
        /\ UNCHANGED <<org, account, invitation, devices, decided, standing>>
    BY <1>1 DEF IssueTokens, Goto, GoesOn, history
  <1>3. TypeOK' /\ pc'[r] = "idle" /\ Free' = Free
    BY <1>1, <1>2 DEF TypeOK, GoesOn, Labels, Free
  <1>4. Held(r)' /\ HeldAlone(r)'
    BY <1>3 DEF Held, HeldAlone
  <1>5. ASSUME mode # "overlap" PROVE Sound'
    <2>1. \A v \in sessions' : invitation'[v] # "pending" /\ account'[v].status # "pending"
      BY <1>1, <1>2, <1>5 DEF Sound, HeldAlone, ActiveContext
    <2>2. ASSUME mode = "alone", NEW v \in Users \ Free PROVE Reached(v)'
      <3>1. Reached(v)
        BY <1>5, <2>2 DEF Sound
      <3>2. \A q \in Requests : pc[q] \in {"role", "invite"} => pc'[q] = pc[q]
        BY <1>1, <1>2 DEF GoesOn, TypeOK
      <3> QED
        BY <1>2, <3>1, <3>2 DEF Reached
    <2> QED
      BY <1>2, <1>3, <1>5, <2>1, <2>2 DEF Sound, GoesOn
  <1> QED
    BY <1>1, <1>2, <1>3, <1>4, <1>5, StepKeeps, "idle" \in Labels DEF Labels

----------------------------------------------------------------------------
\* Any step keeps the invariant.
LEMMA TenancyInductive ==
  ASSUME Assumptions, TenancyInv, [Next]_vars
  PROVE  TenancyInv'
  <1>1. ASSUME NEW r \in Requests, Drop(r) PROVE TenancyInv'
    BY <1>1, AnswerKeeps DEF Drop
  <1>2. CASE UNCHANGED vars
    BY <1>2 DEF vars, TenancyInv, TypeOK, Free, Held, Alone, Busy, Sound, Reached,
                HeldAlone
  <1>3. CASE Next
    BY <1>1, <1>3, AtOnceKeeps, BeginsKeep, OrganizationKeeps, InsertsKeep,
       SaveAdminKeeps, ApproveKeeps, AssignRoleKeeps, InviteKeeps,
       SaveLoginKeeps, CompleteLoginKeeps, ActivateKeeps, IssueKeeps DEF Next
  <1> QED
    BY <1>2, <1>3

LEMMA TenancyHolds == ASSUME Assumptions PROVE Spec => []TenancyInv
  <1>1. Init => TenancyInv
    <2> SUFFICES ASSUME Init PROVE TenancyInv
      OBVIOUS
    <2>1. TypeOK
      BY DEF Init, TypeOK, Call, Labels, Kinds, Assumptions
    <2> QED
      BY <2>1 DEF Init, TenancyInv, Free, Held, Alone, Busy, Sound, HeldAlone
  <1> QED
    BY <1>1, TenancyInductive, PTL DEF Spec

\* Every organization, account, invitation and request in flight is well formed
\* in every interleaving (organization.service.ts, auth.service.ts).
THEOREM OrganizationsTyped == ASSUME Assumptions PROVE Spec => []TypeOK
  <1>1. TenancyInv => TypeOK
    BY DEF TenancyInv
  <1> QED
    BY <1>1, TenancyHolds, PTL

\* As long as requests do not overlap, no edit of a name or a contact and no
\* login puts back a status that was decided otherwise in the meantime
\* (organization.service.ts, update and updateAdmin; auth.service.ts, ssoExchange).
THEOREM DecisionsStand == ASSUME Assumptions PROVE Spec => []LastDecisionHolds
  <1>1. TenancyInv => LastDecisionHolds
    BY DEF TenancyInv, Sound, LastDecisionHolds
  <1> QED
    BY <1>1, TenancyHolds, PTL

\* Nobody has a session and an invitation still to accept, and no administrator
\* has a session without a device (auth.service.ts,
\* activatePendingOrganizationInvitation).
THEOREM DeviceBeforeSessionHolds ==
  ASSUME Assumptions PROVE Spec => []DeviceBeforeSession
  <1>1. TenancyInv => DeviceBeforeSession
    <2> SUFFICES ASSUME TenancyInv, NEW u \in sessions
                 PROVE  /\ mode # "overlap" => invitation[u] # "pending"
                        /\ mode = "alone" /\ account[u].kind # "officer" => u \in devices
      BY DEF DeviceBeforeSession
    <2>1. u \in Users \ Free
      BY DEF TenancyInv, TypeOK
    <2>2. mode # "overlap" => invitation[u] # "pending"
      BY DEF TenancyInv, Sound
    <2>3. mode = "alone" => ~\E r \in Requests : /\ pc[r] \in {"role", "invite"}
                                                /\ call[r].user = u
      BY DEF TenancyInv, HeldAlone
    <2>4. mode = "alone" => Reached(u)
      BY <2>1 DEF TenancyInv, Sound
    <2> QED
      BY <2>2, <2>3, <2>4 DEF Reached
  <1> QED
    BY <1>1, TenancyHolds, PTL

\* A suspended or archived organization gets no new staff, unless requests
\* overlap (organization.service.ts, createAdmin; jwt.strategy.ts).
THEOREM ProvisionedWhileActiveHolds ==
  ASSUME Assumptions PROVE Spec => ProvisionedWhileActive
  <1>1. ASSUME TenancyInv, [Next]_vars, NEW u \in Users, mode # "overlap",
               account[u] = None, account'[u] # None
        PROVE  org' = "active"
    <2> USE DEF TenancyInv
    <2>1. u \in Free /\ account' # account
      BY <1>1 DEF Free
    <2>2. \A r \in Requests : HeldAlone(r) /\ Held(r)
      BY <1>1
    <2>3. CASE \E v \in Users : CreateOrganization(v) \/ CreateOfficeAdmin(v)
                                \/ RequestStaffAccount(v)
      BY <2>3 DEF CreateOrganization, CreateOfficeAdmin, RequestStaffAccount,
                  OrgAdminActs, OfficeAdminActs, Admitted
    <2>4. CASE \E r \in Requests : InsertAdmin(r) \/ CreateAccount(r)
      BY <2>1, <2>2, <2>4 DEF InsertAdmin, CreateAccount, Answer, rows, HeldAlone
    <2>5. ASSUME NEW r \in Requests,
                 SaveAdmin(r) \/ ApproveStaff(r) \/ AssignRole(r) \/ SaveLogin(r)
          PROVE  FALSE
      <3>1. call[r].user # u
        BY <2>1, <2>2, <2>5 DEF Held, SaveAdmin, ApproveStaff, AssignRole, SaveLogin
      <3>2. account'[u] = account[u]
        BY <1>1, <2>1, <2>5, <3>1 DEF SaveAdmin, ApproveStaff, AssignRole, SaveLogin,
                               Answer, rows, TypeOK
      <3> QED
        BY <1>1, <3>2
    <2>6. CASE UNCHANGED account
      BY <2>1, <2>6
    <2> QED
      BY <1>1, <2>3, <2>4, <2>5, <2>6
      DEF Next, vars, Begin, BeginRename, BeginTransition, BeginCreateAdmin,
          BeginUpdateAdmin, BeginAdminStatus, BeginApprove, BeginStaffAccount,
          BeginLogin, RenameOrganization, TransitionOrganization, Invite,
          CompleteLogin, ActivateInvitation, IssueTokens, Drop, Answer, rows
  <1>2. TenancyInv /\ [Next]_vars =>
          [\A u \in Users : mode # "overlap" /\ account[u] = None
                            /\ account'[u] # None => org' = "active"]_vars
    BY <1>1
  <1> QED
    BY <1>2, TenancyHolds, PTL DEF Spec, ProvisionedWhileActive

----------------------------------------------------------------------------
(***************************************************************************)
(* The types of OfficeHierarchy, and that no two offices are ever each     *)
(* other's parent, for any number of offices, administrators and requests, *)
(* however they interleave.                                                *)
(*                                                                         *)
(* The last look at the hierarchy is the trigger's, in Write; the row is   *)
(* seen by others after Commit.  What keeps the trigger's verdict true in  *)
(* between are the locks: the foreign key's share of the new parent keeps  *)
(* others from moving that parent, and a creation's office is nobody's     *)
(* parent yet.                                                             *)
(*                                                                         *)
(* That there is no longer cycle needs the hierarchy that was looked at,   *)
(* so it is proved of requests that do not overlap, at the end.            *)
(***************************************************************************)

\* a request that will write a parent when it commits
Moves(a) == /\ at[a] = "commit"
            /\ change[a].op \in {"create", "move"}
            /\ change[a].parent # NoOffice

\* A request under way knows what it asked for, whether its office exists, and
\* holds its lock; a parent that was checked exists.
Asker(a) ==
  at[a] # "idle" =>
    /\ change[a] \in Change
    /\ (change[a].op = "create") <=> (status[change[a].office] = "absent")
    /\ change[a].op # "create" /\ at[a] # "lock" => lock[change[a].office] = a
    /\ change[a].op \in {"create", "move"} /\ change[a].parent # NoOffice
       /\ at[a] \in {"write", "commit"} => status[change[a].parent] # "absent"

\* No two creations have the same office.
NewOffices ==
  \A a, b \in Admins :
     /\ a # b
     /\ at[a] # "idle" /\ change[a].op = "create"
     /\ at[b] # "idle" /\ change[b].op = "create"
     => change[a].office # change[b].office

\* Who locks an office shares it with nobody else.
Locked == \A o \in Offices : lock[o] # NoOffice => share[o] \subseteq {lock[o]}

\* What the trigger saw still holds when the request commits, and either the
\* new parent is shared or the parent is the old one.
Seen(a) ==
  Moves(a) =>
    /\ change[a].parent # change[a].office
    /\ parent[change[a].parent] # change[a].office
    /\ \/ a \in share[change[a].parent]
       \/ parent[change[a].office] = change[a].parent

\* An office that does not exist has no parent.
OfficeRows == \A o \in Offices : status[o] = "absent" => parent[o] = NoOffice

OfficesInv ==
  /\ OfficesTypeOK
  /\ \A a \in Admins : Asker(a)
  /\ NewOffices
  /\ Locked
  /\ \A a \in Admins : Seen(a)
  /\ OfficeRows
  /\ NoMutualParents

LEMMA OfficesStart == OfficesInit => OfficesInv
  BY NoneIsNoOffice, MaxChangesAssumption
  DEF OfficesInit, OfficesInv, OfficesTypeOK, Asker, NewOffices, Locked, Seen, Moves, OfficeRows, NoMutualParents

\* A child is a descendant.
LEMMA ChildDescends ==
  ASSUME NEW o \in Offices, NEW p \in Offices, parent[p] = o
  PROVE  p \in Descendants(o)
  BY DEF Descendants, Children

LEMMA InvBegin ==
  ASSUME OfficesInv, NEW a \in Admins, NEW op \in Operations, NEW o \in Offices,
         NEW p \in Offices \cup {NoOffice}, BeginChange(a, op, o, p),
         (op = "create") <=> (status[o] = "absent"),
         op = "create" => \A b \in BusyAdmins : change[b].office # o
  PROVE  OfficesInv'
  <1> USE NoneIsNoOffice DEF OfficesInv
  <1>1. OfficesTypeOK'
    BY MaxChangesAssumption DEF BeginChange, OfficesTypeOK, Change, Operations
  <1>2. \A b \in Admins : Asker(b)'
    BY DEF BeginChange, OfficesTypeOK, Asker, Change, Operations
  <1>3. NewOffices'
    BY DEF BeginChange, OfficesTypeOK, NewOffices, BusyAdmins
  <1>4. Locked' /\ OfficeRows' /\ NoMutualParents'
    BY DEF BeginChange, Locked, OfficeRows, NoMutualParents
  <1>5. \A b \in Admins : Seen(b)'
    BY DEF BeginChange, OfficesTypeOK, Seen, Moves
  <1> QED
    BY <1>1, <1>2, <1>3, <1>4, <1>5

\* a step that leaves the offices alone and ends the request
LEMMA InvRelease ==
  ASSUME OfficesInv, NEW a \in Admins, Release(a), UNCHANGED <<parent, status>>
  PROVE  OfficesInv'
  <1> USE NoneIsNoOffice DEF OfficesInv
  <1>1. OfficesTypeOK'
    BY DEF Release, OfficesTypeOK
  <1>2. \A b \in Admins : Asker(b)'
    <2> SUFFICES ASSUME NEW b \in Admins PROVE Asker(b)'
      OBVIOUS
    <2>1. CASE b = a
      BY <2>1 DEF Release, OfficesTypeOK, Asker
    <2>2. CASE b # a
      <3>1. at'[b] = at[b] /\ change'[b] = change[b]
        BY <2>2 DEF Release, OfficesTypeOK
      <3>2. \A o \in Offices : lock[o] = b => lock'[o] = b
        BY <2>2 DEF Release, OfficesTypeOK
      <3> QED
        BY <3>1, <3>2 DEF Asker, Change
    <2> QED
      BY <2>1, <2>2
  <1>3. NewOffices'
    BY DEF Release, OfficesTypeOK, NewOffices
  <1>4. Locked'
    BY DEF Release, OfficesTypeOK, Locked
  <1>5. OfficeRows' /\ NoMutualParents'
    BY DEF OfficeRows, NoMutualParents
  <1>6. \A b \in Admins : Seen(b)'
    <2> SUFFICES ASSUME NEW b \in Admins PROVE Seen(b)'
      OBVIOUS
    <2>1. CASE b = a
      BY <2>1 DEF Release, OfficesTypeOK, Seen, Moves
    <2>2. CASE b # a
      <3>1. at'[b] = at[b] /\ change'[b] = change[b]
        BY <2>2 DEF Release, OfficesTypeOK
      <3>2. \A o \in Offices : b \in share[o] => b \in share'[o]
        BY <2>2 DEF Release, OfficesTypeOK
      <3>3. Moves(b) => change[b].parent \in Offices
        BY DEF Moves, Asker, Change
      <3> QED
        BY <3>1, <3>2, <3>3 DEF Seen, Moves
    <2> QED
      BY <2>1, <2>2
  <1> QED
    BY <1>1, <1>2, <1>3, <1>4, <1>5, <1>6

LEMMA InvLockOffice ==
  ASSUME OfficesInv, NEW a \in Admins, LockOffice(a)
  PROVE  OfficesInv'
  <1> USE NoneIsNoOffice DEF OfficesInv
  <1>1. change[a] \in Change /\ change[a].office \in Offices
    BY DEF LockOffice, Asker, Change
  <1>2. OfficesTypeOK'
    BY <1>1 DEF LockOffice, OfficesTypeOK, Change
  <1>3. \A b \in Admins : Asker(b)'
    <2> SUFFICES ASSUME NEW b \in Admins PROVE Asker(b)'
      OBVIOUS
    <2>1. CASE b = a
      BY <1>1, <2>1 DEF LockOffice, OfficesTypeOK, Asker, Change
    <2>2. CASE b # a
      <3>1. at'[b] = at[b] /\ change'[b] = change[b]
        BY <2>2 DEF LockOffice, OfficesTypeOK
      <3>2. \A o \in Offices : lock[o] = b => lock'[o] = b
        BY <1>1, <2>2 DEF LockOffice, OfficesTypeOK
      <3>3. status' = status
        BY DEF LockOffice
      <3> QED
        BY <3>1, <3>2, <3>3 DEF Asker, Change
    <2> QED
      BY <2>1, <2>2
  <1>4. NewOffices'
    BY <1>1 DEF LockOffice, OfficesTypeOK, NewOffices, Change
  <1>5. Locked'
    BY <1>1 DEF LockOffice, OfficesTypeOK, Locked
  <1>6. OfficeRows' /\ NoMutualParents'
    BY DEF LockOffice, OfficeRows, NoMutualParents
  <1>7. \A b \in Admins : Seen(b)'
    BY DEF LockOffice, OfficesTypeOK, Seen, Moves
  <1> QED
    BY <1>2, <1>3, <1>4, <1>5, <1>6, <1>7

LEMMA InvCheck ==
  ASSUME OfficesInv, NEW a \in Admins, Check(a)
  PROVE  OfficesInv'
  <1> USE NoneIsNoOffice DEF OfficesInv
  <1>1. OfficesTypeOK'
    BY DEF Check, OfficesTypeOK
  <1>2. \A b \in Admins : Asker(b)'
    <2> SUFFICES ASSUME NEW b \in Admins PROVE Asker(b)'
      OBVIOUS
    <2>1. CASE b = a
      <3>1. change[a].op \in {"create", "move"} => ParentAllowed(change[a])
        BY DEF Check, Allowed
      <3> QED
        BY <2>1, <3>1 DEF Check, OfficesTypeOK, Asker, ParentAllowed
    <2>2. CASE b # a
      BY <2>2 DEF Check, OfficesTypeOK, Asker
    <2> QED
      BY <2>1, <2>2
  <1>3. NewOffices' /\ Locked' /\ OfficeRows' /\ NoMutualParents'
    BY DEF Check, OfficesTypeOK, NewOffices, Locked, OfficeRows, NoMutualParents
  <1>4. \A b \in Admins : Seen(b)'
    BY DEF Check, OfficesTypeOK, Seen, Moves
  <1> QED
    BY <1>1, <1>2, <1>3, <1>4

\* The trigger's verdict, and the share that keeps it.
LEMMA InvWrite ==
  ASSUME OfficesInv, NEW a \in Admins, Write(a)
  PROVE  OfficesInv'
  <1> USE NoneIsNoOffice DEF OfficesInv
  <1>1. change[a] \in Change
    BY DEF Write, Asker
  <1>2. OfficesTypeOK'
    BY <1>1 DEF Write, OfficesTypeOK, Change, WritesParent
  <1>3. \A b \in Admins : Asker(b)'
    BY <1>1 DEF Write, OfficesTypeOK, Asker
  <1>4. NewOffices' /\ OfficeRows' /\ NoMutualParents'
    BY DEF Write, OfficesTypeOK, NewOffices, OfficeRows, NoMutualParents
  <1>5. Locked'
    BY <1>1 DEF Write, OfficesTypeOK, Locked, ParentLockable, WritesParent, Change
  <1>6. \A b \in Admins : Seen(b)'
    <2> SUFFICES ASSUME NEW b \in Admins PROVE Seen(b)'
      OBVIOUS
    <2>1. CASE b # a
      <3>1. at'[b] = at[b] /\ change' = change /\ parent' = parent
        BY <2>1 DEF Write, OfficesTypeOK
      <3>2. \A o \in Offices : b \in share[o] => b \in share'[o]
        BY <1>1 DEF Write, OfficesTypeOK, Change, WritesParent
      <3>3. Moves(b) => change[b].parent \in Offices
        BY DEF Moves, Asker, Change
      <3> QED
        BY <3>1, <3>2, <3>3 DEF Seen, Moves
    <2>2. CASE b = a /\ WritesParent(change[a])
      <3>1. change[a].parent \in Offices /\ change[a].office \in Offices
        BY <1>1, <2>2 DEF Change, WritesParent
      <3>2. /\ change[a].parent # change[a].office
            /\ parent[change[a].parent] # change[a].office
        BY <2>2, <3>1, ChildDescends DEF Write, ClosesCycle
      <3>3. a \in share'[change[a].parent]
        BY <2>2, <3>1 DEF Write, OfficesTypeOK
      <3> QED
        BY <2>2, <3>2, <3>3 DEF Write, Seen
    <2>3. CASE b = a /\ ~WritesParent(change[a])
      <3>1. change[a].office \in Offices
        BY <1>1 DEF Change
      <3>2. Moves(a)' => change[a].parent \in Offices /\ parent[change[a].office] = change[a].parent
        BY <1>1, <2>3 DEF Write, Moves, WritesParent, Change
      <3>3. Moves(a)' => /\ change[a].parent # change[a].office
                         /\ parent[change[a].parent] # change[a].office
        BY <3>1, <3>2 DEF NoMutualParents
      <3> QED
        BY <2>3, <3>2, <3>3 DEF Write, Seen
    <2> QED
      BY <2>1, <2>2, <2>3
  <1> QED
    BY <1>2, <1>3, <1>4, <1>5, <1>6

\* Whoever commits a move or a creation is the only one about that office.
LEMMA NobodyElse ==
  ASSUME OfficesInv, NEW a \in Admins, NEW b \in Admins, a # b,
         at[a] = "commit", at[b] = "commit",
         change[a].op \in {"create", "move"}, change[b].op \in {"create", "move"}
  PROVE  change[a].office # change[b].office
  <1>1. CASE change[a].op = "create" /\ change[b].op = "create"
    BY <1>1 DEF OfficesInv, NewOffices
  <1>2. CASE ~(change[a].op = "create" /\ change[b].op = "create")
    BY <1>2 DEF OfficesInv, Asker
  <1> QED
    BY <1>1, <1>2

\* Another request's new parent is not moved under its office.
LEMMA ParentStays ==
  ASSUME OfficesInv, NEW a \in Admins, NEW b \in Admins, a # b, Moves(a), Moves(b)
  PROVE  ~(change[a].office = change[b].parent /\ change[a].parent = change[b].office)
  <1> USE NoneIsNoOffice DEF OfficesInv
  <1> SUFFICES ASSUME change[a].office = change[b].parent,
                      change[a].parent = change[b].office
               PROVE  FALSE
    OBVIOUS
  <1>1. change[b].parent \in Offices
    BY DEF Moves, Asker, Change
  <1>2. CASE parent[change[b].office] = change[b].parent
    BY <1>2 DEF Seen
  <1>3. CASE b \in share[change[b].parent]
    <2>1. status[change[a].office] # "absent"
      BY DEF Moves, Asker
    <2>2. lock[change[a].office] = a
      BY <2>1 DEF Moves, Asker
    <2>3. share[change[b].parent] \subseteq {a}
      BY <1>1, <2>2 DEF Locked
    <2> QED
      BY <1>3, <2>3
  <1> QED
    BY <1>2, <1>3 DEF Seen

\* The row that others see from now on.
LEMMA InvCommit ==
  ASSUME OfficesInv, NEW a \in Admins, Commit(a)
  PROVE  OfficesInv'
  <1> USE NoneIsNoOffice DEF OfficesInv
  <1> DEFINE o == change[a].office
             p == change[a].parent
             writes == change[a].op \in {"create", "move"}
  <1>1. /\ at[a] = "commit" /\ change[a] \in Change
        /\ o \in Offices /\ p \in Offices \cup {NoOffice}
        /\ Release(a)
    BY DEF Commit, Asker, Change
  <1>2. parent' = IF writes THEN [parent EXCEPT ![o] = p] ELSE parent
    BY DEF Commit
  <1>3. /\ status' \in [Offices -> {"absent", "active", "archived"}]
        /\ status'[o] # "absent"
        /\ \A x \in Offices \ {o} : status'[x] = status[x]
    <2>1. CASE change[a].op \in {"create", "reactivate"}
      BY <1>1, <2>1 DEF Commit, OfficesTypeOK
    <2>2. CASE change[a].op = "archive"
      BY <1>1, <2>2 DEF Commit, OfficesTypeOK
    <2>3. CASE change[a].op = "move"
      <3>1. status' = status
        BY <2>3 DEF Commit
      <3> QED
        BY <1>1, <2>3, <3>1 DEF OfficesTypeOK, Asker
    <2> QED
      BY <1>1, <2>1, <2>2, <2>3 DEF Change, Operations
  <1>4. \A x \in Offices : status[x] # "absent" => status'[x] # "absent"
    BY <1>3
  <1>5. OfficesTypeOK'
    BY <1>1, <1>2, <1>3 DEF Release, OfficesTypeOK
  <1>6. \A b \in Admins \ {a} : /\ at'[b] = at[b] /\ change'[b] = change[b]
                                /\ \A x \in Offices : lock[x] = b => lock'[x] = b
                                /\ \A x \in Offices : b \in share[x] => b \in share'[x]
    BY <1>1 DEF Release, OfficesTypeOK
  <1>7. at'[a] = "idle"
    BY <1>1 DEF Release, OfficesTypeOK
  <1>8. \A b \in Admins : Asker(b)'
    <2> SUFFICES ASSUME NEW b \in Admins \ {a}, at[b] # "idle" PROVE Asker(b)'
      BY <1>6, <1>7 DEF Asker
    <2>1. change[b] \in Change /\ change[b].office \in Offices
      BY DEF Asker, Change
    <2>2. change[b].op = "create" => change[b].office # o
      <3>1. CASE change[a].op = "create"
        BY <1>1, <3>1 DEF NewOffices
      <3>2. CASE change[a].op # "create"
        BY <1>1, <3>2 DEF Asker
      <3> QED
        BY <3>1, <3>2
    <2>3. (change[b].op = "create") <=> (status'[change[b].office] = "absent")
      BY <1>3, <1>4, <2>1, <2>2 DEF Asker
    <2>4. change[b].parent \in Offices \cup {NoOffice}
      BY <2>1 DEF Change
    <2> QED
      BY <1>4, <1>6, <2>1, <2>3, <2>4 DEF Asker
  <1>9. NewOffices'
    BY <1>6, <1>7 DEF NewOffices
  <1>10. Locked'
    BY <1>1 DEF Release, OfficesTypeOK, Locked
  <1>11. OfficeRows'
    BY <1>2, <1>3, <1>1 DEF OfficeRows, OfficesTypeOK
  <1>12. NoMutualParents'
    <2>1. CASE writes /\ p # NoOffice
      <3>1. p # o /\ parent[p] # o
        BY <1>1, <2>1 DEF Seen, Moves
      <3> QED
        BY <1>1, <1>2, <2>1, <3>1 DEF NoMutualParents, OfficesTypeOK
    <2>2. CASE ~(writes /\ p # NoOffice)
      BY <1>1, <1>2, <2>2 DEF NoMutualParents, OfficesTypeOK
    <2> QED
      BY <2>1, <2>2
  <1>13. \A b \in Admins : Seen(b)'
    <2> SUFFICES ASSUME NEW b \in Admins \ {a}, Moves(b) PROVE Seen(b)'
      BY <1>6, <1>7 DEF Seen, Moves
    <2>1. /\ change[b].parent \in Offices /\ change[b].office \in Offices
          /\ at[b] = "commit" /\ change[b].op \in {"create", "move"}
      BY DEF Moves, Asker, Change
    <2>2. change[b].office # o \/ ~writes
      BY <1>1, <2>1, NobodyElse
    <2>3. parent'[change[b].office] = parent[change[b].office]
      BY <1>1, <1>2, <2>1, <2>2 DEF OfficesTypeOK
    <2>4. parent'[change[b].parent] # change[b].office
      <3>1. CASE writes /\ change[b].parent = o /\ p # NoOffice
        <4>1. Moves(a)
          BY <1>1, <3>1 DEF Moves
        <4>2. p # change[b].office
          BY <3>1, <4>1, ParentStays
        <4> QED
          BY <1>1, <1>2, <3>1, <4>2 DEF OfficesTypeOK
      <3>2. CASE writes /\ change[b].parent = o /\ p = NoOffice
        BY <1>1, <1>2, <2>1, <3>2 DEF OfficesTypeOK
      <3>3. CASE ~(writes /\ change[b].parent = o)
        <4>1. parent'[change[b].parent] = parent[change[b].parent]
          BY <1>1, <1>2, <2>1, <3>3 DEF OfficesTypeOK
        <4> QED
          BY <4>1 DEF Seen
      <3> QED
        BY <3>1, <3>2, <3>3
    <2> QED
      BY <1>6, <2>1, <2>3, <2>4 DEF Seen
  <1> QED
    BY <1>5, <1>8, <1>9, <1>10, <1>11, <1>12, <1>13

LEMMA InvStep == OfficesInv /\ [OfficesNext]_officeVars => OfficesInv'
  <1> SUFFICES ASSUME OfficesInv, [OfficesNext]_officeVars PROVE OfficesInv'
    OBVIOUS
  <1>1. ASSUME NEW a \in Admins, BeginCreate(a) PROVE OfficesInv'
    BY <1>1, InvBegin DEF BeginCreate, Operations
  <1>2. ASSUME NEW a \in Admins, BeginMove(a) PROVE OfficesInv'
    BY <1>2, InvBegin DEF BeginMove, Operations
  <1>3. ASSUME NEW a \in Admins, BeginArchive(a) PROVE OfficesInv'
    BY <1>3, InvBegin DEF BeginArchive, Operations
  <1>4. ASSUME NEW a \in Admins, BeginReactivate(a) PROVE OfficesInv'
    BY <1>4, InvBegin DEF BeginReactivate, Operations
  <1>5. ASSUME NEW a \in Admins, LockOffice(a) PROVE OfficesInv'
    BY <1>5, InvLockOffice
  <1>6. ASSUME NEW a \in Admins, Check(a) PROVE OfficesInv'
    BY <1>6, InvCheck
  <1>7. ASSUME NEW a \in Admins, Refuse(a) PROVE OfficesInv'
    BY <1>7, InvRelease DEF Refuse
  <1>8. ASSUME NEW a \in Admins, Write(a) PROVE OfficesInv'
    BY <1>8, InvWrite
  <1>9. ASSUME NEW a \in Admins, Commit(a) PROVE OfficesInv'
    BY <1>9, InvCommit
  <1>10. ASSUME NEW a \in Admins, BreakDeadlock(a) PROVE OfficesInv'
    BY <1>10, InvRelease DEF BreakDeadlock
  <1>11. CASE UNCHANGED officeVars
    BY <1>11 DEF officeVars, OfficesInv, OfficesTypeOK, Asker, NewOffices, Locked, Seen, Moves, OfficeRows,
                 NoMutualParents
  <1> QED
    BY <1>1, <1>2, <1>3, <1>4, <1>5, <1>6, <1>7, <1>8, <1>9, <1>10, <1>11
    DEF OfficesNext, Step

LEMMA InvHolds == OfficesSpec => []OfficesInv
  BY OfficesStart, InvStep, PTL DEF OfficesSpec

\* The columns, locks and requests of office.service.ts are of their types.
THEOREM OfficesTyped == OfficesSpec => []OfficesTypeOK
  <1>1. OfficesInv => OfficesTypeOK
    BY DEF OfficesInv
  <1> QED
    BY <1>1, InvHolds, PTL

\* Two administrators cannot move two offices under each other: whichever
\* transactions overlap, the row lock of the one and the foreign key's share of
\* the other exclude it.
THEOREM NoMutualParentsHolds == OfficesSpec => []NoMutualParents
  <1>1. OfficesInv => NoMutualParents
    BY DEF OfficesInv
  <1> QED
    BY <1>1, InvHolds, PTL

(***************************************************************************)
(* Requests that do not overlap (mode "alone"): the offices are a forest   *)
(* whose active offices have active parents.  What Check and the trigger   *)
(* saw is what Commit finds, because nobody else has written since.        *)
(***************************************************************************)
Ready(a) ==
  LET c == change[a] IN
  /\ at[a] \notin {"idle", "lock"} /\ c.op = "reactivate" => c.parent = parent[c.office]
  /\ at[a] \in {"write", "commit"} => Allowed(c)
  /\ at[a] = "commit" /\ WritesParent(c) => ~ ClosesCycle(c.office, c.parent)

Undisturbed ==
  officeMode = "alone" =>
    /\ \A a, b \in BusyAdmins : a = b
    /\ Forest
    /\ \A a \in Admins : Ready(a)

\* A cycle that a new parent closes leads from the parent up to the office: the
\* offices of the cycle that are neither the office nor below it would be a
\* cycle that was there before.
LEMMA NewParentKeepsForest ==
  ASSUME OfficesTypeOK, Acyclic, NEW o \in Offices, NEW p \in Offices,
         ~ ClosesCycle(o, p), parent' = [parent EXCEPT ![o] = p]
  PROVE  Acyclic'
  <1>1. SUFFICES ASSUME NEW S \in (SUBSET Offices) \ {{}}, \A x \in S : parent'[x] \in S
                 PROVE  FALSE
    BY DEF Acyclic
  <1>2. PICK D \in SUBSET Offices : /\ Children(o) \subseteq D
                                    /\ \A y \in D : Children(y) \subseteq D
                                    /\ p \notin D
    BY DEF ClosesCycle, Descendants
  <1>3. p # o
    BY DEF ClosesCycle
  <1>4. \A x \in S : x # o => parent[x] \in S
    BY <1>1 DEF OfficesTypeOK
  <1>5. o \in S
    BY <1>4 DEF Acyclic
  <1>6. p \in S
    BY <1>1, <1>5 DEF OfficesTypeOK
  <1>7. PICK Above \in SUBSET Offices : Above = {x \in S : x # o /\ x \notin D}
    OBVIOUS
  <1>8. ASSUME NEW x \in Above PROVE parent[x] \in Above
    <2>1. parent[x] \in S
      BY <1>4, <1>7
    <2>2. parent[x] # o /\ parent[x] \notin D
      BY <1>2, <1>7, <2>1 DEF Children
    <2> QED
      BY <1>7, <2>1, <2>2
  <1> QED
    BY <1>2, <1>3, <1>6, <1>7, <1>8 DEF Acyclic

\* An office that becomes a root closes no cycle.
LEMMA NewRootKeepsForest ==
  ASSUME OfficesTypeOK, Acyclic, NEW o \in Offices, parent' = [parent EXCEPT ![o] = NoOffice]
  PROVE  Acyclic'
  <1>1. SUFFICES ASSUME NEW S \in (SUBSET Offices) \ {{}}, \A x \in S : parent'[x] \in S
                 PROVE  FALSE
    BY DEF Acyclic
  <1>2. o \notin S
    BY <1>1, NoneIsNoOffice DEF OfficesTypeOK
  <1>3. \A x \in S : parent[x] \in S
    BY <1>1, <1>2 DEF OfficesTypeOK
  <1> QED
    BY <1>3 DEF Acyclic

LEMMA CommitKeepsForest ==
  ASSUME OfficesInv, Forest, NEW a \in Admins, Ready(a), Commit(a)
  PROVE  Forest'
  <1> DEFINE c == change[a]
  <1>1. c \in Change /\ at[a] = "commit" /\ Allowed(c)
    BY DEF OfficesInv, Asker, Ready, Commit
  <1>2. c.office \in Offices /\ c.parent \in Offices \cup {NoOffice} /\ c.op \in Operations
    BY <1>1 DEF Change
  <1>3. (c.op = "create") <=> (status[c.office] = "absent")
    BY <1>1 DEF OfficesInv, Asker
  <1> DEFINE Active == \A x \in Offices : status[x] = "active" /\ parent[x] # NoOffice =>
                                            status[parent[x]] = "active"
  <1>4. CASE c.op \in {"create", "move"}
    <2>1. parent' = [parent EXCEPT ![c.office] = c.parent]
      BY <1>4 DEF Commit
    <2>2. Acyclic'
      <3>1. CASE c.parent = NoOffice
        BY <1>2, <2>1, <3>1, NewRootKeepsForest DEF OfficesInv, Forest
      <3>2. CASE c.parent # NoOffice /\ c.parent = parent[c.office]
        <4>1. parent' = parent
          BY <1>2, <2>1, <3>2 DEF OfficesInv, OfficesTypeOK
        <4> QED
          BY <4>1 DEF Forest, Acyclic
      <3>3. CASE c.parent # NoOffice /\ c.parent # parent[c.office]
        <4>1. ~ ClosesCycle(c.office, c.parent)
          BY <1>1, <1>4, <3>3 DEF Ready, WritesParent
        <4> QED
          BY <1>2, <2>1, <3>3, <4>1, NewParentKeepsForest DEF OfficesInv, Forest
      <3> QED
        BY <3>1, <3>2, <3>3
    <2>3. c.parent # NoOffice => status[c.parent] = "active"
      BY <1>1, <1>4 DEF Allowed, ParentAllowed
    <2>4. /\ \A x \in Offices : x # c.office => status'[x] = status[x]
          /\ status'[c.office] = "active"
      BY <1>1, <1>2, <1>4 DEF Commit, OfficesInv, OfficesTypeOK, Allowed
    <2>5. \A x \in Offices : status[x] = "active" => status'[x] = "active"
      BY <2>4
    <2>6. Active'
      <3> SUFFICES ASSUME NEW x \in Offices, status'[x] = "active", parent'[x] # NoOffice
                   PROVE  status'[parent'[x]] = "active"
        OBVIOUS
      <3>1. CASE x = c.office
        BY <1>2, <2>1, <2>3, <2>5, <3>1 DEF OfficesInv, OfficesTypeOK
      <3>2. CASE x # c.office
        <4>1. parent'[x] = parent[x] /\ status[x] = "active" /\ parent[x] \in Offices
          BY <2>1, <2>4, <3>2 DEF OfficesInv, OfficesTypeOK
        <4>2. status[parent[x]] = "active"
          BY <4>1 DEF Forest
        <4> QED
          BY <2>5, <4>1, <4>2
      <3> QED
        BY <3>1, <3>2
    <2> QED
      BY <2>2, <2>6 DEF Forest
  <1>5. CASE c.op = "archive"
    <2>1. parent' = parent /\ status' = [status EXCEPT ![c.office] = "archived"]
      BY <1>5 DEF Commit
    <2>2. \A x \in Offices : status[x] = "active" => parent[x] # c.office
      BY <1>1, <1>5 DEF Allowed, HasActiveChildren, Children
    <2>3. Active'
      <3> SUFFICES ASSUME NEW x \in Offices, status'[x] = "active", parent'[x] # NoOffice
                   PROVE  status'[parent'[x]] = "active"
        OBVIOUS
      <3>1. status[x] = "active" /\ parent[x] \in Offices
        BY <1>2, <2>1 DEF OfficesInv, OfficesTypeOK
      <3>2. status[parent[x]] = "active" /\ parent[x] # c.office
        BY <2>1, <2>2, <3>1 DEF Forest
      <3> QED
        BY <2>1, <3>1, <3>2 DEF OfficesInv, OfficesTypeOK
    <2> QED
      BY <2>1, <2>3 DEF Forest, Acyclic
  <1>6. CASE c.op = "reactivate"
    <2>1. parent' = parent /\ status' = [status EXCEPT ![c.office] = "active"]
      BY <1>6 DEF Commit
    <2>2. parent[c.office] # NoOffice => status[parent[c.office]] = "active"
      BY <1>1, <1>6 DEF Ready, Allowed, ParentAllowed
    <2>3. Active'
      BY <1>2, <2>1, <2>2 DEF OfficesInv, OfficesTypeOK, Forest
    <2> QED
      BY <2>1, <2>3 DEF Forest, Acyclic
  <1> QED
    BY <1>2, <1>4, <1>5, <1>6 DEF Operations

\* a step of one request that writes no office
LEMMA UndisturbedIf ==
  ASSUME OfficesInv, Undisturbed, NEW a \in Admins, UNCHANGED <<parent, status, officeMode>>,
         \A b \in Admins \ {a} : at'[b] = at[b] /\ change'[b] = change[b],
         officeMode = "alone" => (at[a] = "idle" => BusyAdmins = {}) /\ Ready(a)'
  PROVE  Undisturbed'
  <1> SUFFICES ASSUME officeMode = "alone" PROVE Undisturbed'
    BY DEF Undisturbed
  <1>1. \A b \in Admins \ {a} : at'[b] = "idle"
    BY DEF Undisturbed, BusyAdmins
  <1>2. \A b, d \in BusyAdmins' : b = d
    BY <1>1 DEF BusyAdmins
  <1>3. Forest'
    BY DEF Undisturbed, Forest, Acyclic
  <1>4. \A b \in Admins : Ready(b)'
    BY <1>1 DEF Ready
  <1> QED
    BY <1>2, <1>3, <1>4 DEF Undisturbed

LEMMA UndisturbedBegin ==
  ASSUME OfficesInv, Undisturbed, NEW a \in Admins, NEW op \in Operations, NEW o \in Offices,
         NEW p \in Offices \cup {NoOffice}, BeginChange(a, op, o, p)
  PROVE  Undisturbed'
  <1>1. at' = [at EXCEPT ![a] = IF op = "create" THEN "check" ELSE "lock"]
        /\ change' = [change EXCEPT ![a] = [op |-> op, office |-> o, parent |-> p]]
    BY DEF BeginChange
  <1>2. at'[a] = (IF op = "create" THEN "check" ELSE "lock")
        /\ change'[a].op = op
    BY <1>1 DEF OfficesInv, OfficesTypeOK
  <1>3. Ready(a)'
    BY <1>2 DEF Ready
  <1>4. \A b \in Admins \ {a} : at'[b] = at[b] /\ change'[b] = change[b]
    BY <1>1 DEF OfficesInv, OfficesTypeOK
  <1>5. UNCHANGED <<parent, status, officeMode>> /\ (officeMode = "alone" => BusyAdmins = {})
    BY DEF BeginChange
  <1> QED
    BY <1>3, <1>4, <1>5, UndisturbedIf

LEMMA UndisturbedRelease ==
  ASSUME OfficesInv, Undisturbed, NEW a \in Admins, at[a] # "idle", Release(a),
         UNCHANGED <<parent, status>>
  PROVE  Undisturbed'
  <1>1. at'[a] = "idle" /\ \A b \in Admins \ {a} : at'[b] = at[b] /\ change'[b] = change[b]
    BY DEF Release, OfficesInv, OfficesTypeOK
  <1>2. Ready(a)' /\ officeMode' = officeMode
    BY <1>1 DEF Ready, Release
  <1> QED
    BY <1>1, <1>2, UndisturbedIf

LEMMA UndisturbedStep == OfficesInv /\ Undisturbed /\ [OfficesNext]_officeVars => Undisturbed'
  <1> SUFFICES ASSUME OfficesInv, Undisturbed, [OfficesNext]_officeVars PROVE Undisturbed'
    OBVIOUS
  <1>1. ASSUME NEW a \in Admins,
               BeginCreate(a) \/ BeginMove(a) \/ BeginArchive(a) \/ BeginReactivate(a)
        PROVE  Undisturbed'
    BY <1>1, UndisturbedBegin
    DEF BeginCreate, BeginMove, BeginArchive, BeginReactivate, Operations
  <1>2. ASSUME NEW a \in Admins, LockOffice(a) PROVE Undisturbed'
    <2>1. at[a] = "lock" /\ UNCHANGED <<parent, status, officeMode>>
          /\ at' = [at EXCEPT ![a] = "check"]
          /\ change' = (IF change[a].op = "reactivate"
                      THEN [change EXCEPT ![a].parent = parent[change[a].office]]
                      ELSE change)
      BY <1>2 DEF LockOffice
    <2>2. change[a] \in Change
      BY <2>1 DEF OfficesInv, Asker
    <2>3. \A b \in Admins \ {a} : at'[b] = at[b] /\ change'[b] = change[b]
      BY <2>1 DEF OfficesInv, OfficesTypeOK
    <2>4. at'[a] = "check" /\ change'[a].op = change[a].op /\ change'[a].office = change[a].office
          /\ (change[a].op = "reactivate" => change'[a].parent = parent[change[a].office])
      BY <2>1, <2>2 DEF OfficesInv, OfficesTypeOK, Change
    <2>5. Ready(a)'
      BY <2>1, <2>4 DEF Ready
    <2> QED
      BY <2>1, <2>3, <2>5, UndisturbedIf
  <1>3. ASSUME NEW a \in Admins, Check(a) PROVE Undisturbed'
    <2>1. at[a] = "check" /\ UNCHANGED <<parent, status, officeMode, change>>
          /\ at' = [at EXCEPT ![a] = "write"] /\ Allowed(change[a])
      BY <1>3 DEF Check
    <2>2. at'[a] = "write" /\ \A b \in Admins \ {a} : at'[b] = at[b] /\ change'[b] = change[b]
      BY <2>1 DEF OfficesInv, OfficesTypeOK
    <2>3. Allowed(change[a])'
      BY <2>1 DEF Allowed, ParentAllowed, HasActiveChildren, Children, ClosesCycle, Descendants
    <2>4. officeMode = "alone" => Ready(a)'
      BY <2>1, <2>2, <2>3 DEF Ready, Undisturbed
    <2> QED
      BY <2>1, <2>2, <2>4, UndisturbedIf
  <1>4. ASSUME NEW a \in Admins, Refuse(a) PROVE Undisturbed'
    BY <1>4, UndisturbedRelease DEF Refuse
  <1>5. ASSUME NEW a \in Admins, BreakDeadlock(a) PROVE Undisturbed'
    BY <1>5, UndisturbedRelease DEF BreakDeadlock, WaitsFor
  <1>6. ASSUME NEW a \in Admins, Write(a) PROVE Undisturbed'
    <2>1. at[a] = "write" /\ UNCHANGED <<parent, status, officeMode, change>>
          /\ at' = [at EXCEPT ![a] = "commit"]
          /\ (WritesParent(change[a]) => ~ ClosesCycle(change[a].office, change[a].parent))
      BY <1>6 DEF Write
    <2>2. at'[a] = "commit" /\ \A b \in Admins \ {a} : at'[b] = at[b] /\ change'[b] = change[b]
      BY <2>1 DEF OfficesInv, OfficesTypeOK
    <2>3. /\ Allowed(change[a])' <=> Allowed(change[a])
          /\ WritesParent(change[a])' <=> WritesParent(change[a])
          /\ ClosesCycle(change[a].office, change[a].parent)'
               <=> ClosesCycle(change[a].office, change[a].parent)
      BY <2>1 DEF Allowed, ParentAllowed, HasActiveChildren, Children, ClosesCycle, Descendants,
                  WritesParent
    <2>4. officeMode = "alone" => Ready(a)'
      BY <2>1, <2>2, <2>3 DEF Ready, Undisturbed
    <2> QED
      BY <2>1, <2>2, <2>4, UndisturbedIf
  <1>7. ASSUME NEW a \in Admins, Commit(a) PROVE Undisturbed'
    <2> SUFFICES ASSUME officeMode = "alone" PROVE Undisturbed'
      BY <1>7 DEF Undisturbed, Commit, Release
    <2>1. Forest'
      BY <1>7, CommitKeepsForest DEF Undisturbed
    <2>2. at[a] = "commit" /\ at' = [at EXCEPT ![a] = "idle"]
      BY <1>7 DEF Commit, Release
    <2>3. \A b \in Admins : at'[b] = "idle"
      BY <2>2 DEF Undisturbed, BusyAdmins, OfficesInv, OfficesTypeOK
    <2> QED
      BY <2>1, <2>3 DEF Undisturbed, BusyAdmins, Ready
  <1>8. CASE UNCHANGED officeVars
    <2>1. UNCHANGED <<parent, status, at, change, officeMode>>
      BY <1>8 DEF officeVars
    <2>2. Forest' <=> Forest
      BY <2>1 DEF Forest, Acyclic
    <2>3. BusyAdmins' = BusyAdmins
      BY <2>1 DEF BusyAdmins
    <2>4. ASSUME NEW a \in Admins PROVE Ready(a)' <=> Ready(a)
      BY <2>1
      DEF Ready, Allowed, ParentAllowed, HasActiveChildren, Children, ClosesCycle, Descendants,
          WritesParent
    <2> QED
      BY <2>1, <2>2, <2>3, <2>4 DEF Undisturbed
  <1> QED
    BY <1>1, <1>2, <1>3, <1>4, <1>5, <1>6, <1>7, <1>8 DEF OfficesNext, Step

\* Whatever overlaps, no two offices are each other's parent; and as long as
\* requests do not overlap, no creation, move, archival or reactivation closes a
\* cycle or leaves an active office under one that is not.
THEOREM HierarchySoundHolds == OfficesSpec => []HierarchySound
  <1>1. OfficesInit => Undisturbed
    <2> SUFFICES ASSUME OfficesInit PROVE Undisturbed
      OBVIOUS
    <2>1. \A o \in Offices : parent[o] = NoOffice
      BY DEF OfficesInit
    <2>2. Acyclic
      <3> SUFFICES ASSUME NEW S \in (SUBSET Offices) \ {{}} PROVE \E o \in S : parent[o] \notin S
        BY DEF Acyclic
      <3>0. S # {}
        OBVIOUS
      <3>1. PICK o \in S : TRUE
        BY <3>0
      <3>2. parent[o] = NoOffice /\ NoOffice \notin S
        BY <2>1, NoneIsNoOffice
      <3> QED
        BY <3>2
    <2>3. Forest
      BY <2>1, <2>2 DEF Forest
    <2> QED
      BY <2>3 DEF OfficesInit, Undisturbed, BusyAdmins, Ready
  <1>2. OfficesInv /\ Undisturbed => HierarchySound
    BY DEF OfficesInv, Undisturbed, HierarchySound
  <1> QED
    BY <1>1, <1>2, UndisturbedStep, InvHolds, PTL DEF OfficesSpec

----------------------------------------------------------------------------
(***************************************************************************)
(* Four eyes on every case, twice: the permission decision keeps duties    *)
(* and tenants apart for every set of people, organizations and offices,   *)
(* whatever roles an account combines; and the promised life of a case has *)
(* two people sign whatever is approved, for any number of cases.          *)
(***************************************************************************)

\* What a grant's scope demands, for the permissions on a case: no role is
\* granted one of them but within the office, on a task of its own or nobody's.
LEMMA GrantedInOffice ==
  ASSUME NEW role \in Roles, NEW a, a.permission \in {"evaluate", "approve", "reject"},
         DecideRbac(role, a)
  PROVE  InOrg(a) /\ a.assigned \in {Nobody, a.user}
  <1>1. Grant(role, a.permission) \in {"none", "assigned_task"}
    BY DEF Roles, Grant
  <1> QED
    BY <1>1 DEF DecideRbac, InScope, InOffice

\* Every permission of staff is granted within an organization.
LEMMA GrantedInOrg ==
  ASSUME NEW role \in Roles, NEW a, a.permission \in Permissions \ {"tenant", "own"},
         DecideRbac(role, a)
  PROVE  InOrg(a)
  <1>1. Grant(role, a.permission) \in {"none", "organization", "office", "assigned_task"}
    BY DEF Roles, Permissions, Grant
  <1> QED
    BY <1>1 DEF DecideRbac, InScope, InOffice

LEMMA AnswerSound ==
  ASSUME NEW rs \in SUBSET Roles, NEW a, a.permission \in Permissions,
         DecideAnyRole(rs, a)
  PROVE  /\ a.permission \in {"approve", "reject"} => a.evaluator # a.user
         /\ a.permission \notin {"tenant", "own"} => InOrg(a)
         /\ a.permission \in {"evaluate", "approve", "reject"} =>
                a.assigned \in {Nobody, a.user}
  <1>1. PICK role \in rs : DecideRbac(role, a)
    BY DEF DecideAnyRole
  <1>2. role \in Roles
    BY <1>1
  <1>3. a.permission \in {"approve", "reject"} => a.evaluator # a.user
    BY <1>1 DEF DecideRbac, SamePerson
  <1> QED
    BY <1>1, <1>2, <1>3, GrantedInOffice, GrantedInOrg

\* decideAnyRole never allows the evaluator of a case to approve or reject it,
\* nor staff anything outside their organization or on a task of others, for
\* every account and every question (auth/rbac.policy.ts).
THEOREM DecisionSoundHolds == PolicySpec => []DecisionSound
  <1>1. PolicyInit => DecisionSound
    BY DEF PolicyInit, DecisionSound
  <1>2. ASSUME DecisionSound, [PolicyNext]_policyVars PROVE DecisionSound'
    <2>1. CASE PolicyNext
      <3>1. PICK rs \in SUBSET Roles, a \in Ask :
               asked' = a /\ allowed' = DecideAnyRole(rs, a)
        BY <2>1 DEF PolicyNext, AssertPermission
      <3>2. a.permission \in Permissions
        BY DEF Ask
      <3>3. CASE DecideAnyRole(rs, a)
        BY <3>1, <3>2, <3>3, AnswerSound DEF DecisionSound, InOrg
      <3>4. CASE ~DecideAnyRole(rs, a)
        BY <3>1, <3>4 DEF DecisionSound
      <3> QED
        BY <3>3, <3>4
    <2>2. CASE UNCHANGED policyVars
      BY <1>2, <2>2 DEF policyVars, DecisionSound, InOrg
    <2> QED
      BY <1>2, <2>1, <2>2
  <1> QED
    BY <1>1, <1>2, PTL DEF PolicySpec


----------------------------------------------------------------------------
(* The composition *)

LEMMA AccountsStart ==
  ASSUME AccountsInit
  PROVE  Init /\ OfficesInit /\ PolicyInit /\ ConsoleInit /\ Face!Init
BY DEF AccountsInit

\* The parts that stand still stutter.
LEMMA AccountsStep ==
  ASSUME [AccountsNext]_accountsVars
  PROVE  /\ [Next]_vars
         /\ [OfficesNext]_officeVars
         /\ [PolicyNext]_policyVars
         /\ [ConsoleNext]_consoleVars
         /\ [Face!Next]_(Face!vars)
BY DEF AccountsNext, accountsVars, face, Face!vars

LEMMA PartsBehave ==
  AccountsSpec => Spec /\ OfficesSpec /\ PolicySpec /\ ConsoleSpec /\ Face!Spec
BY AccountsStart, AccountsStep, PTL
   DEF AccountsSpec, Spec, OfficesSpec, PolicySpec, ConsoleSpec, Face!Spec

----------------------------------------------------------------------------
\* The face check is the one of its proofs.
LEMMA FaceLifeIsFace ==
  /\ Face!Assumptions => FaceLife!Assumptions
  /\ Face!Spec => FaceLife!Spec
<1>1. Face!Assumptions => FaceLife!Assumptions
  BY DEF Face!Assumptions, FaceLife!Assumptions, Face!Row, FaceLife!Row, Face!Call,
         FaceLife!Call, Face!Status, FaceLife!Status
<1>2. FaceLife!Init <=> Face!Init
  BY DEF Face!Init, FaceLife!Init
<1>3. [FaceLife!Next]_(FaceLife!vars) <=> [Face!Next]_(Face!vars)
  BY DEF Face!Next, FaceLife!Next, Face!vars, FaceLife!vars, Face!Bootstrap,
         FaceLife!Bootstrap, Face!Cancel, FaceLife!Cancel, Face!PressVerify,
         FaceLife!PressVerify, Face!CompleteLogin, FaceLife!CompleteLogin,
         Face!Enrol, FaceLife!Enrol, Face!SignOut, FaceLife!SignOut, Face!Kill,
         FaceLife!Kill, Face!Capture, FaceLife!Capture, Face!Result,
         FaceLife!Result, Face!Sent, FaceLife!Sent, Face!Receive, FaceLife!Receive,
         Face!Lose, FaceLife!Lose, Face!CreateSession, FaceLife!CreateSession,
         Face!Find, FaceLife!Find, Face!GetResult, FaceLife!GetResult, Face!SaveRow,
         FaceLife!SaveRow, Face!Touch, FaceLife!Touch, Face!RecordLogin,
         FaceLife!RecordLogin, Face!Query, FaceLife!Query, Face!Verifying,
         FaceLife!Verifying, Face!Send, FaceLife!Send, Face!backend,
         FaceLife!backend, Face!Closed, FaceLife!Closed, Face!Forgotten,
         FaceLife!Forgotten, Face!Popped, FaceLife!Popped, Face!Occupied,
         FaceLife!Occupied, Face!Made, FaceLife!Made, Face!Status, FaceLife!Status,
         Face!Answered, FaceLife!Answered, Face!Accept, FaceLife!Accept,
         Face!Report, FaceLife!Report, Face!NewCall, FaceLife!NewCall, Face!Step,
         FaceLife!Step, Face!Finds, FaceLife!Finds, Face!Done, FaceLife!Done,
         Face!Outcome, FaceLife!Outcome, Face!Passes, FaceLife!Passes
<1> QED  BY <1>1, <1>2, <1>3, PTL DEF Face!Spec, FaceLife!Spec

\* A face check that passed is one the backend can enrol with, and nobody is
\* logged in without one (confirm-login and enrol-face of auth.service.ts),
\* whatever the other parts do.
THEOREM FaceCheckSoundHolds ==
  ASSUME AccountsAssumptions
  PROVE  AccountsSpec => []FaceCheckSound
<1>1. FaceLife!Assumptions
  BY FaceLifeIsFace DEF AccountsAssumptions
<1>2. FaceLife!Spec => []FaceLife!FaceCheckSound
  BY <1>1, FaceLife!FaceCheckSoundHolds
<1>3. FaceLife!FaceCheckSound <=> FaceCheckSound
  BY DEF FaceCheckSound, Face!FaceCheckSound, FaceLife!FaceCheckSound, Face!OutcomeUsable,
         FaceLife!OutcomeUsable, Face!PresenceBeforeSession,
         FaceLife!PresenceBeforeSession
<1> QED  BY <1>2, <1>3, PartsBehave, FaceLifeIsFace, PTL

\* The variables of every part stay of their types, for every value of the
\* constants: people, requests, offices, tabs, rows, sessions and captures.
THEOREM AccountsTyped ==
  ASSUME AccountsAssumptions
  PROVE  AccountsSpec => []AllTypesOK
<1>1. Assumptions /\ ConsoleAssumptions /\ FaceLife!Assumptions
  BY FaceLifeIsFace DEF AccountsAssumptions
<1>2. /\ Spec => []TypeOK
      /\ OfficesSpec => []OfficesTypeOK
      /\ ConsoleSpec => []PagesTypeOK
      /\ FaceLife!Spec => []FaceLife!TypeOK
  BY <1>1, OrganizationsTyped, OfficesTyped, PagesTyped, FaceLife!TypeCorrect
<1>3. FaceLife!TypeOK <=> Face!TypeOK
  BY DEF FaceLife!TypeOK, Face!TypeOK, FaceLife!Row, Face!Row, FaceLife!Call, Face!Call,
         FaceLife!Status, Face!Status, FaceLife!Phone, Face!Phone, FaceLife!Sent, Face!Sent
<1> QED  BY <1>2, <1>3, PartsBehave, FaceLifeIsFace, PTL DEF AllTypesOK

\* What the pages show is what the server has, and an apply is whole, beside
\* whatever else happens on the platform.
THEOREM PagesSound ==
  ASSUME AccountsAssumptions
  PROVE  AccountsSpec => []PagesShowServer /\ ApplyIsWhole
<1>1. ConsoleAssumptions /\ MatrixAssumptions
  BY DEF AccountsAssumptions, ConsoleAssumptions
<1>2. (ConsoleSpec => []PagesShowServer) /\ (MatrixSpec => ApplyIsWhole)
  BY <1>1, PagesShow, WholeApply
<1> QED  BY <1>2, PartsBehave, PagesBehave, PTL

=============================================================================
