---------------------------- MODULE ClientsProofs ----------------------------
(***************************************************************************)
(* The accounts of citizens and two clients, for any number of citizens,   *)
(* accounts, cases, slots, pages and requests.                             *)
(*                                                                         *)
(* The account: an identity is on one account in every interleaving.  As   *)
(* long as requests about one citizen do not overlap, although requests    *)
(* about others do and any may die, a login token names the account with   *)
(* his identity, what an office approved stays in the profile, and nobody  *)
(* has to enrol twice.                                                     *)
(*                                                                         *)
(* The pages that plan: whatever they save over each other, reviews start  *)
(* with the applications, and so every gate of a period agrees.            *)
(*                                                                         *)
(* The application: what a screen has of each request is what the server   *)
(* has, unless the server moved since; so the screens show the truth.      *)
(***************************************************************************)
EXTENDS Clients, FiniteSetTheorems, WellFoundedInduction, TLAPS

\* the labels at which a request has an account, an entity or a change at hand
OnAccount == Labels \ {"idle", "find", "insert"}
OnEntity == {"query", "save", "saveUser"}
OnChange == {"documents", "apply", "verdict"}

\* What a request under way may rely on in every interleaving: rows are never
\* deleted, and a change is decided once its approval is applied.
Held(r) ==
  LET c == call[r] IN
  /\ pc[r] \in OnAccount => c.account \in Made
  /\ pc[r] \in OnEntity => c.entity \in Row
  /\ pc[r] \in OnChange => /\ c.change \in Changes
                           /\ changes[c.change] # None
                           /\ changes[c.change].account = c.account
  /\ pc[r] = "apply" => c.approve
  /\ pc[r] = "verdict" /\ c.approve => c.change \in applied

\* the columns that tell whose account it is name the citizen, or nobody
BelongsTo(row, c) == row.email \in {None, c} /\ row.uniqid \in {None, c}

\* an approved contact is that of a locked profile
Locked(row) == row.contact = "office" => row.locked

\* An entity takes nothing back that the row has.
Extends(entity, row) ==
  /\ row.uniqid # None => entity.uniqid = row.uniqid
  /\ row.enrolled => entity.enrolled
  /\ row.contact = "office" => entity.contact = "office"

\* What a request may rely on that is alone with its citizen: nobody else
\* writes the account it found.
HeldAlone(r) ==
  LET c == call[r]
      row == accounts[c.account] IN
  /\ pc[r] \in OnAccount => BelongsTo(row, c.citizen)
  /\ pc[r] \in OnEntity => /\ BelongsTo(c.entity, c.citizen)
                           /\ Locked(c.entity)
                           /\ Extends(c.entity, row)
  /\ pc[r] = "saveUser" /\ c.endpoint = "exchange" => c.entity.uniqid = c.citizen
  /\ pc[r] = "issue" /\ c.endpoint = "exchange" => row.uniqid = c.citizen
  /\ mode = "alone" /\ pc[r] \in {"apply", "verdict"} =>
       changes[c.change].state = "pending"

\* Requests under way are about different citizens and different accounts.
Apart ==
  \A r, q \in Requests :
     r # q /\ pc[r] # "idle" /\ pc[q] # "idle" =>
       /\ call[r].citizen # call[q].citizen
       /\ pc[r] \in OnAccount /\ pc[q] \in OnAccount =>
            call[r].account # call[q].account

\* the rows, in every interleaving
OneAccount ==
  \A x, y \in Made : accounts[x].uniqid # None
                     /\ accounts[x].uniqid = accounts[y].uniqid => x = y

Recorded ==
  \A n \in Changes :
    /\ changes[n] # None => /\ changes[n].account \in Made
                            /\ changes[n].state = "approved" => n \in applied
    /\ n \in applied => changes[n] # None

\* and as long as requests about one citizen do not overlap
OneOwner(row) == row.email # None /\ row.uniqid # None => row.email = row.uniqid

Sound ==
  /\ \A x \in Made : Locked(accounts[x]) /\ OneOwner(accounts[x])
  /\ \A t \in tokens : t[2] \in Made /\ accounts[t[2]].uniqid = t[1]
  /\ \A n \in applied : accounts[changes[n].account].contact = "office"

\* an applied change is recorded as approved, or about to be
Concluded ==
  mode = "alone" =>
    \A n \in applied :
       \/ changes[n].state = "approved"
       \/ \E r \in Requests : pc[r] = "verdict" /\ call[r].change = n
                              /\ call[r].approve

ProfileInv ==
  /\ TypeOK
  /\ \A r \in Requests : Held(r)
  /\ OneAccount
  /\ Recorded
  /\ mode # "overlap" =>
       /\ Apart
       /\ Sound
       /\ Concluded
       /\ \A r \in Requests : HeldAlone(r)

----------------------------------------------------------------------------
(* Rows and requests *)

LEMMA RowIsNotNone ==
  ASSUME TypeOK PROVE /\ \A x \in Made : x \in Accounts /\ accounts[x] \in Row
                      /\ \A n \in Changes : changes[n] # None => changes[n] \in Change
  BY DEF TypeOK, Made

LEMMA IdleTyped == ASSUME Assumptions PROVE Idle \in Call
  <1>1. (CHOOSE c \in Citizens : TRUE) \in Citizens
    BY DEF Assumptions
  <1> QED
    BY <1>1 DEF Idle, Call

\* What a step does to those who are enrolled
EnrolledStay ==
  \A x \in Accounts : mode # "overlap" /\ accounts[x] # None /\ accounts[x].enrolled
                      => accounts'[x] # None /\ accounts'[x].enrolled

LEMMA EnrolledKept ==
  ASSUME Assumptions, TypeOK, NEW x, NEW new \in Row,
         accounts' = [accounts EXCEPT ![x] = new],
         mode # "overlap" => Extends(new, accounts[x])
  PROVE  EnrolledStay
  <1>1. new # None
    BY DEF Assumptions
  <1> QED
    BY <1>1 DEF EnrolledStay, Extends, TypeOK

\* The account a citizen finds is his.
LEMMA FoundIsOwn ==
  ASSUME Assumptions, ProfileInv, mode # "overlap", NEW c \in Citizens,
         NEW x \in AccountsOf(c)
  PROVE  /\ x \in Made /\ BelongsTo(accounts[x], c)
         /\ \A q \in Requests : pc[q] \in OnAccount /\ call[q].citizen # c =>
                                 call[q].account # x
  <1>1. x \in Made /\ (accounts[x].uniqid = c \/ accounts[x].email = c) /\ c # None
    BY DEF AccountsOf, WithUniqid, WithEmail, Assumptions
  <1>2. BelongsTo(accounts[x], c)
    BY <1>1 DEF ProfileInv, Sound, OneOwner, BelongsTo
  <1>3. \A q \in Requests : pc[q] \in OnAccount =>
                            BelongsTo(accounts[call[q].account], call[q].citizen)
    BY DEF ProfileInv, HeldAlone
  <1> QED
    BY <1>1, <1>2, <1>3 DEF BelongsTo

\* What a step of one request leaves to the others
Leaves(r, label, held) ==
  /\ pc' = [pc EXCEPT ![r] = label]
  /\ call' = [call EXCEPT ![r] = held]
  /\ mode' = mode
  /\ Made \subseteq Made'
  /\ applied \subseteq applied'
  /\ \A n \in Changes : changes[n] # None =>
       changes'[n] # None /\ changes'[n].account = changes[n].account

\* as long as the others are about other citizens, also their rows
LeavesRows(r) ==
  \A q \in Requests \ {r} :
     /\ pc[q] \in OnAccount => accounts'[call[q].account] = accounts[call[q].account]
     /\ pc[q] \in {"apply", "verdict"} =>
          changes'[call[q].change].state = changes[call[q].change].state

\* the citizen and the account of the next step are those of the last
Stays(r, label, held) ==
  /\ pc[r] # "idle" /\ held.citizen = call[r].citizen
  /\ label \in OnAccount => /\ pc[r] \in OnAccount
                            /\ held.account = call[r].account

LEMMA StepKeeps ==
  ASSUME ProfileInv, NEW r \in Requests, NEW label \in Labels, NEW held \in Call,
         Leaves(r, label, held), TypeOK', Held(r)', OneAccount', Recorded',
         mode # "overlap" =>
            /\ LeavesRows(r) /\ Sound' /\ Concluded' /\ HeldAlone(r)'
            /\ \/ label = "idle"
               \/ Stays(r, label, held)
               \/ \A q \in Requests \ {r} :
                     pc[q] # "idle" =>
                       /\ call[q].citizen # held.citizen
                       /\ pc[q] \in OnAccount /\ label \in OnAccount =>
                            call[q].account # held.account
  PROVE  ProfileInv'
  <1> USE DEF ProfileInv, Leaves
  <1>1. /\ pc'[r] = label /\ call'[r] = held
        /\ \A q \in Requests \ {r} : pc'[q] = pc[q] /\ call'[q] = call[q]
    BY DEF TypeOK
  <1>2. \A q \in Requests \ {r} : Held(q)'
    <2> SUFFICES ASSUME NEW q \in Requests \ {r} PROVE Held(q)'
      OBVIOUS
    <2>1. Held(q) /\ pc'[q] = pc[q] /\ call'[q] = call[q]
      BY <1>1
    <2> QED
      BY <2>1 DEF Held
  <1>3. ASSUME mode # "overlap"
        PROVE  Apart' /\ \A q \in Requests \ {r} : HeldAlone(q)'
    <2>1. Apart'
      <3>1. \A q \in Requests \ {r} :
               label # "idle" /\ pc[q] # "idle" =>
                 /\ call[q].citizen # held.citizen
                 /\ pc[q] \in OnAccount /\ label \in OnAccount =>
                      call[q].account # held.account
        <4>1. CASE label = "idle"
          BY <4>1
        <4>2. CASE Stays(r, label, held)
          BY <1>3, <4>2 DEF Apart, Stays
        <4>3. CASE ~Stays(r, label, held) /\ label # "idle"
          BY <1>3, <4>3
        <4> QED
          BY <4>1, <4>2, <4>3
      <3> QED
        BY <1>1, <1>3, <3>1 DEF Apart
    <2>2. ASSUME NEW q \in Requests \ {r} PROVE HeldAlone(q)'
      <3>1. HeldAlone(q) /\ pc'[q] = pc[q] /\ call'[q] = call[q]
        BY <1>1, <1>3
      <3>2. /\ pc[q] \in OnAccount => accounts'[call[q].account] = accounts[call[q].account]
            /\ pc[q] \in {"apply", "verdict"} =>
                 changes'[call[q].change].state = changes[call[q].change].state
        BY <1>3 DEF LeavesRows
      <3>3. OnEntity \cup {"issue"} \subseteq OnAccount
        BY DEF OnEntity, OnAccount, Labels
      <3> QED
        BY <3>1, <3>2, <3>3 DEF HeldAlone
    <2> QED
      BY <2>1, <2>2
  <1>4. \A q \in Requests : Held(q)'
    BY <1>2
  <1>5. mode # "overlap" => Apart' /\ Sound' /\ Concluded' /\ \A q \in Requests : HeldAlone(q)'
    BY <1>3
  <1> QED
    BY <1>4, <1>5

\* The end of a request, or its death, changes no row.
LEMMA AnswerKeeps ==
  ASSUME Assumptions, ProfileInv, NEW r \in Requests, pc[r] # "idle", Answer(r),
         mode = "alone" => pc[r] # "verdict"
  PROVE  ProfileInv' /\ EnrolledStay
  <1>1. /\ UNCHANGED <<accounts, changes, tokens, applied, calls, mode>>
        /\ pc' = [pc EXCEPT ![r] = "idle"] /\ call' = [call EXCEPT ![r] = Idle]
        /\ Made' = Made
    BY DEF Answer, Goto, Made
  <1>2. TypeOK' /\ pc'[r] = "idle" /\ "idle" \in Labels
    BY <1>1, IdleTyped DEF ProfileInv, TypeOK, Labels
  <1>3. Held(r)' /\ HeldAlone(r)'
    BY <1>2 DEF Held, HeldAlone, OnAccount, OnEntity, OnChange
  <1>4. OneAccount' /\ Recorded'
    BY <1>1 DEF ProfileInv, OneAccount, Recorded
  <1>5. ASSUME mode # "overlap" PROVE Sound' /\ Concluded' /\ LeavesRows(r)
    <2>1. Sound' /\ LeavesRows(r)
      BY <1>1, <1>5 DEF ProfileInv, Sound, LeavesRows
    <2>2. \A q \in Requests : pc[q] = "verdict" /\ mode = "alone" =>
                              pc'[q] = pc[q] /\ call'[q] = call[q]
      BY <1>1 DEF ProfileInv, TypeOK
    <2>3. Concluded'
      BY <1>1, <1>5, <2>2 DEF ProfileInv, Concluded
    <2> QED
      BY <2>1, <2>3
  <1>6. ProfileInv'
    BY <1>1, <1>2, <1>3, <1>4, <1>5, IdleTyped, StepKeeps DEF Leaves
  <1> QED
    BY <1>1, <1>6 DEF EnrolledStay


----------------------------------------------------------------------------
(* The requests that begin *)

\* with nothing written: what the request holds is what it has just read
LEMMA BeginKeeps ==
  ASSUME Assumptions, ProfileInv, NEW r \in Requests, NEW e, NEW c \in Citizens,
         NEW label \in {"find", "query", "apply", "verdict"}, NEW held \in Call,
         Begin(r, e, c, label, held), held.citizen = c,
         label \in OnAccount => held.account \in AccountsOf(c),
         label = "query" => held.entity = accounts[held.account],
         label \in OnChange => /\ held.change \in Changes
                               /\ changes[held.change] # None
                               /\ changes[held.change].account = held.account
                               /\ changes[held.change].state = "pending"
                               /\ held.approve <=> label = "apply"
  PROVE  ProfileInv'
  <1> USE DEF ProfileInv
  <1>1. /\ pc[r] = "idle" /\ calls' = [calls EXCEPT ![c] = @ + 1]
        /\ UNCHANGED <<accounts, changes, tokens, applied, mode>>
        /\ Leaves(r, label, held)
        /\ mode # "overlap" => \A q \in Busy : call[q].citizen # c
    BY DEF Begin, CanBegin, Leaves, Made
  <1>2. pc'[r] = label /\ call'[r] = held /\ label \in Labels /\ Made' = Made
    BY <1>1 DEF TypeOK, Leaves, Labels, Made
  <1>3. TypeOK'
    BY <1>1, <1>2 DEF TypeOK, Leaves
  <1>4. held.account \in Made \/ label = "find"
    BY DEF AccountsOf, WithUniqid, WithEmail, OnAccount, Labels
  <1>5. Held(r)'
    BY <1>1, <1>2, <1>4, RowIsNotNone DEF Held, OnAccount, OnEntity, OnChange
  <1>6. OneAccount' /\ Recorded'
    BY <1>1, <1>2 DEF OneAccount, Recorded
  <1>7. ASSUME mode # "overlap"
        PROVE  /\ LeavesRows(r) /\ Sound' /\ Concluded' /\ HeldAlone(r)'
               /\ \A q \in Requests \ {r} :
                    pc[q] # "idle" =>
                      /\ call[q].citizen # held.citizen
                      /\ pc[q] \in OnAccount /\ label \in OnAccount =>
                           call[q].account # held.account
    <2>1. \A q \in Requests \ {r} : pc[q] # "idle" => call[q].citizen # c
      BY <1>1, <1>7 DEF Busy
    <2>2. label \in OnAccount =>
            /\ held.account \in Made /\ BelongsTo(accounts[held.account], c)
            /\ \A q \in Requests : pc[q] \in OnAccount /\ call[q].citizen # c =>
                                   call[q].account # held.account
      BY <1>7, FoundIsOwn
    <2>3. Locked(accounts[held.account]) \/ label = "find"
      BY <1>4, <1>7 DEF Sound
    <2>4. HeldAlone(r)'
      <3>1. CASE label = "find"
        BY <1>2, <3>1 DEF HeldAlone, OnAccount, OnEntity
      <3>2. CASE label = "query"
        BY <1>1, <1>2, <2>2, <2>3, <3>2 DEF HeldAlone, OnAccount, OnEntity, Labels, Extends
      <3>3. CASE label \in {"apply", "verdict"}
        BY <1>1, <1>2, <2>2, <3>3 DEF HeldAlone, OnAccount, OnEntity, OnChange, Labels
      <3> QED
        BY <3>1, <3>2, <3>3
    <2>5. LeavesRows(r) /\ Sound'
      BY <1>1, <1>2, <1>7 DEF LeavesRows, Sound
    <2>6. \A q \in Requests : pc[q] = "verdict" => pc'[q] = pc[q] /\ call'[q] = call[q]
      BY <1>1 DEF Leaves, TypeOK
    <2>7. Concluded'
      BY <1>1, <1>7, <2>6 DEF Concluded
    <2>8. \A q \in Requests \ {r} : pc[q] \in OnAccount => pc[q] # "idle"
      BY DEF OnAccount
    <2> QED
      BY <2>1, <2>2, <2>4, <2>5, <2>7, <2>8
  <1> QED
    BY <1>1, <1>2, <1>3, <1>5, <1>6, <1>7, StepKeeps

LEMMA BeginsKeep ==
  ASSUME Assumptions, ProfileInv, NEW r \in Requests, NEW c \in Citizens,
         BeginExchange(r, c) \/ BeginLogin(r, c) \/ BeginEnrol(r, c) \/ BeginDecide(r, c)
  PROVE  ProfileInv'
  <1> USE IdleTyped
  <1>1. CASE BeginExchange(r, c)
    <2>1. PICK mail \in BOOLEAN, contact \in {None, "sso"} :
            Begin(r, "exchange", c, "find",
                  [Idle EXCEPT !.citizen = c, !.mail = mail, !.contact = contact])
      BY <1>1 DEF BeginExchange
    <2>2. PICK held \in Call :
            held = [Idle EXCEPT !.citizen = c, !.mail = mail, !.contact = contact]
      <3>1. [Idle EXCEPT !.citizen = c, !.mail = mail, !.contact = contact] \in Call
        BY DEF Call, Contacts
      <3> QED
        BY <3>1
    <2>3. held.citizen = c
      BY <2>2 DEF Idle
    <2> QED
      BY <2>1, <2>2, <2>3, BeginKeeps DEF OnAccount, OnChange
  <1>2. CASE BeginLogin(r, c)
    <2>1. PICK held \in Call :
            held = [Idle EXCEPT !.endpoint = "login", !.citizen = c, !.mail = TRUE]
      <3>1. [Idle EXCEPT !.endpoint = "login", !.citizen = c, !.mail = TRUE] \in Call
        BY DEF Call
      <3> QED
        BY <3>1
    <2>2. held.citizen = c
      BY <2>1 DEF Idle
    <2> QED
      BY <1>2, <2>1, <2>2, BeginKeeps DEF BeginLogin, OnAccount, OnChange
  <1>3. CASE BeginEnrol(r, c)
    <2>1. PICK x \in AccountsOf(c) :
            Begin(r, "enrol", c, "query",
                  [Idle EXCEPT !.endpoint = "enrol", !.citizen = c,
                               !.account = x, !.entity = accounts[x]])
      BY <1>3 DEF BeginEnrol
    <2>2. x \in Accounts /\ accounts[x] \in Row
      BY RowIsNotNone DEF ProfileInv, AccountsOf, WithUniqid, WithEmail
    <2>3. PICK held \in Call :
            held = [Idle EXCEPT !.endpoint = "enrol", !.citizen = c,
                                !.account = x, !.entity = accounts[x]]
      <3>1. [Idle EXCEPT !.endpoint = "enrol", !.citizen = c,
                         !.account = x, !.entity = accounts[x]] \in Call
        BY <2>2 DEF Call
      <3> QED
        BY <3>1
    <2>4. held.citizen = c /\ held.account = x /\ held.entity = accounts[x]
      BY <2>3 DEF Idle
    <2> QED
      BY <2>1, <2>3, <2>4, BeginKeeps DEF OnChange
  <1>4. CASE BeginDecide(r, c)
    <2>1. PICK n \in Changes, approve \in BOOLEAN :
            /\ changes[n] # None
            /\ changes[n].account \in AccountsOf(c)
            /\ Decidable(n)
            /\ Begin(r, "decide", c, IF approve THEN "apply" ELSE "verdict",
                     [Idle EXCEPT !.endpoint = "decide", !.citizen = c,
                                  !.account = changes[n].account, !.change = n,
                                  !.approve = approve])
      BY <1>4 DEF BeginDecide
    <2>2. changes[n].account \in Accounts
      BY <2>1, RowIsNotNone DEF ProfileInv, AccountsOf, WithUniqid, WithEmail
    <2>3. PICK held \in Call :
            held = [Idle EXCEPT !.endpoint = "decide", !.citizen = c,
                                !.account = changes[n].account, !.change = n,
                                !.approve = approve]
      <3>1. [Idle EXCEPT !.endpoint = "decide", !.citizen = c,
                         !.account = changes[n].account, !.change = n,
                         !.approve = approve] \in Call
        BY <2>2 DEF Call
      <3> QED
        BY <3>1
    <2>4. /\ held.citizen = c /\ held.account = changes[n].account
          /\ held.change = n /\ held.approve = approve
      BY <2>3 DEF Idle
    <2>5. PICK label \in {"apply", "verdict"} :
            label = IF approve THEN "apply" ELSE "verdict"
      OBVIOUS
    <2>6. held.approve <=> label = "apply"
      BY <2>4, <2>5
    <2>7. Begin(r, "decide", c, label, held)
      BY <2>1, <2>3, <2>5
    <2>8. /\ held.account \in AccountsOf(c) /\ held.change \in Changes
          /\ changes[held.change] # None
          /\ changes[held.change].account = held.account
          /\ changes[held.change].state = "pending"
      BY <2>1, <2>4 DEF Decidable
    <2> QED
      BY <2>4, <2>6, <2>7, <2>8, BeginKeeps
  <1> QED
    BY <1>1, <1>2, <1>3, <1>4

\* The filing of a change
LEMMA BeginFileKeeps ==
  ASSUME Assumptions, ProfileInv, NEW r \in Requests, NEW c \in Citizens,
         BeginFile(r, c)
  PROVE  ProfileInv'
  <1> USE DEF ProfileInv
  <1>1. PICK x \in AccountsOf(c), n \in Changes :
          /\ changes[n] = None
          /\ CanBegin(r, "file", c)
          /\ changes' = [changes EXCEPT ![n] =
                [account |-> x, state |-> "pending", documents |-> FALSE]]
          /\ call' = [call EXCEPT ![r] = [Idle EXCEPT !.endpoint = "file",
                        !.citizen = c, !.account = x, !.change = n]]
          /\ calls' = [calls EXCEPT ![c] = @ + 1]
          /\ Goto(r, "documents")
          /\ UNCHANGED <<accounts, tokens, applied, mode>>
    BY DEF BeginFile
  <1>2. x \in Made /\ x \in Accounts
    BY RowIsNotNone DEF AccountsOf, WithUniqid, WithEmail
  <1>3. PICK held \in Call :
          held = [Idle EXCEPT !.endpoint = "file", !.citizen = c,
                              !.account = x, !.change = n]
    <2>1. [Idle EXCEPT !.endpoint = "file", !.citizen = c,
                       !.account = x, !.change = n] \in Call
      BY <1>2, IdleTyped DEF Call
    <2> QED
      BY <2>1
  <1>4. held.citizen = c /\ held.account = x /\ held.change = n
    BY <1>3 DEF Idle
  <1>5. PICK new \in Change : new = [account |-> x, state |-> "pending",
                                     documents |-> FALSE]
    <2>1. [account |-> x, state |-> "pending", documents |-> FALSE] \in Change
      BY <1>2 DEF Change
    <2> QED
      BY <2>1
  <1>6. new.account = x /\ new.state = "pending" /\ new # None
    BY <1>5 DEF Assumptions
  <1>7. /\ changes'[n] = new
        /\ \A m \in Changes \ {n} : changes'[m] = changes[m]
        /\ changes' \in [Changes -> Change \cup {None}]
    BY <1>1, <1>5 DEF TypeOK
  <1>8. /\ pc[r] = "idle" /\ pc' = [pc EXCEPT ![r] = "documents"]
        /\ call' = [call EXCEPT ![r] = held] /\ Made' = Made
        /\ mode # "overlap" => \A q \in Busy : call[q].citizen # c
        /\ UNCHANGED <<accounts, tokens, applied, mode>>
    BY <1>1, <1>3 DEF CanBegin, Goto, Made
  <1>9. Leaves(r, "documents", held)
    BY <1>1, <1>6, <1>7, <1>8 DEF Leaves
  <1>10. pc'[r] = "documents" /\ call'[r] = held /\ "documents" \in Labels
    BY <1>8 DEF TypeOK, Labels
  <1>11. TypeOK'
    BY <1>1, <1>7, <1>8, <1>10 DEF TypeOK
  <1>12. Held(r)'
    BY <1>2, <1>4, <1>6, <1>7, <1>8, <1>10 DEF Held, OnEntity
  <1>13. n \notin applied
    BY <1>1 DEF Recorded
  <1>14. OneAccount' /\ Recorded'
    BY <1>2, <1>6, <1>7, <1>8, <1>13 DEF OneAccount, Recorded
  <1>15. ASSUME mode # "overlap"
         PROVE  /\ LeavesRows(r) /\ Sound' /\ Concluded' /\ HeldAlone(r)'
                /\ \A q \in Requests \ {r} :
                     pc[q] # "idle" =>
                       /\ call[q].citizen # held.citizen
                       /\ pc[q] \in OnAccount => call[q].account # held.account
    <2>1. \A q \in Requests \ {r} : pc[q] # "idle" => call[q].citizen # c
      BY <1>8, <1>15 DEF Busy
    <2>2. /\ BelongsTo(accounts[x], c)
          /\ \A q \in Requests : pc[q] \in OnAccount /\ call[q].citizen # c =>
                                 call[q].account # x
      BY <1>15, FoundIsOwn
    <2>3. HeldAlone(r)'
      BY <1>4, <1>8, <1>10, <2>2 DEF HeldAlone, OnEntity
    <2>4. LeavesRows(r)
      <3>1. \A q \in Requests : pc[q] \in {"apply", "verdict"} =>
                                  call[q].change \in Changes \ {n}
        BY <1>1 DEF Held, OnChange
      <3> QED
        BY <1>7, <1>8, <3>1 DEF LeavesRows
    <2>5. \A m \in applied : changes'[m] = changes[m]
      BY <1>7, <1>13 DEF TypeOK
    <2>6. Sound'
      BY <1>8, <1>15, <2>5 DEF Sound
    <2>7. \A q \in Requests : pc[q] = "verdict" => pc'[q] = pc[q] /\ call'[q] = call[q]
      BY <1>8 DEF TypeOK
    <2>8. Concluded'
      BY <1>8, <1>15, <2>5, <2>7 DEF Concluded
    <2>9. \A q \in Requests \ {r} : pc[q] \in OnAccount => pc[q] # "idle"
      BY DEF OnAccount
    <2> QED
      BY <1>4, <2>1, <2>2, <2>3, <2>4, <2>6, <2>8, <2>9
  <1> QED
    BY <1>9, <1>10, <1>11, <1>12, <1>14, <1>15, StepKeeps

----------------------------------------------------------------------------
(* The steps of a request under way *)

LEMMA LabelSets ==
  /\ OnEntity \subseteq OnAccount /\ OnChange \subseteq OnAccount
  /\ {"role", "issue"} \subseteq OnAccount /\ OnAccount \subseteq Labels
  /\ "idle" \notin OnAccount /\ OnEntity \cap OnChange = {}
  BY DEF OnEntity, OnAccount, OnChange, Labels

\* The row of the account at hand is written: those of others are not.
LEMMA RowKeeps ==
  ASSUME Assumptions, ProfileInv, NEW r \in Requests, pc[r] \in OnAccount,
         NEW x, x = call[r].account, NEW new \in Row,
         accounts' = [accounts EXCEPT ![x] = new], tokens' = tokens,
         new.uniqid = accounts[x].uniqid \/ ~UniqidTaken(x, new.uniqid)
  PROVE  /\ x \in Made /\ accounts[x] \in Row /\ Made' = Made
         /\ accounts' \in [Accounts -> Row \cup {None}] /\ accounts'[x] = new
         /\ OneAccount'
         /\ mode # "overlap" =>
              \A q \in Requests \ {r} : pc[q] \in OnAccount =>
                    accounts'[call[q].account] = accounts[call[q].account]
  <1> USE DEF ProfileInv
  <1>1. x \in Made /\ x \in Accounts /\ accounts[x] \in Row
    BY RowIsNotNone DEF Held
  <1>2. /\ accounts' \in [Accounts -> Row \cup {None}] /\ accounts'[x] = new
        /\ \A y \in Accounts \ {x} : accounts'[y] = accounts[y]
    BY <1>1 DEF TypeOK
  <1>3. new # None
    BY DEF Assumptions
  <1>4. Made' = Made
    BY <1>1, <1>2, <1>3 DEF Made
  <1>5. OneAccount'
    <2>1. \A y \in Made \ {x} : new.uniqid # None => accounts[y].uniqid # new.uniqid
      BY <1>1 DEF OneAccount, UniqidTaken, WithUniqid
    <2>2. Made \subseteq Accounts
      BY DEF Made
    <2> QED
      BY <1>2, <1>4, <2>1, <2>2 DEF OneAccount
  <1>6. ASSUME mode # "overlap", NEW q \in Requests \ {r}, pc[q] \in OnAccount
        PROVE  accounts'[call[q].account] = accounts[call[q].account]
    <2>1. call[q].account # x /\ call[q].account \in Accounts
      BY <1>6, LabelSets, RowIsNotNone DEF Apart, Held
    <2> QED
      BY <1>2, <2>1
  <1> QED
    BY <1>1, <1>2, <1>4, <1>5, <1>6

\* If the row takes nothing back, what is told of the rows stays true.
LEMMA RowSound ==
  ASSUME Assumptions, ProfileInv, mode # "overlap", NEW r \in Requests,
         pc[r] \in OnAccount, NEW x, x = call[r].account, NEW new \in Row,
         accounts' = [accounts EXCEPT ![x] = new], tokens' = tokens,
         BelongsTo(new, call[r].citizen), Locked(new), Extends(new, accounts[x]),
         \A n \in applied' :
            /\ changes'[n].account = changes[n].account
            /\ n \in applied \/ (changes[n].account = x /\ new.contact = "office")
  PROVE  Sound'
  <1> USE DEF ProfileInv
  <1>1. x \in Made /\ x \in Accounts
    BY RowIsNotNone DEF Held
  <1>2. /\ accounts'[x] = new
        /\ \A y \in Accounts \ {x} : accounts'[y] = accounts[y]
    BY <1>1 DEF TypeOK
  <1>3. Made' = Made
    BY <1>1, <1>2 DEF Made, TypeOK, Assumptions
  <1>4. OneOwner(new)
    BY DEF BelongsTo, OneOwner
  <1>5. \A y \in Made : Locked(accounts'[y]) /\ OneOwner(accounts'[y])
    <2> SUFFICES ASSUME NEW y \in Made PROVE Locked(accounts'[y]) /\ OneOwner(accounts'[y])
      OBVIOUS
    <2>1. CASE y = x
      BY <1>2, <1>4, <2>1
    <2>2. CASE y # x
      BY <1>2, <2>2, RowIsNotNone DEF Sound
    <2> QED
      BY <2>1, <2>2
  <1>6. \A t \in tokens : t[2] \in Made /\ accounts'[t[2]].uniqid = t[1]
    <2> SUFFICES ASSUME NEW t \in tokens PROVE accounts'[t[2]].uniqid = t[1]
      BY DEF Sound
    <2>1. t[1] \in Citizens /\ t[2] \in Made /\ accounts[t[2]].uniqid = t[1]
      BY DEF Sound, TypeOK
    <2>2. t[1] # None
      BY <2>1 DEF Assumptions
    <2>3. CASE t[2] = x
      BY <1>2, <2>1, <2>2, <2>3 DEF Extends
    <2>4. CASE t[2] # x
      BY <1>2, <2>1, <2>4, RowIsNotNone
    <2> QED
      BY <2>3, <2>4
  <1>7. \A n \in applied' : accounts'[changes'[n].account].contact = "office"
    <2> SUFFICES ASSUME NEW n \in applied' PROVE accounts'[changes[n].account].contact = "office"
      OBVIOUS
    <2>1. CASE n \notin applied
      BY <1>2, <2>1
    <2>2. CASE n \in applied
      <3>1. changes[n].account \in Accounts /\ accounts[changes[n].account].contact = "office"
        BY <2>2, RowIsNotNone DEF Recorded, Sound, TypeOK
      <3> QED
        BY <1>2, <3>1 DEF Extends
    <2> QED
      BY <2>1, <2>2
  <1> QED
    BY <1>3, <1>5, <1>6, <1>7 DEF Sound

\* A step that leaves the changes, the tokens and the history alone, and is not
\* at a verdict, leaves what is told of them.
LEMMA HistoryKept ==
  ASSUME ProfileInv, NEW r \in Requests, NEW label, NEW held, pc[r] # "verdict",
         pc' = [pc EXCEPT ![r] = label], call' = [call EXCEPT ![r] = held],
         mode' = mode, UNCHANGED <<changes, applied>>, Made \subseteq Made'
  PROVE  Recorded' /\ (mode # "overlap" => Concluded')
  <1>1. Recorded'
    BY DEF ProfileInv, Recorded
  <1>2. \A q \in Requests : pc[q] = "verdict" => pc'[q] = pc[q] /\ call'[q] = call[q]
    BY DEF ProfileInv, TypeOK
  <1> QED
    BY <1>1, <1>2 DEF ProfileInv, Concluded

\* findByEgovUniqid, findByEmail
LEMMA FindKeeps ==
  ASSUME Assumptions, ProfileInv, NEW r \in Requests, FindAccount(r)
  PROVE  ProfileInv'
  <1> USE DEF ProfileInv
  <1>1. pc[r] = "find" /\ call[r] \in Call /\ call[r].citizen \in Citizens
    BY DEF FindAccount, TypeOK, Call
  <1>2. CASE Found(r) = {} /\ Goto(r, "insert")
             /\ UNCHANGED <<accounts, changes, tokens, applied, call, calls, mode>>
    <2> DEFINE held == call[r]
    <2>1. Leaves(r, "insert", held) /\ "insert" \in Labels
      BY <1>2 DEF Leaves, Goto, Made, TypeOK, Labels
    <2>2. TypeOK' /\ pc'[r] = "insert" /\ Made' = Made
      BY <1>2, <2>1 DEF TypeOK, Leaves, Made
    <2>3. Held(r)' /\ HeldAlone(r)'
      BY <2>2 DEF Held, HeldAlone, OnAccount, OnEntity, OnChange
    <2>4. OneAccount' /\ Recorded' /\ (mode # "overlap" => Concluded')
      BY <1>1, <1>2, <2>1, <2>2, HistoryKept DEF OneAccount, Leaves
    <2>5. mode # "overlap" => LeavesRows(r) /\ Sound'
      BY <1>2, <2>2 DEF LeavesRows, Sound
    <2>6. Stays(r, "insert", held)
      BY <1>1 DEF Stays, OnAccount
    <2> QED
      BY <1>1, <2>1, <2>2, <2>3, <2>4, <2>5, <2>6, StepKeeps
  <1>3. CASE \E x \in Found(r) : Answer(r)
    BY <1>1, <1>3, AnswerKeeps
  <1>4. ASSUME NEW x \in Found(r), NEW label \in {"saveUser", "save"}, NEW login \in BOOLEAN,
               login <=> call[r].endpoint = "login",
               call' = [call EXCEPT ![r].account = x,
                     ![r].entity = [accounts[x] EXCEPT !.password = @ \/ login]],
               label = (IF login THEN "saveUser" ELSE "save"), Goto(r, label),
               UNCHANGED <<accounts, changes, tokens, applied, calls, mode>>
        PROVE  ProfileInv'
    <2>1. x \in AccountsOf(call[r].citizen) /\ x \in Made /\ x \in Accounts
      <3>1. x \in AccountsOf(call[r].citizen)
        BY DEF Found, AccountsOf
      <3> QED
        BY <3>1, RowIsNotNone DEF AccountsOf, WithUniqid, WithEmail
    <2>2. PICK entity \in Row : entity = [accounts[x] EXCEPT !.password = @ \/ login]
      <3>1. accounts[x] \in Row
        BY <2>1, RowIsNotNone
      <3>2. [accounts[x] EXCEPT !.password = @ \/ login] \in Row
        BY <3>1 DEF Row
      <3> QED
        BY <3>2
    <2>3. /\ entity.email = accounts[x].email /\ entity.uniqid = accounts[x].uniqid
          /\ entity.contact = accounts[x].contact /\ entity.locked = accounts[x].locked
          /\ entity.enrolled = accounts[x].enrolled
      BY <2>1, <2>2, RowIsNotNone DEF Row
    <2>4. PICK held \in Call : held = [call[r] EXCEPT !.account = x, !.entity = entity]
      <3>1. [call[r] EXCEPT !.account = x, !.entity = entity] \in Call
        BY <1>1, <2>1 DEF Call
      <3> QED
        BY <3>1
    <2>5. /\ held.account = x /\ held.entity = entity
          /\ held.citizen = call[r].citizen /\ held.endpoint = call[r].endpoint
      BY <1>1, <2>4 DEF Call
    <2>6. call' = [call EXCEPT ![r] = held]
      BY <1>4, <2>2, <2>4
    <2>7. Leaves(r, label, held) /\ label \in Labels
      BY <1>4, <2>6 DEF Leaves, Goto, Made, Labels
    <2>8. /\ TypeOK' /\ pc'[r] = label /\ call'[r] = held /\ Made' = Made
      BY <1>4, <2>6, <2>7 DEF TypeOK, Leaves, Made
    <2>9. Held(r)'
      BY <2>1, <2>5, <2>8 DEF Held, OnEntity, OnChange
    <2>10. OneAccount' /\ Recorded' /\ (mode # "overlap" => Concluded')
      BY <1>1, <1>4, <2>7, <2>8, HistoryKept DEF OneAccount, Leaves
    <2>11. ASSUME mode # "overlap"
           PROVE  /\ LeavesRows(r) /\ Sound' /\ HeldAlone(r)'
                  /\ \A q \in Requests \ {r} :
                       pc[q] # "idle" =>
                         /\ call[q].citizen # held.citizen
                         /\ pc[q] \in OnAccount => call[q].account # held.account
      <3>1. LeavesRows(r) /\ Sound'
        BY <1>4, <2>8, <2>11 DEF LeavesRows, Sound
      <3>2. /\ BelongsTo(accounts[x], call[r].citizen)
            /\ \A q \in Requests : pc[q] \in OnAccount
                                   /\ call[q].citizen # call[r].citizen => call[q].account # x
        BY <1>1, <2>1, <2>11, FoundIsOwn
      <3>3. Locked(accounts[x])
        BY <2>1, <2>11 DEF Sound
      <3>4. HeldAlone(r)'
        <4>1. BelongsTo(entity, call[r].citizen) /\ Locked(entity) /\ Extends(entity, accounts[x])
          BY <2>3, <3>2, <3>3 DEF BelongsTo, Locked, Extends
        <4>2. label = "saveUser" => held.endpoint # "exchange"
          BY <1>4, <2>5
        <4> QED
          BY <1>4, <2>5, <2>8, <3>2, <4>1, <4>2 DEF HeldAlone, OnEntity
      <3>5. \A q \in Requests \ {r} : pc[q] # "idle" => call[q].citizen # call[r].citizen
        BY <1>1, <2>11 DEF Apart
      <3> QED
        BY <2>5, <3>1, <3>2, <3>4, <3>5, LabelSets
    <2> QED
      BY <2>7, <2>8, <2>9, <2>10, <2>11, StepKeeps
  <1> QED
    <2>1. \E login \in BOOLEAN : login <=> call[r].endpoint = "login"
      OBVIOUS
    <2> QED
      BY <1>2, <1>3, <1>4, <2>1 DEF FindAccount

\* The row of a new account: nobody can have found it before.
LEMMA InsertKeeps ==
  ASSUME Assumptions, ProfileInv, NEW r \in Requests, InsertAccount(r)
  PROVE  ProfileInv' /\ EnrolledStay
  <1> USE DEF ProfileInv
  <1>1. pc[r] = "insert" /\ call[r] \in Call /\ call[r].citizen \in Citizens
    BY DEF InsertAccount, TypeOK, Call
  <1>2. CASE Answer(r)
    BY <1>1, <1>2, AnswerKeeps
  <1>3. CASE ~Answer(r)
    <2> DEFINE mail == IF call[r].mail THEN call[r].citizen ELSE None
               b == call[r].endpoint = "exchange"
               p == call[r].endpoint = "login"
    <2>1. PICK x \in Accounts \ Made :
            /\ accounts' = [accounts EXCEPT ![x] =
                  [email |-> mail, uniqid |-> None, contact |-> None, locked |-> b,
                   enrolled |-> FALSE, password |-> p, role |-> FALSE]]
            /\ call' = [call EXCEPT ![r].account = x]
            /\ Goto(r, "role")
            /\ UNCHANGED <<changes, tokens, applied, calls, mode>>
      BY <1>3 DEF InsertAccount
    <2>2. PICK new \in Row : new = [email |-> mail, uniqid |-> None, contact |-> None,
                                    locked |-> b, enrolled |-> FALSE, password |-> p,
                                    role |-> FALSE]
      <3>1. mail \in Citizens \cup {None} /\ b \in BOOLEAN /\ p \in BOOLEAN
        BY <1>1
      <3>2. [email |-> mail, uniqid |-> None, contact |-> None, locked |-> b,
             enrolled |-> FALSE, password |-> p, role |-> FALSE] \in Row
        BY <3>1 DEF Row
      <3> QED
        BY <3>2
    <2>3. new.email = mail /\ new.uniqid = None /\ new.contact = None /\ new # None
      BY <2>2 DEF Assumptions
    <2>4. PICK held \in Call : held = [call[r] EXCEPT !.account = x]
      <3>1. [call[r] EXCEPT !.account = x] \in Call
        BY <1>1, <2>1 DEF Call
      <3> QED
        BY <3>1
    <2>5. held.account = x /\ held.citizen = call[r].citizen
      BY <1>1, <2>4 DEF Call
    <2>6. /\ accounts' \in [Accounts -> Row \cup {None}] /\ accounts'[x] = new
          /\ \A y \in Accounts \ {x} : accounts'[y] = accounts[y]
      BY <2>1, <2>2 DEF TypeOK
    <2>7. Made' = Made \cup {x}
      BY <2>1, <2>3, <2>6 DEF Made
    <2>8. call' = [call EXCEPT ![r] = held] /\ pc' = [pc EXCEPT ![r] = "role"]
      BY <2>1, <2>4 DEF Goto
    <2>9. Leaves(r, "role", held) /\ "role" \in Labels
      BY <2>1, <2>7, <2>8 DEF Leaves, Labels
    <2>10. TypeOK' /\ pc'[r] = "role" /\ call'[r] = held
      BY <2>1, <2>6, <2>8, <2>9 DEF TypeOK
    <2>11. Held(r)'
      BY <2>5, <2>7, <2>10 DEF Held, OnEntity, OnChange
    <2>12. OneAccount'
      <3>1. Made \subseteq Accounts
        BY DEF Made
      <3> QED
        BY <2>1, <2>3, <2>6, <2>7, <3>1 DEF OneAccount
    <2>13. Recorded' /\ (mode # "overlap" => Concluded')
      BY <1>1, <2>1, <2>8, <2>9, HistoryKept DEF Leaves
    <2>14. ASSUME mode # "overlap"
           PROVE  /\ LeavesRows(r) /\ Sound' /\ HeldAlone(r)'
                  /\ \A q \in Requests \ {r} :
                       pc[q] # "idle" =>
                         /\ call[q].citizen # held.citizen
                         /\ pc[q] \in OnAccount => call[q].account # held.account
      <3>1. \A q \in Requests : pc[q] \in OnAccount =>
                 call[q].account # x /\ call[q].account \in Accounts
        BY <2>1, RowIsNotNone DEF Held
      <3>2. LeavesRows(r)
        BY <2>1, <2>6, <3>1 DEF LeavesRows
      <3>3. \A q \in Requests \ {r} : pc[q] # "idle" => call[q].citizen # call[r].citizen
        BY <1>1, <2>14 DEF Apart
      <3>4. BelongsTo(new, held.citizen)
        BY <2>1, <2>3, <2>5 DEF BelongsTo
      <3>5. HeldAlone(r)'
        BY <2>5, <2>6, <2>10, <3>4 DEF HeldAlone, OnEntity
      <3>6. Locked(new) /\ OneOwner(new)
        <4>1. None # "office"
          BY DEF Assumptions, Contacts
        <4> QED
          BY <2>3, <4>1 DEF Locked, OneOwner
      <3>7. \A y \in Made' : Locked(accounts'[y]) /\ OneOwner(accounts'[y])
        <4> SUFFICES ASSUME NEW y \in Made'
                     PROVE Locked(accounts'[y]) /\ OneOwner(accounts'[y])
          OBVIOUS
        <4>1. CASE y = x
          BY <2>6, <3>6, <4>1
        <4>2. CASE y # x
          BY <2>6, <2>7, <2>14, <4>2, RowIsNotNone DEF Sound
        <4> QED
          BY <4>1, <4>2
      <3>8. \A y \in Made : accounts'[y] = accounts[y]
        BY <2>1, <2>6, RowIsNotNone
      <3>9. \A n \in applied : changes[n].account \in Made
        BY DEF Recorded, TypeOK
      <3>10. Sound'
        <4>1. \A t \in tokens' : t[2] \in Made' /\ accounts'[t[2]].uniqid = t[1]
          BY <2>1, <2>7, <2>14, <3>8 DEF Sound
        <4>2. \A n \in applied' : accounts'[changes'[n].account].contact = "office"
          BY <2>1, <2>14, <3>8, <3>9 DEF Sound
        <4> QED
          BY <3>7, <4>1, <4>2 DEF Sound
      <3> QED
        BY <2>5, <3>1, <3>2, <3>3, <3>5, <3>10
    <2>15. ProfileInv'
      BY <2>9, <2>10, <2>11, <2>12, <2>13, <2>14, StepKeeps
    <2>16. EnrolledStay
      BY <2>1, <2>6 DEF EnrolledStay, Made
    <2> QED
      BY <2>15, <2>16
  <1> QED
    BY <1>2, <1>3

\* A request that writes the row of its account keeps the invariant, if the row
\* takes nothing back and the request knows what it wrote.
LEMMA WriteKeeps ==
  ASSUME Assumptions, ProfileInv, NEW r \in Requests,
         pc[r] \in OnAccount \ {"apply", "verdict"},
         NEW x, x = call[r].account, NEW new \in Row,
         NEW label \in OnAccount \ OnChange, NEW held \in Call,
         held.account = x, held.citizen = call[r].citizen,
         label \in OnEntity => held.entity \in Row,
         accounts' = [accounts EXCEPT ![x] = new],
         pc' = [pc EXCEPT ![r] = label], call' = [call EXCEPT ![r] = held],
         UNCHANGED <<changes, tokens, applied, calls, mode>>,
         new.uniqid = accounts[x].uniqid \/ ~UniqidTaken(x, new.uniqid),
         mode # "overlap" =>
           /\ BelongsTo(new, held.citizen) /\ Locked(new) /\ Extends(new, accounts[x])
           /\ label \in OnEntity => /\ BelongsTo(held.entity, held.citizen)
                                   /\ Locked(held.entity) /\ Extends(held.entity, new)
           /\ label = "saveUser" /\ held.endpoint = "exchange" =>
                held.entity.uniqid = held.citizen
           /\ label = "issue" /\ held.endpoint = "exchange" => new.uniqid = held.citizen
  PROVE  ProfileInv' /\ EnrolledStay
  <1>1. pc[r] \in OnAccount /\ pc[r] \notin {"idle", "apply", "verdict"}
    BY LabelSets
  <1>2. x \in Made /\ accounts[x] \in Row /\ x \in Accounts
    BY <1>1, RowIsNotNone DEF ProfileInv, Held
  <1>3. accounts'[x] = new
    BY <1>2 DEF ProfileInv, TypeOK
  <1>4. Made' = Made /\ accounts' \in [Accounts -> Row \cup {None}] /\ OneAccount'
    BY <1>1, RowKeeps
  <1>5. Leaves(r, label, held) /\ label \in Labels
    BY <1>4, LabelSets DEF Leaves
  <1>6. TypeOK' /\ pc'[r] = label /\ call'[r] = held
    BY <1>4, <1>5 DEF ProfileInv, TypeOK
  <1>7. Held(r)'
    BY <1>2, <1>4, <1>6, LabelSets DEF Held, OnChange
  <1>8. Recorded' /\ (mode # "overlap" => Concluded')
    BY <1>1, <1>4, HistoryKept
  <1>9. Stays(r, label, held)
    BY <1>1 DEF Stays
  <1>10. ASSUME mode # "overlap" PROVE LeavesRows(r) /\ Sound' /\ HeldAlone(r)'
    <2>1. BelongsTo(new, call[r].citizen) /\ Locked(new) /\ Extends(new, accounts[x])
      BY <1>10
    <2>2. Sound'
      BY <1>1, <1>10, <2>1, RowSound
    <2>5. \A q \in Requests \ {r} : pc[q] \in OnAccount =>
                    accounts'[call[q].account] = accounts[call[q].account]
      BY <1>1, <1>10, RowKeeps
    <2>3. LeavesRows(r)
      BY <2>5 DEF LeavesRows
    <2>4. HeldAlone(r)'
      BY <1>3, <1>6, <1>10, LabelSets DEF HeldAlone, OnChange
    <2> QED
      BY <2>2, <2>3, <2>4
  <1>11. ProfileInv'
    BY <1>4, <1>5, <1>6, <1>7, <1>8, <1>9, <1>10, StepKeeps
  <1>12. EnrolledStay
    BY EnrolledKept DEF ProfileInv
  <1> QED
    BY <1>11, <1>12

\* What a request on an account has at hand
LEMMA AtHand ==
  ASSUME ProfileInv, NEW r \in Requests, pc[r] \in OnAccount
  PROVE  /\ call[r] \in Call /\ call[r].account \in Made
         /\ accounts[call[r].account] \in Row
         /\ pc[r] \in OnEntity => call[r].entity \in Row
         /\ mode # "overlap" =>
              /\ BelongsTo(accounts[call[r].account], call[r].citizen)
              /\ Locked(accounts[call[r].account])
              /\ pc[r] \in OnEntity =>
                   /\ BelongsTo(call[r].entity, call[r].citizen)
                   /\ Locked(call[r].entity)
                   /\ Extends(call[r].entity, accounts[call[r].account])
  <1>1. call[r] \in Call /\ call[r].account \in Made /\ accounts[call[r].account] \in Row
    BY RowIsNotNone DEF ProfileInv, TypeOK, Held
  <1> QED
    BY <1>1 DEF ProfileInv, Held, HeldAlone, Sound

\* The role, and the account read again
LEMMA AssignRoleKeeps ==
  ASSUME Assumptions, ProfileInv, NEW r \in Requests, AssignRole(r)
  PROVE  ProfileInv' /\ EnrolledStay
  <1>1. PICK x : x = call[r].account
    OBVIOUS
  <1>2. pc[r] = "role" /\ pc[r] \in OnAccount \ {"apply", "verdict"}
    BY LabelSets DEF AssignRole
  <1>3. call[r] \in Call /\ x \in Made /\ accounts[x] \in Row
    BY <1>1, <1>2, AtHand
  <1>4. PICK new \in Row : new = [accounts[x] EXCEPT !.role = TRUE]
    <2>1. [accounts[x] EXCEPT !.role = TRUE] \in Row
      BY <1>3 DEF Row
    <2> QED
      BY <2>1
  <1>5. /\ new.email = accounts[x].email /\ new.uniqid = accounts[x].uniqid
        /\ new.contact = accounts[x].contact /\ new.locked = accounts[x].locked
        /\ new.enrolled = accounts[x].enrolled
    BY <1>3, <1>4 DEF Row
  <1>6. PICK held \in Call : held = [call[r] EXCEPT !.entity = new]
    <2>1. [call[r] EXCEPT !.entity = new] \in Call
      BY <1>3 DEF Call
    <2> QED
      BY <2>1
  <1>7. /\ held.account = x /\ held.citizen = call[r].citizen /\ held.entity = new
        /\ held.endpoint = call[r].endpoint
    BY <1>1, <1>3, <1>6 DEF Call
  <1>8. PICK label \in {"issue", "save"} :
          /\ label = IF call[r].endpoint = "login" THEN "issue" ELSE "save"
          /\ pc' = [pc EXCEPT ![r] = label]
          /\ accounts' = [accounts EXCEPT ![x] = new]
          /\ call' = [call EXCEPT ![r] = held]
          /\ UNCHANGED <<changes, tokens, applied, calls, mode>>
    BY <1>1, <1>4, <1>6 DEF AssignRole, Goto
  <1>9. label \in OnAccount \ OnChange
    BY LabelSets DEF OnEntity, OnChange
  <1>10. mode # "overlap" =>
           /\ BelongsTo(new, held.citizen) /\ Locked(new) /\ Extends(new, accounts[x])
           /\ Extends(held.entity, new)
    <2>1. mode # "overlap" =>
            BelongsTo(accounts[x], call[r].citizen) /\ Locked(accounts[x])
      BY <1>1, <1>2, AtHand
    <2> QED
      BY <1>5, <1>7, <2>1 DEF BelongsTo, Locked, Extends
  <1> QED
    BY <1>1, <1>2, <1>5, <1>7, <1>8, <1>9, <1>10, WriteKeeps

\* What the exchange merges into a profile takes nothing back.
LEMMA SsoExtends ==
  ASSUME Assumptions, NEW row \in Row, NEW c \in Citizens,
         NEW contact \in Contacts \cup {None}
  PROVE  LET new == ApplySsoProfile(row, c, contact) IN
         /\ new \in Row /\ new.uniqid = c /\ new.email = row.email
         /\ row.enrolled => new.enrolled
         /\ Locked(row) /\ row.contact = "office" => new.contact = "office"
         /\ new.locked
  <1>1. Merge(row, contact) \in Contacts \cup {None}
    BY DEF Merge, Row
  <1>2. Locked(row) /\ row.contact = "office" => Merge(row, contact) = "office"
    <2>1. None # "office"
      BY DEF Assumptions, Contacts
    <2> QED
      BY <2>1 DEF Merge, Locked
  <1>3. PICK m \in Contacts \cup {None} : m = Merge(row, contact)
    BY <1>1
  <1>4. PICK e \in BOOLEAN : e = (row.enrolled \/ c \in Fixtures)
    OBVIOUS
  <1>5. ApplySsoProfile(row, c, contact) =
          [row EXCEPT !.uniqid = c, !.contact = m, !.locked = TRUE, !.enrolled = e]
    BY <1>3, <1>4 DEF ApplySsoProfile
  <1>6. PICK new : new = [row EXCEPT !.uniqid = c, !.contact = m, !.locked = TRUE,
                                     !.enrolled = e]
    OBVIOUS
  <1>7. /\ new \in Row /\ new.uniqid = c /\ new.email = row.email
        /\ new.contact = m /\ new.locked /\ new.enrolled = e
    BY <1>6 DEF Row
  <1>8. /\ row.enrolled => new.enrolled
        /\ Locked(row) /\ row.contact = "office" => new.contact = "office"
    BY <1>2, <1>3, <1>4, <1>7
  <1> QED
    BY <1>5, <1>6, <1>7, <1>8

\* beneficiaries.save
LEMMA SaveProfileKeeps ==
  ASSUME Assumptions, ProfileInv, NEW r \in Requests, SaveProfile(r)
  PROVE  ProfileInv' /\ EnrolledStay
  <1>1. PICK x, c, old : x = call[r].account /\ c = call[r].citizen /\ old = call[r].entity
    OBVIOUS
  <1>2. /\ pc[r] = "save" /\ pc[r] \in OnAccount \ {"apply", "verdict"}
        /\ pc[r] \in OnEntity
    BY LabelSets DEF SaveProfile, OnEntity
  <1>3. /\ call[r] \in Call /\ x \in Made /\ accounts[x] \in Row /\ old \in Row
        /\ c \in Citizens /\ call[r].contact \in Contacts \cup {None}
    BY <1>1, <1>2, AtHand DEF Call
  <1>4. PICK entity : entity = IF call[r].endpoint = "exchange"
                               THEN ApplySsoProfile(old, c, call[r].contact) ELSE old
    OBVIOUS
  <1>5. /\ entity \in Row /\ entity.email = old.email
        /\ call[r].endpoint = "exchange" => entity.uniqid = c
        /\ call[r].endpoint # "exchange" => entity.uniqid = old.uniqid
        /\ old.enrolled => entity.enrolled
        /\ Locked(old) => Locked(entity)
        /\ Locked(old) /\ old.contact = "office" => entity.contact = "office"
    <2>1. CASE call[r].endpoint = "exchange"
      BY <1>3, <1>4, <2>1, SsoExtends DEF Locked
    <2>2. CASE call[r].endpoint # "exchange"
      BY <1>3, <1>4, <2>2
    <2> QED
      BY <2>1, <2>2
  <1>6. PICK new \in Row : new = [Saved(x, entity) EXCEPT !.email = accounts[x].email,
                                     !.password = accounts[x].password]
    <2>1. Saved(x, entity) \in Row
      BY <1>3, <1>5 DEF Saved, Row
    <2>2. [Saved(x, entity) EXCEPT !.email = accounts[x].email,
                                   !.password = accounts[x].password] \in Row
      BY <1>3, <2>1 DEF Row
    <2> QED
      BY <2>2
  <1>7. /\ new.email = accounts[x].email /\ new.uniqid = entity.uniqid
        /\ new.contact = entity.contact /\ new.locked = entity.locked
        /\ new.enrolled = entity.enrolled
    BY <1>3, <1>5, <1>6 DEF Saved, Row
  <1>8. CASE UniqidTaken(x, entity.uniqid)
    BY <1>1, <1>2, <1>4, <1>8, AnswerKeeps DEF SaveProfile
  <1>9. CASE ~UniqidTaken(x, entity.uniqid)
    <2>1. PICK held \in Call : held = [call[r] EXCEPT !.entity = entity]
      <3>1. [call[r] EXCEPT !.entity = entity] \in Call
        BY <1>3, <1>5 DEF Call
      <3> QED
        BY <3>1
    <2>2. /\ held.account = x /\ held.citizen = c /\ held.entity = entity
          /\ held.endpoint = call[r].endpoint
      BY <1>1, <1>3, <2>1 DEF Call
    <2>3. /\ accounts' = [accounts EXCEPT ![x] = new]
          /\ call' = [call EXCEPT ![r] = held] /\ pc' = [pc EXCEPT ![r] = "saveUser"]
          /\ UNCHANGED <<changes, tokens, applied, calls, mode>>
      BY <1>1, <1>4, <1>6, <1>9, <2>1 DEF SaveProfile, Goto
    <2>4. "saveUser" \in OnAccount \ OnChange
      BY DEF OnAccount, OnChange, Labels
    <2>5. ASSUME mode # "overlap"
          PROVE  /\ BelongsTo(new, c) /\ Locked(new) /\ Extends(new, accounts[x])
                 /\ BelongsTo(entity, c) /\ Locked(entity) /\ Extends(entity, new)
      <3>1. /\ BelongsTo(accounts[x], c) /\ BelongsTo(old, c) /\ Locked(old)
            /\ Extends(old, accounts[x])
        BY <1>1, <1>2, <2>5, AtHand
      <3> QED
        BY <1>5, <1>7, <3>1 DEF BelongsTo, Locked, Extends
    <2>6. new.uniqid = accounts[x].uniqid \/ ~UniqidTaken(x, new.uniqid)
      BY <1>7, <1>9
    <2> QED
      BY <1>1, <1>2, <1>5, <2>2, <2>3, <2>4, <2>5, <2>6, WriteKeeps
  <1> QED
    BY <1>8, <1>9

\* users.save
LEMMA SaveUserKeeps ==
  ASSUME Assumptions, ProfileInv, NEW r \in Requests, SaveUser(r)
  PROVE  ProfileInv' /\ EnrolledStay
  <1>1. PICK x, c, old : x = call[r].account /\ c = call[r].citizen /\ old = call[r].entity
    OBVIOUS
  <1>2. /\ pc[r] = "saveUser" /\ pc[r] \in OnAccount \ {"apply", "verdict"}
        /\ pc[r] \in OnEntity
    BY LabelSets DEF SaveUser, OnEntity
  <1>3. /\ call[r] \in Call /\ x \in Made /\ accounts[x] \in Row /\ old \in Row
        /\ c \in Citizens
    BY <1>1, <1>2, AtHand DEF Call
  <1>4. PICK entity : entity = IF call[r].mail THEN [old EXCEPT !.email = c] ELSE old
    OBVIOUS
  <1>5. /\ entity \in Row /\ entity.email \in {c, old.email}
        /\ entity.uniqid = old.uniqid /\ entity.contact = old.contact
        /\ entity.locked = old.locked /\ entity.enrolled = old.enrolled
    BY <1>3, <1>4 DEF Row
  <1>6. PICK new \in Row : new = Saved(x, entity)
    <2>1. Saved(x, entity) \in Row
      BY <1>3, <1>5 DEF Saved, Row
    <2> QED
      BY <2>1
  <1>7. /\ new.email = entity.email /\ new.uniqid = entity.uniqid
        /\ new.contact = entity.contact /\ new.locked = entity.locked
        /\ new.enrolled = entity.enrolled
    BY <1>3, <1>5, <1>6 DEF Saved, Row
  <1>8. CASE Answer(r)
    BY <1>2, <1>8, AnswerKeeps
  <1>9. CASE ~Answer(r)
    <2>1. /\ ~UniqidTaken(x, entity.uniqid)
          /\ accounts' = [accounts EXCEPT ![x] = new]
          /\ pc' = [pc EXCEPT ![r] = "issue"]
          /\ UNCHANGED <<changes, tokens, applied, call, calls, mode>>
      BY <1>1, <1>4, <1>6, <1>9 DEF SaveUser, Goto
    <2>2. PICK held \in Call : held = call[r]
      BY <1>3
    <2>3. call' = [call EXCEPT ![r] = held]
      BY <2>1, <2>2 DEF ProfileInv, TypeOK
    <2>4. "issue" \in OnAccount \ OnChange /\ "issue" \notin OnEntity
      BY DEF OnAccount, OnChange, OnEntity, Labels
    <2>5. ASSUME mode # "overlap"
          PROVE  /\ BelongsTo(new, c) /\ Locked(new) /\ Extends(new, accounts[x])
                 /\ call[r].endpoint = "exchange" => new.uniqid = c
      <3>1. /\ BelongsTo(accounts[x], c) /\ BelongsTo(old, c) /\ Locked(old)
            /\ Extends(old, accounts[x])
        BY <1>1, <1>2, <2>5, AtHand
      <3>2. call[r].endpoint = "exchange" => old.uniqid = c
        BY <1>1, <1>2, <2>5 DEF ProfileInv, HeldAlone
      <3> QED
        BY <1>5, <1>7, <3>1, <3>2 DEF BelongsTo, Locked, Extends
    <2>6. new.uniqid = accounts[x].uniqid \/ ~UniqidTaken(x, new.uniqid)
      BY <1>7, <2>1
    <2> QED
      BY <1>1, <1>2, <2>1, <2>2, <2>3, <2>4, <2>5, <2>6, WriteKeeps
  <1> QED
    BY <1>8, <1>9


\* The token names the account at hand.
LEMMA IssueKeeps ==
  ASSUME Assumptions, ProfileInv, NEW r \in Requests, Issue(r)
  PROVE  ProfileInv'
  <1> USE DEF ProfileInv
  <1>1. pc[r] = "issue" /\ pc[r] \in OnAccount
    BY LabelSets DEF Issue
  <1>2. PICK x, c : x = call[r].account /\ c = call[r].citizen
    OBVIOUS
  <1>3. x \in Made /\ x \in Accounts /\ c \in Citizens /\ call[r] \in Call
    BY <1>1, <1>2, AtHand DEF Call, Made
  <1>4. /\ UNCHANGED <<accounts, changes, applied, calls, mode>>
        /\ pc' = [pc EXCEPT ![r] = "idle"] /\ call' = [call EXCEPT ![r] = Idle]
        /\ \/ tokens' = tokens
           \/ call[r].endpoint = "exchange" /\ tokens' = tokens \cup {<<c, x>>}
    BY <1>2 DEF Issue, Goto
  <1>5. Leaves(r, "idle", Idle) /\ "idle" \in Labels /\ Made' = Made
    BY <1>4 DEF Leaves, Made, Labels
  <1>6. TypeOK' /\ pc'[r] = "idle"
    BY <1>3, <1>4, <1>5, IdleTyped DEF TypeOK
  <1>7. Held(r)' /\ HeldAlone(r)'
    BY <1>6, LabelSets DEF Held, HeldAlone, OnEntity, OnChange
  <1>8. OneAccount' /\ Recorded' /\ (mode # "overlap" => Concluded')
    BY <1>1, <1>4, <1>5, HistoryKept DEF OneAccount
  <1>9. ASSUME mode # "overlap" PROVE LeavesRows(r) /\ Sound'
    <2>1. call[r].endpoint = "exchange" => accounts[x].uniqid = c
      BY <1>1, <1>2, <1>9 DEF HeldAlone
    <2>2. \A t \in tokens' : t[2] \in Made' /\ accounts'[t[2]].uniqid = t[1]
      BY <1>3, <1>4, <1>5, <1>9, <2>1 DEF Sound
    <2> QED
      BY <1>4, <1>5, <1>9, <2>2 DEF Sound, LeavesRows
  <1> QED
    BY <1>5, <1>6, <1>7, <1>8, <1>9, IdleTyped, StepKeeps

\* eVerify answers: the entity is marked as enrolled.
LEMMA QueryKeeps ==
  ASSUME Assumptions, ProfileInv, NEW r \in Requests, QueryIdentity(r)
  PROVE  ProfileInv'
  <1> USE DEF ProfileInv
  <1>1. /\ pc[r] = "query" /\ pc[r] \in OnAccount /\ pc[r] \in OnEntity
        /\ pc[r] \notin {"idle", "verdict"}
    BY LabelSets DEF QueryIdentity, OnEntity
  <1>2. CASE Answer(r)
    BY <1>1, <1>2, AnswerKeeps
  <1>3. CASE ~Answer(r)
    <2>1. PICK contact \in {None, "everify"}, mail \in BOOLEAN :
            /\ call' = [call EXCEPT ![r].entity = Enrolled(@, contact),
                          ![r].mail = mail /\ WithEmail(call[r].citizen) = {}]
            /\ Goto(r, "save")
            /\ UNCHANGED <<accounts, changes, tokens, applied, calls, mode>>
      BY <1>3 DEF QueryIdentity
    <2>2. PICK x, c, old : /\ x = call[r].account /\ c = call[r].citizen
                           /\ old = call[r].entity
      OBVIOUS
    <2>3. /\ call[r] \in Call /\ x \in Made /\ accounts[x] \in Row /\ old \in Row
      BY <1>1, <2>2, AtHand
    <2>4. PICK k \in Contacts \cup {None} :
            k = IF (~old.locked \/ old.contact = None) /\ contact # None
                THEN contact ELSE old.contact
      BY <2>1, <2>3 DEF Row, Contacts
    <2>5. PICK entity \in Row : entity = [old EXCEPT !.enrolled = TRUE, !.contact = k]
      <3>1. [old EXCEPT !.enrolled = TRUE, !.contact = k] \in Row
        BY <2>3 DEF Row
      <3> QED
        BY <3>1
    <2>6. /\ entity.email = old.email /\ entity.uniqid = old.uniqid
          /\ entity.contact = k /\ entity.locked = old.locked /\ entity.enrolled
      BY <2>3, <2>5 DEF Row
    <2>7. Enrolled(old, contact) = entity
      BY <2>3, <2>4, <2>5 DEF Enrolled, Row
    <2>8. PICK m \in BOOLEAN : m = (mail /\ WithEmail(c) = {})
      OBVIOUS
    <2>9. PICK held \in Call : held = [call[r] EXCEPT !.entity = entity, !.mail = m]
      <3>1. [call[r] EXCEPT !.entity = entity, !.mail = m] \in Call
        BY <2>3 DEF Call
      <3> QED
        BY <3>1
    <2>10. /\ held.account = x /\ held.citizen = c /\ held.entity = entity
           /\ held.endpoint = call[r].endpoint
      BY <2>2, <2>3, <2>9 DEF Call
    <2>11. call' = [call EXCEPT ![r] = held]
      BY <2>1, <2>2, <2>7, <2>8, <2>9
    <2>12. pc' = [pc EXCEPT ![r] = "save"]
      BY <2>1 DEF Goto
    <2>13. Leaves(r, "save", held) /\ "save" \in Labels /\ Made' = Made
      BY <2>1, <2>11, <2>12 DEF Leaves, Made, Labels
    <2>14. TypeOK' /\ pc'[r] = "save" /\ call'[r] = held
      BY <2>1, <2>11, <2>12, <2>13 DEF TypeOK
    <2>15. Held(r)'
      BY <2>3, <2>10, <2>13, <2>14 DEF Held, OnChange
    <2>16. OneAccount' /\ Recorded' /\ (mode # "overlap" => Concluded')
      BY <1>1, <2>1, <2>11, <2>12, <2>13, HistoryKept DEF OneAccount
    <2>17. Stays(r, "save", held)
      BY <1>1, <2>2, <2>10 DEF Stays
    <2>18. ASSUME mode # "overlap" PROVE LeavesRows(r) /\ Sound' /\ HeldAlone(r)'
      <3>1. /\ BelongsTo(accounts[x], c) /\ BelongsTo(old, c) /\ Locked(old)
            /\ Extends(old, accounts[x])
        BY <1>1, <2>2, <2>18, AtHand
      <3>2. /\ "everify" # "office" /\ None # "office"
        BY DEF Assumptions, Contacts
      <3>3. BelongsTo(entity, c) /\ Locked(entity) /\ Extends(entity, accounts[x])
        <4>1. old.contact = "office" => k = "office"
          BY <2>4, <3>1, <3>2 DEF Locked
        <4>2. k = "office" => old.contact = "office"
          BY <2>1, <2>4, <3>2
        <4> QED
          BY <2>6, <3>1, <4>1, <4>2 DEF BelongsTo, Locked, Extends
      <3>4. HeldAlone(r)'
        BY <2>1, <2>10, <2>14, <3>1, <3>3 DEF HeldAlone
      <3> QED
        BY <2>1, <2>13, <2>18, <3>4 DEF Sound, LeavesRows
    <2> QED
      BY <2>13, <2>14, <2>15, <2>16, <2>17, <2>18, StepKeeps
  <1> QED
    BY <1>2, <1>3

\* A step that writes one change, at the end of its request
LEMMA ChangeKeeps ==
  ASSUME Assumptions, ProfileInv, NEW r \in Requests, pc[r] \in {"documents", "verdict"},
         NEW n, n = call[r].change, NEW new \in Change,
         new.account = changes[n].account,
         pc[r] = "documents" => new.state = changes[n].state,
         pc[r] = "verdict" =>
            new.state = IF call[r].approve THEN "approved" ELSE "rejected",
         changes' = [changes EXCEPT ![n] = new],
         pc' = [pc EXCEPT ![r] = "idle"], call' = [call EXCEPT ![r] = Idle],
         UNCHANGED <<accounts, tokens, applied, calls, mode>>
  PROVE  ProfileInv'
  <1> USE DEF ProfileInv
  <1>1. /\ n \in Changes /\ changes[n] \in Change /\ changes[n].account \in Made
        /\ changes[n].account = call[r].account /\ changes[n] # None
    BY RowIsNotNone DEF Held, OnChange, Recorded
  <1>2. /\ changes' \in [Changes -> Change \cup {None}] /\ changes'[n] = new
        /\ \A m \in Changes \ {n} : changes'[m] = changes[m]
    BY <1>1 DEF TypeOK
  <1>3. new # None
    BY DEF Assumptions
  <1>4. Made' = Made
    BY DEF Made
  <1>5. Leaves(r, "idle", Idle) /\ "idle" \in Labels
    BY <1>2, <1>3, <1>4 DEF Leaves, Labels
  <1>6. TypeOK' /\ pc'[r] = "idle"
    BY <1>2, <1>5, IdleTyped DEF TypeOK
  <1>7. Held(r)' /\ HeldAlone(r)'
    BY <1>6, LabelSets DEF Held, HeldAlone, OnEntity, OnChange
  <1>8. OneAccount'
    BY <1>4 DEF OneAccount
  <1>9. Recorded'
    <2>1. new.state = "approved" => n \in applied
      <3>1. CASE pc[r] = "documents"
        BY <1>1, <3>1 DEF Recorded
      <3>2. CASE pc[r] = "verdict"
        <4>1. call[r].approve => n \in applied
          BY <3>2 DEF Held
        <4> QED
          BY <3>2, <4>1
      <3> QED
        BY <3>1, <3>2
    <2> QED
      BY <1>1, <1>2, <1>3, <1>4, <2>1 DEF Recorded
  <1>10. ASSUME mode # "overlap" PROVE LeavesRows(r) /\ Sound' /\ Concluded'
    <2>1. \A q \in Requests \ {r} : pc[q] \in {"apply", "verdict"} =>
                                    call[q].change \in Changes \ {n}
      <3> SUFFICES ASSUME NEW q \in Requests \ {r}, pc[q] \in {"apply", "verdict"}
                   PROVE  call[q].change \in Changes /\ call[q].change # n
        OBVIOUS
      <3>1. call[q].change \in Changes /\ changes[call[q].change].account = call[q].account
        BY DEF Held, OnChange
      <3>2. call[q].account # call[r].account
        BY <1>10, LabelSets DEF Apart, OnChange
      <3> QED
        BY <1>1, <3>1, <3>2
    <2>2. LeavesRows(r)
      BY <1>2, <2>1 DEF LeavesRows
    <2>3. applied \subseteq Changes
      BY DEF TypeOK
    <2>4. Sound'
      BY <1>1, <1>2, <1>4, <1>10, <2>3 DEF Sound
    <2>5. ASSUME mode = "alone", NEW m \in applied
          PROVE  \/ changes'[m].state = "approved"
                 \/ \E q \in Requests : /\ pc'[q] = "verdict" /\ call'[q].change = m
                                        /\ call'[q].approve
      <3>1. CASE changes[m].state = "approved"
        <4>1. m # n \/ pc[r] = "documents"
          BY <1>10, <2>5, <3>1 DEF HeldAlone
        <4> QED
          BY <1>2, <2>3, <3>1, <4>1
      <3>2. ASSUME NEW q \in Requests, pc[q] = "verdict", call[q].change = m, call[q].approve
            PROVE  \/ changes'[m].state = "approved"
                   \/ \E p \in Requests : /\ pc'[p] = "verdict" /\ call'[p].change = m
                                          /\ call'[p].approve
        <4>1. CASE q = r
          BY <1>2, <3>2, <4>1
        <4>2. CASE q # r
          <5>1. pc'[q] = pc[q] /\ call'[q] = call[q]
            BY <4>2 DEF TypeOK
          <5> QED
            BY <3>2, <5>1
        <4> QED
          BY <4>1, <4>2
      <3> QED
        BY <1>10, <2>5, <3>1, <3>2 DEF Concluded
    <2>6. Concluded'
      BY <2>5 DEF Concluded
    <2> QED
      BY <2>2, <2>4, <2>6
  <1> QED
    BY <1>5, <1>6, <1>7, <1>8, <1>9, <1>10, IdleTyped, StepKeeps

LEMMA ChangeStepsKeep ==
  ASSUME Assumptions, ProfileInv, NEW r \in Requests,
         AttachDocuments(r) \/ WriteVerdict(r)
  PROVE  ProfileInv'
  <1>1. PICK n : n = call[r].change
    OBVIOUS
  <1>2. /\ pc[r] \in {"documents", "verdict"} /\ n \in Changes
        /\ changes[n] \in Change
    BY <1>1, RowIsNotNone DEF AttachDocuments, WriteVerdict, ProfileInv, Held, OnChange
  <1>3. CASE AttachDocuments(r)
    <2>1. PICK new \in Change : new = [changes[n] EXCEPT !.documents = TRUE]
      <3>1. [changes[n] EXCEPT !.documents = TRUE] \in Change
        BY <1>2 DEF Change
      <3> QED
        BY <3>1
    <2>2. new.account = changes[n].account /\ new.state = changes[n].state
      BY <1>2, <2>1 DEF Change
    <2>3. /\ pc[r] = "documents" /\ changes' = [changes EXCEPT ![n] = new]
          /\ pc' = [pc EXCEPT ![r] = "idle"] /\ call' = [call EXCEPT ![r] = Idle]
          /\ UNCHANGED <<accounts, tokens, applied, calls, mode>>
      BY <1>1, <1>3, <2>1 DEF AttachDocuments, Goto
    <2> QED
      BY <1>1, <2>2, <2>3, ChangeKeeps
  <1>4. CASE WriteVerdict(r)
    <2>1. PICK s \in {"approved", "rejected"} :
            s = IF call[r].approve THEN "approved" ELSE "rejected"
      OBVIOUS
    <2>2. PICK new \in Change : new = [changes[n] EXCEPT !.state = s]
      <3>1. [changes[n] EXCEPT !.state = s] \in Change
        BY <1>2 DEF Change
      <3> QED
        BY <3>1
    <2>3. new.account = changes[n].account /\ new.state = s
      BY <1>2, <2>2 DEF Change
    <2>4. /\ pc[r] = "verdict" /\ changes' = [changes EXCEPT ![n] = new]
          /\ pc' = [pc EXCEPT ![r] = "idle"] /\ call' = [call EXCEPT ![r] = Idle]
          /\ UNCHANGED <<accounts, tokens, applied, calls, mode>>
      BY <1>1, <1>4, <2>1, <2>2 DEF WriteVerdict, Goto
    <2> QED
      BY <1>1, <2>1, <2>3, <2>4, ChangeKeeps
  <1> QED
    BY <1>3, <1>4

\* applyProposedChanges
LEMMA ApplyKeeps ==
  ASSUME Assumptions, ProfileInv, NEW r \in Requests, ApplyChange(r)
  PROVE  ProfileInv' /\ EnrolledStay
  <1> USE DEF ProfileInv
  <1>1. pc[r] = "apply" /\ pc[r] \in OnAccount
    BY LabelSets DEF ApplyChange, OnChange
  <1>2. PICK x, n, held : x = call[r].account /\ n = call[r].change /\ held = call[r]
    OBVIOUS
  <1>3. /\ held \in Call /\ x \in Made /\ x \in Accounts /\ accounts[x] \in Row
        /\ n \in Changes /\ changes[n] # None /\ changes[n].account = x
        /\ held.approve
    BY <1>1, <1>2, AtHand DEF Held, OnChange, Made
  <1>4. PICK new \in Row : new = [accounts[x] EXCEPT !.contact = "office", !.locked = TRUE]
    <2>1. [accounts[x] EXCEPT !.contact = "office", !.locked = TRUE] \in Row
      BY <1>3 DEF Row, Contacts
    <2> QED
      BY <2>1
  <1>5. /\ new.email = accounts[x].email /\ new.uniqid = accounts[x].uniqid
        /\ new.contact = "office" /\ new.locked
        /\ new.enrolled = accounts[x].enrolled
    BY <1>3, <1>4 DEF Row
  <1>6. /\ accounts' = [accounts EXCEPT ![x] = new]
        /\ applied' = applied \cup {n} /\ pc' = [pc EXCEPT ![r] = "verdict"]
        /\ UNCHANGED <<changes, tokens, call, calls, mode>>
    <2>1. accounts' = [accounts EXCEPT ![x].contact = "office", ![x].locked = TRUE]
      BY <1>2 DEF ApplyChange
    <2>2. [accounts EXCEPT ![x].contact = "office", ![x].locked = TRUE]
            = [accounts EXCEPT ![x] = [accounts[x] EXCEPT !.contact = "office",
                                                          !.locked = TRUE]]
      BY <1>3 DEF TypeOK
    <2> QED
      BY <1>2, <1>4, <2>1, <2>2 DEF ApplyChange, Goto
  <1>7. accounts'[x] = new
    BY <1>3, <1>6 DEF TypeOK
  <1>8. Made' = Made /\ accounts' \in [Accounts -> Row \cup {None}] /\ OneAccount'
    BY <1>1, <1>2, <1>5, <1>6, RowKeeps
  <1>9. call' = [call EXCEPT ![r] = held]
    BY <1>2, <1>6 DEF TypeOK
  <1>10. Leaves(r, "verdict", held) /\ "verdict" \in Labels
    BY <1>6, <1>8, <1>9 DEF Leaves, Labels
  <1>11. TypeOK' /\ pc'[r] = "verdict" /\ call'[r] = held
    BY <1>3, <1>6, <1>8, <1>9, <1>10 DEF TypeOK
  <1>12. Held(r)'
    BY <1>2, <1>3, <1>6, <1>8, <1>11 DEF Held, OnEntity
  <1>13. Recorded'
    BY <1>3, <1>6, <1>8 DEF Recorded
  <1>14. Stays(r, "verdict", held)
    BY <1>1, <1>2 DEF Stays
  <1>15. ASSUME mode # "overlap"
         PROVE  LeavesRows(r) /\ Sound' /\ Concluded' /\ HeldAlone(r)'
    <2>1. BelongsTo(accounts[x], call[r].citizen)
      BY <1>1, <1>2, <1>15, AtHand
    <2>2. BelongsTo(new, call[r].citizen) /\ Locked(new) /\ Extends(new, accounts[x])
      BY <1>5, <2>1 DEF BelongsTo, Locked, Extends
    <2>3. \A m \in applied' :
            /\ changes'[m].account = changes[m].account
            /\ m \in applied \/ (changes[m].account = x /\ new.contact = "office")
      BY <1>3, <1>5, <1>6
    <2>8. /\ accounts' = [accounts EXCEPT ![x] = new] /\ tokens' = tokens
          /\ new.uniqid = accounts[x].uniqid
      BY <1>5, <1>6
    <2>4. /\ Sound'
          /\ \A q \in Requests \ {r} : pc[q] \in OnAccount =>
                    accounts'[call[q].account] = accounts[call[q].account]
      <3> HIDE DEF ProfileInv
      <3>1. \A q \in Requests \ {r} : pc[q] \in OnAccount =>
                    accounts'[call[q].account] = accounts[call[q].account]
        BY <1>1, <1>2, <1>15, <2>8, RowKeeps
      <3>2. Sound'
        BY <1>1, <1>2, <1>15, <2>2, <2>3, <2>8, RowSound
      <3> QED
        BY <3>1, <3>2
    <2>5. LeavesRows(r)
      BY <1>6, <2>4 DEF LeavesRows
    <2>6. HeldAlone(r)'
      BY <1>1, <1>2, <1>5, <1>6, <1>7, <1>11, <1>15, <2>1, <2>2
      DEF HeldAlone, OnEntity
    <2>7. Concluded'
      <3>1. \A q \in Requests : pc[q] = "verdict" => pc'[q] = "verdict"
        BY <1>6 DEF TypeOK
      <3>2. pc'[r] = "verdict" /\ call'[r].change = n /\ call'[r].approve
        BY <1>2, <1>3, <1>11
      <3> QED
        BY <1>6, <1>15, <3>1, <3>2 DEF Concluded
    <2> QED
      BY <2>4, <2>5, <2>6, <2>7
  <1>16. ProfileInv'
    BY <1>8, <1>10, <1>11, <1>12, <1>13, <1>14, <1>15, <1>3, StepKeeps
  <1>17. EnrolledStay
    <2>1. Extends(new, accounts[x])
      BY <1>5 DEF Extends
    <2> QED
      BY <1>6, <2>1, EnrolledKept
  <1> QED
    BY <1>16, <1>17

----------------------------------------------------------------------------
\* Any step keeps the invariant.
LEMMA ProfileInductive ==
  ASSUME Assumptions, ProfileInv, [Next]_vars
  PROVE  ProfileInv'
  <1>1. ASSUME NEW r \in Requests, Drop(r) PROVE ProfileInv'
    BY <1>1, AnswerKeeps DEF Drop
  <1>2. CASE UNCHANGED vars
    BY <1>2 DEF vars, ProfileInv, TypeOK, Made, Held, OneAccount, Recorded, Apart,
                Sound, Concluded, HeldAlone
  <1>3. CASE Next
    BY <1>1, <1>3, BeginsKeep, BeginFileKeeps, FindKeeps, InsertKeeps,
       AssignRoleKeeps, SaveProfileKeeps, SaveUserKeeps, IssueKeeps, QueryKeeps,
       ChangeStepsKeep, ApplyKeeps DEF Next
  <1> QED
    BY <1>2, <1>3

LEMMA ProfileHolds == ASSUME Assumptions PROVE Spec => []ProfileInv
  <1>1. Init => ProfileInv
    <2> SUFFICES ASSUME Init PROVE ProfileInv
      OBVIOUS
    <2>1. TypeOK /\ Made = {}
      BY IdleTyped DEF Init, TypeOK, Labels, Made
    <2>2. \A r \in Requests : Held(r) /\ HeldAlone(r)
      BY LabelSets DEF Init, Held, HeldAlone, OnEntity, OnChange
    <2> QED
      BY <2>1, <2>2 DEF Init, ProfileInv, OneAccount, Recorded, Apart, Sound, Concluded
  <1> QED
    BY <1>1, ProfileInductive, PTL DEF Spec

\* The accounts, the changes and what requests hold are well formed in every
\* interleaving of logins, enrolments and decisions (auth.service.ts).
THEOREM ProfilesTyped == ASSUME Assumptions PROVE Spec => []TypeOK
  <1>1. ProfileInv => TypeOK
    BY DEF ProfileInv
  <1> QED
    BY <1>1, ProfileHolds, PTL

\* However logins overlap or die, a citizen's identity is on one account; a login
\* token names the account with his identity, and what an office approved was
\* applied and is taken back by no login or enrolment, as long as requests about
\* him do not overlap (auth.service.ts, applySsoProfile and ssoExchange;
\* office-ops.service.ts, decideProfileChangeRequest).
THEOREM ProfileSoundHolds == ASSUME Assumptions PROVE Spec => []ProfileSound
  <1>1. ProfileInv => IdentityOnOneAccount
    BY DEF ProfileInv, OneAccount, Sound, IdentityOnOneAccount
  <1>2. ProfileInv => ApprovedChangeKept
    <2> SUFFICES ASSUME ProfileInv PROVE ApprovedChangeKept
      OBVIOUS
    <2>1. mode # "overlap" =>
            \A n \in applied : accounts[changes[n].account].contact = "office"
      BY DEF ProfileInv, Sound
    <2>2. \A n \in Changes : changes[n] # None /\ changes[n].state = "approved" =>
                               n \in applied
      BY DEF ProfileInv, Recorded
    <2>3. mode = "alone" => \A n \in applied :
             \/ changes[n].state = "approved"
             \/ \E r \in Busy : call[r].change = n /\ pc[r] = "verdict"
      BY DEF ProfileInv, Concluded, Busy
    <2> QED
      BY <2>1, <2>2, <2>3 DEF ApprovedChangeKept
  <1>3. ProfileInv => ProfileSound
    BY <1>1, <1>2 DEF ProfileSound
  <1> QED
    BY <1>3, ProfileHolds, PTL

\* No login, enrolment or office decision takes an enrolment back
\* (auth.service.ts, firstTimeEverify and applySsoProfile).
THEOREM EnrolmentIsPermanent == ASSUME Assumptions PROVE Spec => EnrolmentPermanent
  <1>1. ASSUME ProfileInv, [Next]_vars PROVE EnrolledStay
    <2>1. CASE UNCHANGED accounts
      BY <2>1 DEF EnrolledStay
    <2>2. ASSUME NEW r \in Requests,
                 \/ InsertAccount(r) \/ AssignRole(r) \/ SaveProfile(r)
                 \/ SaveUser(r) \/ ApplyChange(r)
          PROVE  EnrolledStay
      BY <1>1, <2>2, InsertKeeps, AssignRoleKeeps, SaveProfileKeeps, SaveUserKeeps,
         ApplyKeeps
    <2>3. ASSUME NEW r \in Requests, NEW c \in Citizens,
                 \/ BeginExchange(r, c) \/ BeginLogin(r, c) \/ BeginEnrol(r, c)
                 \/ BeginFile(r, c) \/ BeginDecide(r, c)
          PROVE  UNCHANGED accounts
      BY <2>3 DEF Begin, BeginExchange, BeginLogin, BeginEnrol, BeginFile, BeginDecide
    <2>4. ASSUME NEW r \in Requests,
                 \/ FindAccount(r) \/ Issue(r) \/ QueryIdentity(r)
                 \/ AttachDocuments(r) \/ WriteVerdict(r) \/ Drop(r)
          PROVE  UNCHANGED accounts
      BY <2>4 DEF FindAccount, Issue, QueryIdentity, AttachDocuments, WriteVerdict,
                  Drop, Answer
    <2>5. UNCHANGED vars => UNCHANGED accounts
      BY DEF vars
    <2> QED
      BY <1>1, <2>1, <2>2, <2>3, <2>4, <2>5 DEF Next
  <1>2. ProfileInv /\ [Next]_vars =>
          [\A x \in Accounts :
              mode # "overlap" /\ accounts[x] # None /\ accounts[x].enrolled
              => accounts'[x] # None /\ accounts'[x].enrolled]_vars
    BY <1>1 DEF EnrolledStay
  <1> QED
    BY <1>2, ProfileHolds, PTL DEF Spec, EnrolmentPermanent

----------------------------------------------------------------------------
(* Sets of numbers *)

\* A set of naturals has a least member.
LEMMA Least ==
  ASSUME NEW T \in SUBSET Nat, T # {}
  PROVE  \E i \in T : \A j \in T : ~(j < i)
<1> DEFINE R == {ss \in Nat \X Nat : ss[1] < ss[2]}
<1>1. IsWellFoundedOn(R, Nat)
  BY NatLessThanWellFounded DEF OpToRel
<1> HIDE DEF R
<1>2. \E i \in T : \A j \in T : ~(<<j, i>> \in R)
  BY <1>1, WFMin
<1> QED BY <1>2 DEF R

\* A set of bounded ones has a greatest.
LEMMA Greatest ==
  ASSUME NEW n \in Nat, NEW T \in SUBSET (0..n), T # {}
  PROVE  \E x \in T : \A y \in T : x >= y
<1> DEFINE above == {n - y : y \in T}
<1>1. above \in SUBSET Nat /\ above # {}
  <2>1. \A y \in T : y \in 0..n
    OBVIOUS
  <2>2. \A y \in T : n - y \in Nat
    BY <2>1
  <2> QED BY <2>2
<1>2. PICK m \in above : \A k \in above : ~(k < m)
  <2> HIDE DEF above
  <2> QED BY <1>1, Least
<1>3. PICK x \in T : m = n - x
  BY <1>2
<1>4. ASSUME NEW y \in T PROVE x >= y
  <2>1. n - y \in above
    OBVIOUS
  <2>2. ~(n - y < m)
    BY <1>2, <2>1
  <2> QED BY <1>3, <2>2
<1> QED BY <1>4

----------------------------------------------------------------------------
(* The pages that plan *)

\* Reviews start with the applications, as saves and forms leave it.
Paired(w) == w # None => w.review_start = w.application_start

ServerOK ==
  /\ windows \in Plan!Windows \cup {None} /\ Paired(windows)
  /\ slots \in [PlanSlots -> Plan!Row]
  /\ booking \in PlanSlots \cup {None}

ClockOK ==
  /\ today \in 0..LastToday
  /\ opened \subseteq PlanPages /\ planMode \in PlanModes
  /\ planOps \in 0..PlanMaxOps[planMode]

PagesOK ==
  /\ page \in [PlanPages -> Plan!Page]
  /\ \A p \in PlanPages : Paired(page[p].windows)

\* A call that saves windows has some.
SentOK(w) == w \in Plan!Windows /\ w.review_start = w.application_start

CallOK(c) ==
  c # None => /\ Paired(c.windows)
              /\ c.op = "window" => SentOK(c.windows)

CallsOK ==
  /\ planCall \in [PlanPages -> Plan!Call \cup {None}]
  /\ \A p \in PlanPages : CallOK(planCall[p])

LoadsOK ==
  /\ load \in [PlanPages -> Plan!Load \cup {None}]
  /\ \A p \in PlanPages : load[p] # None => Paired(load[p].windows)

PlanInv == ServerOK /\ ClockOK /\ PagesOK /\ CallsOK /\ LoadsOK

LEMMA PlanTyped == PlanInv => Plan!TypeOK
BY DEF PlanInv, ServerOK, ClockOK, PagesOK, CallsOK, LoadsOK, Plan!TypeOK

\* days and instants are of the calendar
LEMMA DaysFacts ==
  ASSUME Plan!Assumptions
  PROVE  /\ LastDay \in Nat /\ LastToday \in Nat /\ LastToday <= LastDay /\ 2 <= LastDay
         /\ Plan!Floor = 2 /\ Plan!LeadDays = 2
         /\ Plan!Days = 0..LastDay /\ Plan!Instants = 0..(2 * LastDay + 1)
         /\ Plan!Floor \in Plan!Days
         /\ \A d \in Plan!Days : Plan!Morning(d) \in Plan!Instants /\ Plan!Evening(d) \in Plan!Instants
         /\ \A t \in Plan!Instants : Plan!DayOf(t) \in Plan!Days
         /\ None \notin Plan!Instants
<1>1. LastDay \in Nat /\ LastToday \in 0..LastDay /\ 2 \in 0..LastDay
  BY DEF Plan!Assumptions, Plan!Days, Plan!LeadDays
<1> QED BY <1>1 DEF Plan!Assumptions, Plan!Days, Plan!Instants, Plan!LeadDays, Plan!Floor, Plan!Morning,
                    Plan!Evening, Plan!DayOf

\* The first and the last of some days are days.
LEMMA FirstAndLast ==
  ASSUME Plan!Assumptions, NEW D \in SUBSET Plan!Days, D # {}
  PROVE  Plan!Min(D) \in D /\ Plan!Max(D) \in D
<1>1. LastDay \in Nat /\ D \in SUBSET (0..LastDay)
  BY DaysFacts
<1>2. D \in SUBSET Nat
  BY <1>1
<1>3. \E x \in D : \A y \in D : x <= y
  <2>1. PICK i \in D : \A j \in D : ~(j < i)
    BY <1>2, Least
  <2> QED BY <1>2, <2>1
<1>4. \E x \in D : \A y \in D : x >= y
  BY <1>1, Greatest
<1> QED BY <1>3, <1>4 DEF Plan!Min, Plan!Max

LEMMA Normalized ==
  ASSUME NEW w \in Plan!Windows
  PROVE  /\ Plan!Normalize(w) \in Plan!Windows
         /\ Paired(w) /\ w # None => Plan!Normalize(w) = w
BY DEF Plan!Normalize, Plan!Or, Plan!Windows, Plan!Moment, Paired

LEMMA UnsetWindows == Plan!Unset \in Plan!Windows /\ Paired(Plan!Unset)
BY DEF Plan!Unset, Plan!Windows, Plan!Moment, Paired

LEMMA PlanInit == ASSUME Plan!Assumptions, Plan!Init PROVE PlanInv
<1>1. ServerOK
  <2>1. slots \in [PlanSlots -> Plan!Row]
    BY DaysFacts DEF Plan!Init, Plan!NoSlot, Plan!Row
  <2>2. windows \in Plan!Windows \cup {None} /\ Paired(windows)
    BY DEF Plan!Init, Plan!Windows, Plan!Moment, Plan!Assumptions, Paired
  <2> QED BY <2>1, <2>2 DEF Plan!Init, ServerOK
<1>2. ClockOK
  <2>1. planMode \in PlanModes /\ opened \subseteq PlanPages /\ today = 0 /\ planOps = 0
    BY DEF Plan!Init
  <2>2. PlanMaxOps[planMode] \in Nat
    BY <2>1 DEF Plan!Assumptions
  <2>3. LastToday \in Nat
    BY DaysFacts
  <2> QED BY <2>1, <2>2, <2>3 DEF ClockOK
<1>3. PagesOK
  <2>1. Plan!Blank \in Plan!Page
    BY DaysFacts DEF Plan!Blank, Plan!Page, Plan!NoSlot, Plan!Row, Plan!Moment
  <2> QED BY <2>1 DEF PagesOK, Plan!Init, Plan!Blank, Paired
<1>4. CallsOK
  BY DEF CallsOK, CallOK, Plan!Init
<1>5. LoadsOK
  <2>1. Plan!Asked \in Plan!Load
    BY DaysFacts DEF Plan!Asked, Plan!Load, Plan!NoSlot, Plan!Row
  <2> QED BY <2>1 DEF LoadsOK, Plan!Init, Plan!Asked, Paired
<1> QED BY <1>1, <1>2, <1>3, <1>4, <1>5 DEF PlanInv

\* the parts that a step on the pages leaves alone
ServerStays == UNCHANGED <<windows, slots, booking>>

LEMMA ServerKept == ASSUME ServerOK, ServerStays PROVE ServerOK'
BY DEF ServerOK, ServerStays, Paired

LEMMA ClockKept == ASSUME ClockOK, UNCHANGED <<today, opened, planOps, planMode>> PROVE ClockOK'
BY DEF ClockOK

LEMMA PagesKept == ASSUME PagesOK, UNCHANGED page PROVE PagesOK'
BY DEF PagesOK, Paired

LEMMA CallsKept == ASSUME CallsOK, UNCHANGED planCall PROVE CallsOK'
BY DEF CallsOK, CallOK, Paired

LEMMA LoadsKept == ASSUME LoadsOK, UNCHANGED load PROVE LoadsOK'
BY DEF LoadsOK, Paired

LEMMA PageSet ==
  ASSUME PagesOK, NEW p \in PlanPages, NEW new \in Plan!Page, Paired(new.windows),
         page' = [page EXCEPT ![p] = new]
  PROVE  PagesOK'
BY DEF PagesOK, Paired

LEMMA CallSet ==
  ASSUME CallsOK, NEW p \in PlanPages, NEW new \in Plan!Call \cup {None}, CallOK(new),
         planCall' = [planCall EXCEPT ![p] = new]
  PROVE  CallsOK'
BY DEF CallsOK, CallOK, Paired

LEMMA LoadSet ==
  ASSUME LoadsOK, NEW p \in PlanPages, NEW new \in Plan!Load \cup {None},
         new # None => Paired(new.windows), load' = [load EXCEPT ![p] = new]
  PROVE  LoadsOK'
BY DEF LoadsOK, Paired

\* A call that goes on to its next stage is as it was.
LEMMA CallStaged ==
  ASSUME CallsOK, NEW p \in PlanPages, planCall[p] # None,
         NEW stage \in {"sent", "done", "failed", "reload"},
         planCall' = [planCall EXCEPT ![p].stage = stage]
  PROVE  CallsOK'
<1> DEFINE new == [planCall[p] EXCEPT !.stage = stage]
<1>1. planCall[p] \in Plan!Call /\ CallOK(planCall[p])
  BY DEF CallsOK
<1>2. new \in Plan!Call /\ new.windows = planCall[p].windows /\ new.op = planCall[p].op
  BY <1>1 DEF Plan!Call
<1>3. CallOK(new)
  BY <1>1, <1>2 DEF CallOK
<1>4. planCall' = [planCall EXCEPT ![p] = new]
  OBVIOUS
<1> HIDE DEF new
<1> QED BY <1>2, <1>3, <1>4, CallSet

LEMMA BookKeeps ==
  ASSUME PlanInv, NEW s \in PlanSlots, Plan!Book(s)
  PROVE  PlanInv'
<1>1. ServerOK'
  <2>1. slots \in [PlanSlots -> Plan!Row] /\ windows' = windows /\ booking' = s
    BY DEF PlanInv, ServerOK, Plan!Book
  <2>2. slots' \in [PlanSlots -> Plan!Row]
    <3>1. \A t \in PlanSlots :
            /\ slots[t] \in Plan!Row
            /\ [slots[t] EXCEPT !.booked = 1, !.status = "closed"] \in Plan!Row
            /\ [slots[t] EXCEPT !.booked = 0,
                                !.status = IF @ = "closed" THEN "open" ELSE @] \in Plan!Row
      <4> SUFFICES ASSUME NEW t \in PlanSlots
                   PROVE  LET row == slots[t] IN
                          /\ row \in Plan!Row
                          /\ [row EXCEPT !.booked = 1, !.status = "closed"] \in Plan!Row
                          /\ [row EXCEPT !.booked = 0,
                                !.status = IF @ = "closed" THEN "open" ELSE @] \in Plan!Row
        OBVIOUS
      <4>1. slots[t] \in Plan!Row
        BY <2>1
      <4>2. \A row \in Plan!Row, x \in {"none", "open", "closed", "cancelled"}, n \in 0..1 :
               [row EXCEPT !.booked = n, !.status = x] \in Plan!Row
        BY DEF Plan!Row
      <4>3. /\ 0 \in 0..1 /\ 1 \in 0..1
            /\ {slots[t].status, "open", "closed"} \subseteq {"none", "open", "closed", "cancelled"}
        BY <4>1 DEF Plan!Row
      <4>4. \A x \in {slots[t].status, "open", "closed"}, n \in 0..1 :
               [slots[t] EXCEPT !.booked = n, !.status = x] \in Plan!Row
        BY <4>1, <4>2, <4>3
      <4>5. [slots[t] EXCEPT !.booked = 1, !.status = "closed"] \in Plan!Row
        BY <4>3, <4>4
      <4>6. [slots[t] EXCEPT !.booked = 0,
                !.status = IF @ = "closed" THEN "open" ELSE @] \in Plan!Row
        BY <4>3, <4>4
      <4> QED BY <4>1, <4>5, <4>6
    <3> QED BY <3>1 DEF Plan!Book
  <2> QED BY <2>1, <2>2 DEF PlanInv, ServerOK, Paired
<1> QED BY <1>1, ClockKept, PagesKept, CallsKept, LoadsKept DEF PlanInv, Plan!Book

LEMMA DawnKeeps == ASSUME Plan!Assumptions, PlanInv, Plan!Dawn PROVE PlanInv'
<1>1. ClockOK'
  <2>1. LastToday \in Nat /\ today \in 0..LastToday
    BY DaysFacts DEF PlanInv, ClockOK
  <2>2. today' \in 0..LastToday /\ UNCHANGED <<opened, planOps, planMode>>
    BY <2>1 DEF Plan!Dawn
  <2> QED BY <2>2 DEF PlanInv, ClockOK
<1>2. ServerOK'
  BY ServerKept DEF PlanInv, ServerStays, Plan!Dawn
<1> QED BY <1>1, <1>2, PagesKept, CallsKept, LoadsKept DEF PlanInv, Plan!Dawn

LEMMA AskKeeps ==
  ASSUME Plan!Assumptions, LoadsOK, NEW p \in PlanPages, Plan!AskLoad(p)
  PROVE  LoadsOK'
<1>1. Plan!Asked \in Plan!Load /\ Paired(Plan!Asked.windows)
  BY DaysFacts DEF Plan!Asked, Plan!Load, Plan!NoSlot, Plan!Row, Paired
<1> QED BY <1>1, LoadSet DEF Plan!AskLoad

LEMMA ReadKeeps ==
  ASSUME Plan!Assumptions, PlanInv, NEW p \in PlanPages, Plan!ReadLists(p)
  PROVE  PlanInv'
<1> DEFINE new == [read |-> TRUE,
           windows |-> IF windows = None THEN Plan!Unset ELSE Plan!Normalize(windows),
           slots |-> [s \in PlanSlots |-> IF slots[s].status = "cancelled"
                                      THEN Plan!NoSlot ELSE slots[s]]]
<1>1. new.windows \in Plan!Windows /\ Paired(new.windows)
  <2>1. windows # None => windows \in Plan!Windows /\ Paired(windows)
    BY DEF PlanInv, ServerOK
  <2> QED BY <2>1, Normalized, UnsetWindows
<1>2. new.slots \in [PlanSlots -> Plan!Row]
  BY DaysFacts DEF PlanInv, ServerOK, Plan!NoSlot, Plan!Row
<1>3. new \in Plan!Load
  <2>1. new = [read |-> TRUE, windows |-> new.windows, slots |-> new.slots]
    OBVIOUS
  <2> QED BY <1>1, <1>2, <2>1 DEF Plan!Load
<1>4. load' = [load EXCEPT ![p] = new]
  BY DEF Plan!ReadLists
<1> HIDE DEF new
<1>5. LoadsOK'
  BY <1>1, <1>3, <1>4, LoadSet DEF PlanInv
<1> QED BY <1>5, ServerKept, ClockKept, PagesKept, CallsKept DEF PlanInv, ServerStays, Plan!ReadLists

LEMMA EndLoadKeeps ==
  ASSUME PlanInv, NEW p \in PlanPages, Plan!EndLoad(p)
  PROVE  ServerOK' /\ ClockOK' /\ CallsOK' /\ LoadsOK'
<1>1. LoadsOK'
  BY LoadSet DEF PlanInv, Plan!EndLoad
<1>2. CallsOK'
  <2>1. CallOK(None)
    BY DEF CallOK
  <2>2. planCall' = [planCall EXCEPT ![p] = None] \/ planCall' = planCall
    BY DEF Plan!EndLoad
  <2> QED BY <2>1, <2>2, CallSet, CallsKept DEF PlanInv
<1> QED BY <1>1, <1>2, ServerKept, ClockKept DEF PlanInv, ServerStays, Plan!EndLoad

\* What a program's window starts and ends with are moments; a calendar opened
\* at the start is on a day.
LEMMA AnchorIsDay ==
  ASSUME Plan!Assumptions, NEW w \in Plan!Windows \cup {None}
  PROVE  Plan!Start(w) \in Plan!Moment /\ Plan!End(w) \in Plan!Moment /\ Plan!Anchor(w) \in Plan!Days
<1>1. Plan!Start(w) \in Plan!Moment /\ Plan!End(w) \in Plan!Moment
  BY DEF Plan!Start, Plan!End, Plan!Windows, Plan!Moment
<1>2. Plan!Anchor(w) \in Plan!Days
  <2>1. Plan!Floor \in Plan!Days
    BY DaysFacts
  <2>2. ASSUME Plan!Start(w) # None PROVE Plan!Anchor(w) \in Plan!Days
    <3>1. Plan!DayOf(Plan!Start(w)) \in Plan!Days
      BY <1>1, <2>2, DaysFacts DEF Plan!Moment
    <3> DEFINE D == {Plan!Floor, Plan!DayOf(Plan!Start(w))}
    <3>2. D \in SUBSET Plan!Days /\ D # {}
      BY <2>1, <3>1
    <3>3. Plan!Max(D) \in D
      <4> HIDE DEF D
      <4> QED BY <3>2, FirstAndLast
    <3> QED BY <2>2, <3>2, <3>3 DEF Plan!Anchor
  <2> QED BY <2>1, <2>2 DEF Plan!Anchor
<1> QED BY <1>1, <1>2

LEMMA FinishLoadKeeps ==
  ASSUME Plan!Assumptions, PlanInv, NEW p \in PlanPages, Plan!FinishLoad(p)
  PROVE  PlanInv'
<1>1. load[p] \in Plan!Load /\ Paired(load[p].windows)
  BY DEF PlanInv, LoadsOK, Plan!FinishLoad
<1>2. page[p] \in Plan!Page
  BY DEF PlanInv, PagesOK
<1> DEFINE w == load[p].windows
           day == IF Plan!Jumps(p, w) THEN Plan!Anchor(w) ELSE page[p].day
           listed == [page[p] EXCEPT !.windows = w, !.slots = load[p].slots,
                                     !.input = <<Plan!Start(w), Plan!End(w)>>, !.day = day]
           known == [page[p] EXCEPT !.windows = w]
<1>3. w \in Plan!Windows \cup {None} /\ load[p].slots \in [PlanSlots -> Plan!Row]
  BY <1>1 DEF Plan!Load
<1>4. /\ <<Plan!Start(w), Plan!End(w)>> \in Plan!Moment \X Plan!Moment
      /\ day \in Plan!Days
  <2>1. page[p].day \in Plan!Days
    BY <1>2 DEF Plan!Page
  <2> QED BY <1>3, <2>1, AnchorIsDay
<1>5. listed \in Plan!Page /\ listed.windows = w
  <2> HIDE DEF w, day
  <2> QED BY <1>2, <1>3, <1>4 DEF Plan!Page
<1>6. known \in Plan!Page /\ known.windows = w
  <2> HIDE DEF w, day
  <2> QED BY <1>2, <1>3 DEF Plan!Page
<1>7. page' = [page EXCEPT ![p] = listed] \/ page' = [page EXCEPT ![p] = known]
  <2>1. CASE Plan!Calendar(p)
    <3>1. page' = [page EXCEPT ![p] = listed]
      BY <2>1 DEF Plan!FinishLoad
    <3> QED BY <3>1
  <2>2. CASE ~Plan!Calendar(p)
    BY <2>2 DEF Plan!FinishLoad
  <2> QED BY <2>1, <2>2
<1> HIDE DEF listed, known, day
<1>8. PagesOK'
  BY <1>1, <1>5, <1>6, <1>7, PageSet DEF PlanInv
<1> QED BY <1>8, EndLoadKeeps DEF PlanInv, Plan!FinishLoad

LEMMA LoseLoadKeeps ==
  ASSUME Plan!Assumptions, PlanInv, NEW p \in PlanPages, Plan!LoseLoad(p)
  PROVE  PlanInv'
<1>1. page[p] \in Plan!Page /\ Paired(page[p].windows)
  BY DEF PlanInv, PagesOK
<1> DEFINE empty == [page[p] EXCEPT !.slots = [s \in PlanSlots |-> Plan!NoSlot]]
           none == [page[p] EXCEPT !.windows = None]
<1>2. empty \in Plan!Page /\ empty.windows = page[p].windows
  <2>1. [s \in PlanSlots |-> Plan!NoSlot] \in [PlanSlots -> Plan!Row]
    BY DaysFacts DEF Plan!NoSlot, Plan!Row
  <2> QED BY <1>1, <2>1 DEF Plan!Page
<1>3. none \in Plan!Page /\ none.windows = None
  BY <1>1 DEF Plan!Page
<1>4. page' = [page EXCEPT ![p] = empty] \/ page' = [page EXCEPT ![p] = none]
  BY DEF Plan!LoseLoad
<1> HIDE DEF empty, none
<1>5. PagesOK'
  <2>1. Paired(empty.windows) /\ Paired(none.windows)
    BY <1>1, <1>2, <1>3 DEF Paired
  <2> QED BY <1>2, <1>3, <1>4, <2>1, PageSet DEF PlanInv
<1> QED BY <1>5, EndLoadKeeps DEF PlanInv, Plan!LoseLoad

\* What a user does changes neither the server nor, but for the count, the clock.
LEMMA ActsKeep ==
  ASSUME Plan!Assumptions, PlanInv, NEW p \in PlanPages, Plan!UserActs(p)
  PROVE  ServerOK' /\ ClockOK'
<1>1. PlanMaxOps[planMode] \in Nat /\ planOps \in 0..PlanMaxOps[planMode]
  BY DEF PlanInv, ClockOK, Plan!Assumptions
<1>2. planOps' \in 0..PlanMaxOps[planMode] /\ UNCHANGED <<today, opened, planMode>>
  BY <1>1 DEF Plan!UserActs
<1>3. ClockOK'
  BY <1>2 DEF PlanInv, ClockOK
<1> QED BY <1>3, ServerKept DEF PlanInv, ServerStays, Plan!UserActs

LEMMA PageActKeeps ==
  ASSUME Plan!Assumptions, PlanInv, NEW p \in PlanPages, Plan!UserActs(p),
         NEW new \in Plan!Page, new.windows = page[p].windows,
         page' = [page EXCEPT ![p] = new], UNCHANGED <<planCall, load>>
  PROVE  PlanInv'
<1>1. Paired(new.windows)
  BY DEF PlanInv, PagesOK
<1> QED BY <1>1, ActsKeep, PageSet, CallsKept, LoadsKept DEF PlanInv

LEMMA PageTyped ==
  ASSUME PlanInv, NEW p \in PlanPages
  PROVE  /\ page[p] \in Plan!Page /\ Paired(page[p].windows)
         /\ page[p].windows \in Plan!Windows \cup {None} /\ page[p].form \in Plan!Windows \cup {None}
         /\ page[p].slots \in [PlanSlots -> Plan!Row] /\ page[p].day \in Plan!Days
         /\ page[p].input \in Plan!Moment \X Plan!Moment /\ page[p].editing \in PlanSlots \cup {None}
BY DEF PlanInv, PagesOK, Plan!Page

LEMMA PickDayKeeps ==
  ASSUME Plan!Assumptions, PlanInv, NEW p \in PlanPages, Plan!PickDay(p)
  PROVE  PlanInv'
<1>1. PICK d \in Plan!Days : page' = [page EXCEPT ![p].day = d]
  BY DEF Plan!PickDay
<1> DEFINE new == [page[p] EXCEPT !.day = d]
<1>2. new \in Plan!Page /\ new.windows = page[p].windows /\ page' = [page EXCEPT ![p] = new]
  BY <1>1, PageTyped DEF Plan!Page
<1> HIDE DEF new
<1> QED BY <1>2, PageActKeeps DEF Plan!PickDay

LEMMA PickWindowKeeps ==
  ASSUME Plan!Assumptions, PlanInv, NEW p \in PlanPages, Plan!PickWindow(p)
  PROVE  PlanInv'
<1>1. PICK span \in Spans : page' = [page EXCEPT ![p].input = span]
  BY DEF Plan!PickWindow
<1>2. span \in Plan!Moment \X Plan!Moment
  BY DEF Plan!Assumptions, Plan!Moment
<1> DEFINE new == [page[p] EXCEPT !.input = span]
<1>3. new \in Plan!Page /\ new.windows = page[p].windows /\ page' = [page EXCEPT ![p] = new]
  BY <1>1, <1>2, PageTyped DEF Plan!Page
<1> HIDE DEF new
<1> QED BY <1>3, PageActKeeps DEF Plan!PickWindow

LEMMA SuggestedIsSpan ==
  ASSUME Plan!Assumptions, PlanInv, NEW p \in PlanPages
  PROVE  Plan!Suggested(p) \in Plan!Moment \X Plan!Moment
<1> DEFINE days == {page[p].slots[s].day : s \in {s \in PlanSlots : page[p].slots[s].status # "none"}}
<1>1. days \in SUBSET Plan!Days
  BY PageTyped DEF Plan!Row
<1>2. days # {} => Plan!Min(days) \in Plan!Days /\ Plan!Max(days) \in Plan!Days
  <2> HIDE DEF days
  <2> QED BY <1>1, FirstAndLast
<1>3. Plan!Floor \in Plan!Days /\ LastDay \in Plan!Days
  BY DaysFacts
<1>4. \A d \in Plan!Days : Plan!Morning(d) \in Plan!Moment /\ Plan!Evening(d) \in Plan!Moment
  BY DaysFacts DEF Plan!Moment
<1>5. Plan!Suggested(p) = IF days # {} THEN <<Plan!Morning(Plan!Min(days)), Plan!Evening(Plan!Max(days))>>
                          ELSE <<Plan!Morning(Plan!Floor), Plan!Evening(LastDay)>>
  BY DEF Plan!Suggested
<1> HIDE DEF days
<1> QED BY <1>2, <1>3, <1>4, <1>5

LEMMA SuggestWindowKeeps ==
  ASSUME Plan!Assumptions, PlanInv, NEW p \in PlanPages, Plan!SuggestWindow(p)
  PROVE  PlanInv'
<1> DEFINE new == [page[p] EXCEPT !.input = Plan!Suggested(p)]
<1>1. new \in Plan!Page /\ new.windows = page[p].windows
  BY PageTyped, SuggestedIsSpan DEF Plan!Page
<1>2. page' = [page EXCEPT ![p] = new]
  BY DEF Plan!SuggestWindow
<1> HIDE DEF new
<1> QED BY <1>1, <1>2, PageActKeeps DEF Plan!SuggestWindow

LEMMA EditKeeps ==
  ASSUME Plan!Assumptions, PlanInv, NEW p \in PlanPages, Plan!BeginEdit(p) \/ Plan!StopEdit(p)
  PROVE  PlanInv'
<1>1. PICK s \in PlanSlots \cup {None} : page' = [page EXCEPT ![p].editing = s]
  BY DEF Plan!BeginEdit, Plan!StopEdit
<1> DEFINE new == [page[p] EXCEPT !.editing = s]
<1>2. new \in Plan!Page /\ new.windows = page[p].windows /\ page' = [page EXCEPT ![p] = new]
  BY <1>1, PageTyped DEF Plan!Page
<1> HIDE DEF new
<1> QED BY <1>2, PageActKeeps DEF Plan!BeginEdit, Plan!StopEdit

LEMMA FormKeeps ==
  ASSUME Plan!Assumptions, PlanInv, NEW p \in PlanPages,
         Plan!StartEdit(p) \/ Plan!ChangeForm(p) \/ Plan!CloseForm(p)
  PROVE  PlanInv'
<1>1. \E w \in Plan!Windows \cup {None} : page' = [page EXCEPT ![p].form = w]
  <2>1. CASE Plan!StartEdit(p) \/ Plan!CloseForm(p)
    BY <2>1, PageTyped DEF Plan!StartEdit, Plan!CloseForm
  <2>2. CASE Plan!ChangeForm(p)
    <3> DEFINE f == page[p].form
    <3>1. f \in Plan!Windows
      BY <2>2, PageTyped DEF Plan!ChangeForm
    <3>2. PICK span \in Spans :
           page' \in
               {[page EXCEPT ![p].form.application_start = span[1],
                             ![p].form.application_end = span[2]],
                [page EXCEPT ![p].form.disbursement_start = span[1],
                             ![p].form.disbursement_end = span[2]],
                [page EXCEPT ![p].form.review_end = span[2]]}
      BY <2>2 DEF Plan!ChangeForm
    <3>3. span[1] \in Plan!Moment /\ span[2] \in Plan!Moment
      BY DEF Plan!Assumptions, Plan!Moment
    <3> DEFINE a == [f EXCEPT !.application_start = span[1], !.application_end = span[2]]
               d == [f EXCEPT !.disbursement_start = span[1], !.disbursement_end = span[2]]
               e == [f EXCEPT !.review_end = span[2]]
    <3>4. a \in Plan!Windows /\ d \in Plan!Windows /\ e \in Plan!Windows
      <4> HIDE DEF f
      <4> QED BY <3>1, <3>3 DEF Plan!Windows
    <3>5. \/ page' = [page EXCEPT ![p].form = a] \/ page' = [page EXCEPT ![p].form = d]
          \/ page' = [page EXCEPT ![p].form = e]
      <4>1. page \in [PlanPages -> Plan!Page] /\ page[p] \in Plan!Page
        BY PageTyped DEF PlanInv, PagesOK
      <4> QED BY <3>2, <4>1 DEF Plan!Page
    <3> HIDE DEF a, d, e
    <3> QED BY <3>4, <3>5
  <2> QED BY <2>1, <2>2
<1>2. PICK w \in Plan!Windows \cup {None} : page' = [page EXCEPT ![p].form = w]
  BY <1>1
<1> DEFINE new == [page[p] EXCEPT !.form = w]
<1>3. new \in Plan!Page /\ new.windows = page[p].windows /\ page' = [page EXCEPT ![p] = new]
  BY <1>2, PageTyped DEF Plan!Page
<1> HIDE DEF new
<1> QED BY <1>3, PageActKeeps DEF Plan!StartEdit, Plan!ChangeForm, Plan!CloseForm

LEMMA RefreshKeeps ==
  ASSUME Plan!Assumptions, PlanInv, NEW p \in PlanPages, Plan!Refresh(p)
  PROVE  PlanInv'
BY ActsKeep, AskKeeps, PagesKept, CallsKept DEF PlanInv, Plan!Refresh

\* A request that is sent
LEMMA SendKeeps ==
  ASSUME Plan!Assumptions, PlanInv, NEW p \in PlanPages, Plan!UserActs(p),
         NEW op \in {"window", "create", "update", "cancel"}, NEW s \in PlanSlots \cup {None},
         NEW d \in Plan!Days, NEW w \in Plan!Windows \cup {None},
         Paired(w), op = "window" => SentOK(w), Plan!Send(p, op, s, d, w)
  PROVE  PlanInv'
<1> DEFINE new == [op |-> op, slot |-> s, day |-> d, windows |-> w, stage |-> "sent"]
<1>1. new \in Plan!Call /\ CallOK(new)
  BY DEF Plan!Call, CallOK
<1>2. planCall' = [planCall EXCEPT ![p] = new]
  BY DEF Plan!Send
<1> HIDE DEF new
<1>3. CallsOK'
  BY <1>1, <1>2, CallSet DEF PlanInv
<1> QED BY <1>3, ActsKeep, PagesKept, LoadsKept DEF PlanInv, Plan!Send

LEMMA SaveWindowKeeps ==
  ASSUME Plan!Assumptions, PlanInv, NEW p \in PlanPages, Plan!SaveWindow(p)
  PROVE  PlanInv'
<1> DEFINE w == page[p].windows
           new == [w EXCEPT !.review_start = Plan!Or(w.review_start, w.application_start),
                            !.disbursement_start = page[p].input[1],
                            !.disbursement_end = page[p].input[2]]
<1>1. w \in Plan!Windows /\ Paired(w) /\ w # None
  BY PageTyped DEF Plan!SaveWindow, Plan!Known
<1>2. page[p].input[1] \in Plan!Moment /\ page[p].input[2] \in Plan!Moment
  BY PageTyped
<1>3. new \in Plan!Windows /\ new.review_start = new.application_start
  <2> HIDE DEF w
  <2> QED BY <1>1, <1>2 DEF Plan!Windows, Plan!Or, Paired
<1>4. Plan!SentWindows(p) = new
  BY DEF Plan!SentWindows
<1>5. 0 \in Plan!Days
  BY DaysFacts
<1>6. Paired(new) /\ SentOK(new) /\ Plan!Send(p, "window", None, 0, new)
  BY <1>3, <1>4 DEF Plan!SaveWindow, Paired, SentOK
<1> HIDE DEF new
<1> QED BY <1>3, <1>5, <1>6, SendKeeps DEF Plan!SaveWindow

LEMMA SubmitKeeps ==
  ASSUME Plan!Assumptions, PlanInv, NEW p \in PlanPages, Plan!Submit(p)
  PROVE  PlanInv'
<1> DEFINE w == page[p].form
           new == [w EXCEPT !.review_start = w.application_start]
<1>1. w \in Plan!Windows
  BY PageTyped DEF Plan!Submit
<1>2. new \in Plan!Windows /\ Paired(new) /\ SentOK(new)
  <2> HIDE DEF w
  <2> QED BY <1>1 DEF Plan!Windows, Paired, SentOK
<1>3. 0 \in Plan!Days
  BY DaysFacts
<1>4. Plan!Send(p, "window", None, 0, new)
  BY DEF Plan!Submit
<1> HIDE DEF new
<1> QED BY <1>2, <1>3, <1>4, SendKeeps DEF Plan!Submit

LEMMA SaveSlotKeeps ==
  ASSUME Plan!Assumptions, PlanInv, NEW p \in PlanPages, Plan!SaveSlot(p)
  PROVE  PlanInv'
<1>1. page[p].editing \in PlanSlots \cup {None} /\ page[p].day \in Plan!Days /\ Paired(None)
  BY PageTyped DEF Paired
<1>2. \/ Plan!Send(p, "update", page[p].editing, page[p].day, None)
      \/ Plan!Send(p, "create", None, page[p].day, None)
  BY DEF Plan!SaveSlot
<1> QED BY <1>1, <1>2, SendKeeps DEF Plan!SaveSlot

LEMMA CancelSlotKeeps ==
  ASSUME Plan!Assumptions, PlanInv, NEW p \in PlanPages, Plan!CancelSlot(p)
  PROVE  PlanInv'
<1>1. PICK s \in PlanSlots : Plan!Send(p, "cancel", s, 0, None)
  BY DEF Plan!CancelSlot
<1>2. 0 \in Plan!Days /\ Paired(None)
  BY DaysFacts DEF Paired
<1> QED BY <1>1, <1>2, SendKeeps DEF Plan!CancelSlot

----------------------------------------------------------------------------
(* What the server does of it, and the answers *)

LEMMA PlanAnswerKeeps ==
  ASSUME PlanInv, NEW p \in PlanPages, Plan!Busy(p), NEW ok \in BOOLEAN, Plan!Answer(p, ok),
         ServerOK'
  PROVE  PlanInv'
<1>1. \E stage \in {"done", "failed"} : planCall' = [planCall EXCEPT ![p].stage = stage]
  BY DEF Plan!Answer
<1>2. CallsOK'
  BY <1>1, CallStaged DEF PlanInv, Plan!Busy
<1> QED BY <1>2, ClockKept, PagesKept, LoadsKept DEF PlanInv, Plan!Answer

LEMMA ServesKeeps ==
  ASSUME Plan!Assumptions, PlanInv, NEW p \in PlanPages,
         Plan!PatchWindows(p) \/ Plan!CreateSlot(p) \/ Plan!UpdateSlot(p) \/ Plan!Cancel(p)
  PROVE  PlanInv'
<1>1. planCall[p] # None => planCall[p] \in Plan!Call /\ CallOK(planCall[p])
  BY DEF PlanInv, CallsOK
<1>2. slots \in [PlanSlots -> Plan!Row]
  BY DEF PlanInv, ServerOK
<1>3. ASSUME Plan!PatchWindows(p) PROVE PlanInv'
  <2>1. SentOK(planCall[p].windows)
    BY <1>1, <1>3 DEF Plan!PatchWindows, Plan!Serves, Plan!Busy, CallOK
  <2>2. windows' \in Plan!Windows /\ windows'.review_start = windows'.application_start
    BY <1>3, <2>1 DEF Plan!PatchWindows, Plan!Normalize, Plan!Or, Plan!Windows, SentOK
  <2>3. ServerOK'
    BY <1>3, <2>2 DEF PlanInv, ServerOK, Paired, Plan!PatchWindows, Plan!Answer
  <2> QED BY <1>3, <2>3, PlanAnswerKeeps DEF Plan!PatchWindows, Plan!Serves
<1>4. ASSUME Plan!CreateSlot(p) PROVE PlanInv'
  <2>1. planCall[p].day \in Plan!Days
    BY <1>1, <1>4 DEF Plan!CreateSlot, Plan!Serves, Plan!Busy, Plan!Call
  <2>2. [status |-> "open", day |-> planCall[p].day, booked |-> 0] \in Plan!Row
    BY <2>1 DEF Plan!Row
  <2>3. slots' \in [PlanSlots -> Plan!Row]
    BY <1>2, <1>4, <2>2 DEF Plan!CreateSlot
  <2>4. ServerOK'
    BY <1>4, <2>3 DEF PlanInv, ServerOK, Paired, Plan!CreateSlot, Plan!Answer
  <2> QED BY <1>4, <2>4, PlanAnswerKeeps DEF Plan!CreateSlot, Plan!Serves
<1>5. ASSUME Plan!UpdateSlot(p) PROVE PlanInv'
  <2>1. planCall[p].day \in Plan!Days
    BY <1>1, <1>5 DEF Plan!UpdateSlot, Plan!Serves, Plan!Busy, Plan!Call
  <2>2. slots' \in [PlanSlots -> Plan!Row]
    BY <1>2, <1>5, <2>1 DEF Plan!UpdateSlot, Plan!Row
  <2>3. ServerOK'
    BY <1>5, <2>2 DEF PlanInv, ServerOK, Paired, Plan!UpdateSlot, Plan!Answer
  <2> QED BY <1>5, <2>3, PlanAnswerKeeps DEF Plan!UpdateSlot, Plan!Serves
<1>6. ASSUME Plan!Cancel(p) PROVE PlanInv'
  <2>1. slots' \in [PlanSlots -> Plan!Row]
    BY <1>2, <1>6 DEF Plan!Cancel, Plan!Row
  <2>2. ServerOK'
    BY <1>6, <2>1 DEF PlanInv, ServerOK, Paired, Plan!Cancel, Plan!Answer
  <2> QED BY <1>6, <2>2, PlanAnswerKeeps DEF Plan!Cancel, Plan!Serves
<1> QED BY <1>3, <1>4, <1>5, <1>6

LEMMA RefuseKeeps ==
  ASSUME PlanInv, NEW p \in PlanPages, Plan!Refuse(p)
  PROVE  PlanInv'
<1>1. Plan!Busy(p) /\ ServerStays
  BY DEF Plan!Refuse, Plan!Refused, Plan!Serves, Plan!Answer, ServerStays
<1> QED BY <1>1, ServerKept, PlanAnswerKeeps DEF PlanInv, Plan!Refuse

LEMMA FinishCallKeeps ==
  ASSUME Plan!Assumptions, PlanInv, NEW p \in PlanPages, Plan!FinishCall(p)
  PROVE  PlanInv'
<1> DEFINE kept == IF planCall[p].op \in {"update", "cancel"} /\ planCall[p].slot = page[p].editing
                   THEN None ELSE page[p].editing
           new == [page[p] EXCEPT !.editing = kept, !.form = None]
<1>1. new \in Plan!Page /\ Paired(new.windows)
  BY PageTyped DEF Plan!Page
<1>2. page' = [page EXCEPT ![p] = new]
  BY PageTyped DEF Plan!FinishCall, Plan!Page, PlanInv, PagesOK
<1> HIDE DEF new
<1>3. PagesOK'
  BY <1>1, <1>2, PageSet DEF PlanInv
<1>4. CallsOK'
  BY CallStaged DEF PlanInv, Plan!FinishCall, Plan!Busy
<1> QED BY <1>3, <1>4, AskKeeps, ServerKept, ClockKept DEF PlanInv, ServerStays, Plan!FinishCall

LEMMA FailCallKeeps ==
  ASSUME PlanInv, NEW p \in PlanPages, Plan!FailCall(p)
  PROVE  PlanInv'
<1>1. CallsOK'
  BY CallSet DEF PlanInv, CallOK, Plan!FailCall
<1> QED BY <1>1, ServerKept, ClockKept, PagesKept, LoadsKept DEF PlanInv, ServerStays, Plan!FailCall

LEMMA PlanStep ==
  ASSUME Plan!Assumptions, PlanInv, [Plan!Next]_(Plan!vars)
  PROVE  PlanInv'
<1>1. CASE UNCHANGED Plan!vars
  BY <1>1, ServerKept, ClockKept, PagesKept, CallsKept, LoadsKept DEF PlanInv, ServerStays, Plan!vars
<1>2. CASE Plan!Dawn
  BY <1>2, DawnKeeps
<1>3. ASSUME NEW s \in PlanSlots, Plan!Book(s) PROVE PlanInv'
  BY <1>3, BookKeeps
<1>4. ASSUME NEW p \in PlanPages,
             Plan!ReadLists(p) \/ Plan!FinishLoad(p) \/ Plan!LoseLoad(p) \/ Plan!Refresh(p)
      PROVE  PlanInv'
  BY <1>4, ReadKeeps, FinishLoadKeeps, LoseLoadKeeps, RefreshKeeps
<1>5. ASSUME NEW p \in PlanPages,
             Plan!PickDay(p) \/ Plan!PickWindow(p) \/ Plan!SuggestWindow(p) \/ Plan!SaveWindow(p)
      PROVE  PlanInv'
  BY <1>5, PickDayKeeps, PickWindowKeeps, SuggestWindowKeeps, SaveWindowKeeps
<1>6. ASSUME NEW p \in PlanPages,
             Plan!BeginEdit(p) \/ Plan!StopEdit(p) \/ Plan!SaveSlot(p) \/ Plan!CancelSlot(p)
      PROVE  PlanInv'
  BY <1>6, EditKeeps, SaveSlotKeeps, CancelSlotKeeps
<1>7. ASSUME NEW p \in PlanPages,
             Plan!StartEdit(p) \/ Plan!ChangeForm(p) \/ Plan!CloseForm(p) \/ Plan!Submit(p)
      PROVE  PlanInv'
  BY <1>7, FormKeeps, SubmitKeeps
<1>8. ASSUME NEW p \in PlanPages,
             Plan!PatchWindows(p) \/ Plan!CreateSlot(p) \/ Plan!UpdateSlot(p) \/ Plan!Cancel(p)
      PROVE  PlanInv'
  BY <1>8, ServesKeeps
<1>9. ASSUME NEW p \in PlanPages, Plan!Refuse(p) \/ Plan!FinishCall(p) \/ Plan!FailCall(p)
      PROVE  PlanInv'
  BY <1>9, RefuseKeeps, FinishCallKeeps, FailCallKeeps
<1> QED BY <1>1, <1>2, <1>3, <1>4, <1>5, <1>6, <1>7, <1>8, <1>9 DEF Plan!Next

----------------------------------------------------------------------------
(* The gates agree whenever the windows are paired. *)

LEMMA ReviewFollows ==
  ASSUME ServerOK
  PROVE  Plan!ReviewFollowsApplication
<1> SUFFICES ASSUME windows # None, Plan!ApplicationOpen, Plan!Before(Plan!Now, windows.review_end)
             PROVE  Plan!ReviewOpen
  BY DEF Plan!ReviewFollowsApplication
<1>1. windows \in Plan!Windows /\ Plan!Normalize(windows) = windows
      /\ windows.review_start = windows.application_start
  BY Normalized DEF ServerOK, Paired
<1> QED BY <1>1 DEF Plan!ApplicationOpen, Plan!ReviewOpen, Plan!InRange, Plan!ReviewStart, Plan!ReviewEnd, Plan!Or,
                    Plan!After, Plan!Before

LEMMA SummariesAgree ==
  ASSUME ServerOK
  PROVE  Plan!SummaryAgrees
<1>1. CASE windows = None
  BY <1>1 DEF Plan!SummaryAgrees, Plan!ApplicationOpen, Plan!ReviewOpen, Plan!DisbursementOpen, Plan!Summary
<1>2. CASE windows # None
  <2>1. windows \in Plan!Windows /\ Plan!Normalize(windows) = windows
    BY <1>2, Normalized DEF ServerOK, Paired
  <2>2. \A start, end : Plan!Phase(start, end) \in {"unset", "open"} <=> Plan!InRange(Plan!Now, start, end)
    BY DEF Plan!Phase, Plan!InRange, Plan!After, Plan!Before
  <2>3. Plan!Phase(windows.disbursement_start, windows.disbursement_end) = "open" =>
          Plan!HasWindow(windows) /\ Plan!Before(Plan!Now, windows.disbursement_end)
    BY DEF Plan!Phase, Plan!HasWindow
  <2> QED BY <1>2, <2>1, <2>2, <2>3
             DEF Plan!SummaryAgrees, Plan!ApplicationOpen, Plan!ReviewOpen, Plan!DisbursementOpen, Plan!Summary
<1> QED BY <1>1, <1>2

LEMMA ListsAgree ==
  ASSUME Plan!Assumptions, ServerOK, ClockOK
  PROVE  Plan!ListedIsBookable
<1> SUFFICES ASSUME windows # None, NEW s \in PlanSlots
             PROVE  /\ Plan!Listed(s) <=> Plan!Bookable(s)
                    /\ Plan!HasWindow(windows) => (Plan!Told(s) <=> Plan!Bookable(s))
  BY DEF Plan!ListedIsBookable
<1>1. windows \in Plan!Windows /\ Plan!Normalize(windows) = windows
  BY Normalized DEF ServerOK, Paired
<1> DEFINE d == slots[s].day
<1>2. d \in Nat /\ today \in Nat
  <2>1. slots[s] \in Plan!Row
    BY DEF ServerOK
  <2>2. Plan!Days \subseteq Nat /\ LastToday \in Nat
    BY DaysFacts
  <2>3. slots[s].day \in Plan!Days
    BY <2>1 DEF Plan!Row
  <2>4. today \in 0..LastToday
    BY DEF ClockOK
  <2>5. d \in Nat
    BY <2>2, <2>3
  <2> QED BY <2>4, <2>5
<1>3. Plan!Morning(d) >= Plan!Morning(today + Plan!LeadDays) => Plan!Morning(d) > Plan!Now
  BY <1>2 DEF Plan!Morning, Plan!LeadDays, Plan!Now
<1>4. Plan!MeetsLead(d) <=> Plan!Morning(d) >= Plan!Morning(today + Plan!LeadDays)
  BY DEF Plan!MeetsLead
<1>5. Plan!WithinWindow(d) <=> /\ Plan!HasWindow(windows)
                               /\ Plan!After(Plan!Morning(d), windows.disbursement_start)
                               /\ Plan!Before(Plan!Evening(d), windows.disbursement_end)
  BY <1>1 DEF Plan!WithinWindow
<1>6. Plan!DisbursementOpen <=> Plan!HasWindow(windows) /\ Plan!Before(Plan!Now, windows.disbursement_end)
  BY <1>1 DEF Plan!DisbursementOpen
<1>7. Plan!Morning(d) > Plan!Now /\ Plan!Before(Plan!Evening(d), windows.disbursement_end)
      => Plan!Before(Plan!Now, windows.disbursement_end)
  <2>1. windows.disbursement_end # None => windows.disbursement_end \in Nat
    BY <1>1, DaysFacts DEF Plan!Windows, Plan!Moment
  <2> QED BY <1>2, <2>1 DEF Plan!Morning, Plan!Evening, Plan!Now, Plan!Before
<1>8. Plan!Listed(s) <=> Plan!Bookable(s)
  BY <1>3, <1>4, <1>5, <1>6 DEF Plan!Listed, Plan!Bookable
<1>9. Plan!HasWindow(windows) => (Plan!Told(s) <=> Plan!Bookable(s))
  BY <1>1, <1>3, <1>4, <1>5, <1>6, <1>7 DEF Plan!Told, Plan!Bookable
<1> QED BY <1>8, <1>9

\* Whatever two pages save over each other: who may apply may be reviewed, the
\* assistant says of each window what the gate of it does, and the slots that are
\* listed or told of are those that can be booked (period-windows.ts,
\* office-ops.service.ts).
THEOREM GatesAgreeHolds ==
  ASSUME Plan!Assumptions
  PROVE  Plan!Spec => []Plan!GatesAgree
<1>1. PlanInv => Plan!GatesAgree
  BY ReviewFollows, SummariesAgree, ListsAgree DEF PlanInv, Plan!GatesAgree
<1> QED BY <1>1, PlanInit, PlanStep, PTL DEF Plan!Spec

----------------------------------------------------------------------------
(* The mobile application: what the server answers *)

CasesOK == /\ cases \in [App!Ids -> App!Case]
           /\ \A c \in App!Ids : cases[c].status = "none" <=> cases[c].program = None

LEMMA AppIds == ASSUME App!Assumptions PROVE App!Ids \in SUBSET Nat /\ App!Ids = 1..MaxCases /\ MaxCases \in Nat
BY DEF App!Assumptions, App!Ids

LEMMA StatusTyped ==
  ASSUME CasesOK, NEW c \in App!Ids
  PROVE  /\ cases[c] \in App!Case /\ cases[c].status \in App!Statuses
         /\ App!ClientStatus(c) \in App!Shown
         /\ App!ClientStatus(c) = "none" <=> App!Is(c, {"none"})
         /\ App!ClientStatus(c) = "approved" <=> App!Is(c, {"approved"})
         /\ App!ClientStatus(c) \in App!Reviewed <=> App!Is(c, App!Pending)
         /\ App!ClientStatus(c) \in App!Over <=> App!Is(c, {"rejected", "claimed"})
<1>1. cases[c] \in App!Case /\ cases[c].status \in App!Statuses
  BY DEF CasesOK, App!Case
<1> QED BY <1>1 DEF App!ClientStatus, App!Statuses, App!Shown, App!Is, App!Reviewed, App!Pending, App!Over

\* The cases of a program that go on are pending or approved.
LEMMA GoingOn ==
  ASSUME App!Assumptions, CasesOK, NEW p \in AidPrograms
  PROVE  {c \in App!Of(p) : App!ClientStatus(c) \notin App!Over}
         = {c \in App!Of(p) : App!Is(c, App!Pending \cup {"approved"})}
<1>1. \A c \in App!Of(p) : c \in App!Ids /\ cases[c].program = p /\ p # None
  BY DEF App!Of, App!Assumptions
<1> SUFFICES ASSUME NEW c \in App!Of(p)
             PROVE  App!ClientStatus(c) \notin App!Over <=> App!Is(c, App!Pending \cup {"approved"})
  OBVIOUS
<1>2. cases[c].status # "none" /\ cases[c].status \in App!Statuses
      /\ (App!ClientStatus(c) \in App!Over <=> App!Is(c, {"rejected", "claimed"}))
  BY <1>1, StatusTyped DEF CasesOK
<1> QED BY <1>2 DEF App!Is, App!Pending, App!Statuses

\* The gate of a program is open, in progress or in cooldown.
LEMMA GateTyped ==
  ASSUME NEW p
  PROVE  /\ App!Gate(p) \in {"open", "in_progress", "cooldown"}
         /\ App!Gate(p) = "in_progress" <=> \E c \in App!Of(p) : App!Is(c, App!Pending \cup {"approved"})
BY DEF App!Gate

LEMMA RankTyped == \A c : App!Rank(c) \in 1..5
BY DEF App!Rank

LEMMA FirstCase ==
  ASSUME App!Assumptions, NEW S \in SUBSET App!Ids, S # {}
  PROVE  /\ App!First(S) \in S
         /\ \A d \in S \ {App!First(S)} : App!Precedes(App!First(S), d)
<1>1. \A c : App!Rank(c) \in Nat
  BY RankTyped
<1> DEFINE ranks == {App!Rank(c) : c \in S}
<1>2. ranks \in SUBSET Nat /\ ranks # {}
  BY <1>1
<1>3. PICK k \in ranks : \A j \in ranks : ~(j < k)
  <2> HIDE DEF ranks
  <2> QED BY <1>2, Least
<1> DEFINE foremost == {c \in S : App!Rank(c) = k}
<1>4. foremost \in SUBSET (0..MaxCases) /\ foremost # {} /\ MaxCases \in Nat
  BY <1>3, AppIds
<1>5. PICK c \in foremost : \A d \in foremost : c >= d
  <2> HIDE DEF foremost
  <2> QED BY <1>4, Greatest
<1>6. ASSUME NEW d \in S \ {c} PROVE App!Precedes(c, d)
  <2>1. App!Rank(d) \in ranks /\ App!Rank(d) \in Nat /\ k \in Nat /\ App!Rank(c) = k
    BY <1>1, <1>2, <1>3, <1>5
  <2>2. ~(App!Rank(d) < k)
    <3> HIDE DEF ranks
    <3> QED BY <1>3, <2>1
  <2>3. c \in Nat /\ d \in Nat
    BY <1>4, <1>5, AppIds
  <2>4. App!Rank(d) = k => c > d
    BY <1>5, <2>3
  <2> HIDE DEF ranks, foremost
  <2> QED BY <2>1, <2>2, <2>4 DEF App!Precedes
<1>7. \E x \in S : \A d \in S \ {x} : App!Precedes(x, d)
  BY <1>5, <1>6
<1> QED BY <1>7 DEF App!First

LEMMA GreatestCase ==
  ASSUME App!Assumptions, NEW S \in SUBSET App!Ids, S # {}
  PROVE  App!Max(S) \in S
<1>1. S \in SUBSET (0..MaxCases) /\ MaxCases \in Nat
  BY AppIds
<1>2. \E x \in S : \A y \in S : x >= y
  BY <1>1, Greatest
<1> QED BY <1>2 DEF App!Max

\* What the screen of a program shows follows from the two answers it has.
LEMMA ViewTrue ==
  ASSUME App!Assumptions, CasesOK, prog \in App!Prog, prog.stage = "shown",
         prog.gate = App!Gate(prog.program), prog.existing = App!Existing(prog.program)
  PROVE  App!ProgView = App!TrueView(prog.program)
<1> DEFINE p == prog.program
           on == {c \in App!Of(p) : App!ClientStatus(c) \notin App!Over}
<1>1. p \in AidPrograms
  BY DEF App!Prog
<1>2. on \in SUBSET App!Ids
  BY DEF App!Of
<1>3. on = {c \in App!Of(p) : App!Is(c, App!Pending \cup {"approved"})}
  BY <1>1, GoingOn
<1>4. App!Gate(p) \in {"open", "in_progress", "cooldown"} /\ (App!Gate(p) = "in_progress" <=> on # {})
  BY <1>3, GateTyped
<1>5. prog.existing = IF on = {} THEN "none" ELSE App!ClientStatus(App!First(on))
  BY DEF App!Existing
<1>6. CASE on = {}
  BY <1>4, <1>5, <1>6 DEF App!ProgView, App!TrueView, App!Waiting, App!Approved, App!Reviewed
<1>7. CASE on # {}
  <2> DEFINE f == App!First(on)
  <2>1. f \in on /\ \A d \in on \ {f} : App!Precedes(f, d)
    BY <1>2, <1>7, FirstCase
  <2>2. f \in App!Ids /\ App!Is(f, App!Pending \cup {"approved"})
    BY <1>2, <1>3, <2>1
  <2>3. prog.existing = App!ClientStatus(f) /\ prog.gate = "in_progress"
    BY <1>4, <1>5, <1>7
  <2>4. (\E c \in App!Of(p) : App!Is(c, App!Pending)) <=> App!Is(f, App!Pending)
    <3>1. ASSUME NEW c \in App!Of(p), App!Is(c, App!Pending), ~App!Is(f, App!Pending) PROVE FALSE
      <4>1. c \in on /\ c # f /\ c \in App!Ids
        BY <1>2, <1>3, <3>1 DEF App!Is
      <4>2. App!Rank(c) \in {1, 2} /\ App!Rank(f) = 3
        BY <2>2, <3>1, <4>1 DEF App!Is, App!Rank, App!ClientStatus, App!Pending
      <4>3. App!Precedes(f, c)
        BY <2>1, <4>1
      <4> HIDE DEF f
      <4> QED BY <4>2, <4>3 DEF App!Precedes
    <3>2. f \in App!Of(p)
      BY <1>3, <2>1
    <3> QED BY <3>1, <3>2
  <2>5. App!Is(f, App!Pending) => App!ProgView = "waiting"
    BY <2>2, <2>3, StatusTyped DEF App!ProgView, App!Waiting
  <2>6. ~App!Is(f, App!Pending) => App!ProgView = "approved"
    <3>1. ~App!Is(f, App!Pending) => App!ClientStatus(f) = "approved"
      BY <2>2, StatusTyped DEF App!Is
    <3> QED BY <2>3, <3>1 DEF App!ProgView, App!Waiting, App!Approved, App!Reviewed
  <2> QED BY <1>4, <1>7, <2>3, <2>4, <2>5, <2>6 DEF App!TrueView
<1> QED BY <1>6, <1>7

\* The assistant tells of a case that goes on exactly if a program is closed for it.
LEMMA AssistantTold ==
  ASSUME App!Assumptions, CasesOK
  PROVE  App!AssistantTrue
<1> DEFINE all == {c \in App!Ids : ~App!Is(c, {"none"})}
           on == {c \in all : App!InProgress(c)}
<1>1. all \in SUBSET App!Ids /\ on \in SUBSET App!Ids
  OBVIOUS
<1>2. (all # {} => App!Max(all) \in all) /\ (on # {} => App!Max(on) \in on)
  <2> HIDE DEF all, on
  <2> QED BY <1>1, GreatestCase
<1>3. None \notin App!Ids
  BY DEF App!Assumptions
<1>4. (App!Preferred # None /\ App!InProgress(App!Preferred)) <=> on # {}
  <2>1. App!Preferred = IF on # {} THEN App!Max(on) ELSE IF all # {} THEN App!Max(all) ELSE None
    BY DEF App!Preferred
  <2> QED BY <1>1, <1>2, <1>3, <2>1
<1>5. \A c \in App!Ids : c \in on <=> App!Is(c, App!Pending \cup {"approved"})
  <2> SUFFICES ASSUME NEW c \in App!Ids PROVE c \in on <=> App!Is(c, App!Pending \cup {"approved"})
    OBVIOUS
  <2> QED BY StatusTyped DEF App!InProgress, App!Is, App!Pending, App!Statuses
<1>6. \A c \in App!Ids : App!Is(c, App!Pending \cup {"approved"}) => cases[c].program \in AidPrograms
  BY StatusTyped DEF CasesOK, App!Case, App!Is, App!Pending
<1>7. (\E p \in AidPrograms : App!Gate(p) = "in_progress")
      <=> \E c \in App!Ids : App!Is(c, App!Pending \cup {"approved"})
  BY <1>6, GateTyped DEF App!Of
<1> HIDE DEF on, all
<1> QED BY <1>1, <1>4, <1>5, <1>7 DEF App!AssistantTrue

----------------------------------------------------------------------------
(* What the screens know *)

SeatsOK == /\ booked \in [App!Ids -> AppSlots \cup {None}]
           /\ seats \in [AppSlots -> {"open", "full", "near"}]
           /\ notes \in [App!Ids -> {"none", "unread", "read"}]

TapsOK == /\ orphans \subseteq AidPrograms /\ moved \subseteq App!Views
          /\ journey \in Journeys /\ appMode \in AppModes
          /\ appOps \in 0..AppMaxOps[journey]

\* The screen in front is there, and the one that the schedule goes back to.
OnTop ==
  /\ at \in App!Screens \cup {"pending"} /\ below \in {"home", "messages", "detail"}
  /\ at = "program" => prog # None
  /\ at = "qr" => qr # None
  /\ at = "detail" \/ (at = "schedule" /\ below = "detail") => detail # None
  /\ at = "messages" \/ (at = "schedule" /\ below = "messages") => msgs # None

\* Nothing has moved on the server since the view was asked for.
Tracks(view) == appMode = "reliable" /\ view \notin moved

\* What was sent, was sent from the form, and no case has since stood against it.
PostOK(new) ==
  new.post # "none" => new.stage = "shown" /\ new.gate = "open" /\ new.post # "failed"

ProgOK ==
  /\ prog \in App!Prog \cup {None}
  /\ prog # None /\ Tracks("program") =>
       /\ prog.stage # "list"
       /\ prog.stage \in {"apps", "shown"} => prog.gate = App!Gate(prog.program)
       /\ prog.stage = "shown" => prog.existing = App!Existing(prog.program)
       /\ PostOK(prog)

ApprovedNow == {c \in App!Ids : App!Is(c, {"approved"})}

\* the cases of a program that a QR can be shown for
Ready(p) == {c \in App!Of(p) : App!Is(c, {"approved"}) /\ booked[c] # None}

QrOK ==
  /\ qr \in App!Qr \cup {None}
  /\ qr # None /\ Tracks("qr") =>
       /\ qr.stage # "shown" => qr.case = None
       /\ qr.stage = "bookings" => qr.approved = App!Of(qr.program) \cap ApprovedNow
       /\ qr.stage = "shown" => IF Ready(qr.program) = {} THEN qr.case = None
                                ELSE qr.case \in Ready(qr.program)

SchedOK ==
  /\ sched \in App!Schedule \cup {None}
  /\ sched # None /\ Tracks("schedule") =>
       /\ sched.stage \in {"slots", "shown"} => sched.mine = booked
       /\ sched.stage = "shown" /\ sched.chosen # None =>
            /\ sched.chosen \in ApprovedNow
            /\ sched.slots = {s \in AppSlots : seats[s] = "open"}

HomeOK ==
  /\ home \in App!Home
  /\ Tracks("programs") /\ "programs" \notin home.asked =>
       home.gates = [p \in AidPrograms |-> App!Gate(p)]
  /\ Tracks("apps") /\ "apps" \notin home.asked =>
       home.apps = [c \in App!Ids |-> App!ClientStatus(c)]

DetailOK ==
  /\ detail \in App!Detail \cup {None}
  /\ detail # None /\ Tracks("detail") =>
       /\ detail.polls \subseteq {App!ClientStatus(detail.case)}
       /\ detail.polls = {} => detail.shown = App!ClientStatus(detail.case)

InboxOK == msgs \in App!Inbox \cup {None}

AppInv ==
  /\ CasesOK /\ SeatsOK /\ TapsOK /\ OnTop
  /\ ProgOK /\ QrOK /\ SchedOK /\ HomeOK /\ DetailOK /\ InboxOK

ShutOK == shut \subseteq AidPrograms

LEMMA AppTyped == AppInv /\ ShutOK => App!TypeOK
BY DEF AppInv, CasesOK, SeatsOK, TapsOK, OnTop, ProgOK, QrOK, SchedOK, HomeOK, DetailOK, InboxOK, ShutOK, App!TypeOK

----------------------------------------------------------------------------
(* What a step leaves alone *)

\* The server stands still, or the view is known to be left behind.
LeftAlone(view) ==
  view \notin moved' => view \notin moved /\ UNCHANGED <<cases, booked, seats, notes>>

LEMMA ServerMoved ==
  ASSUME moved' = App!Views, NEW view \in App!Views
  PROVE  LeftAlone(view)
BY DEF LeftAlone

LEMMA ServerStill ==
  ASSUME UNCHANGED <<cases, booked, seats, notes>>, NEW view, view \in moved => view \in moved'
  PROVE  LeftAlone(view)
BY DEF LeftAlone

\* The answers of a server whose cases stand still are the same.
LEMMA SameAnswers ==
  ASSUME UNCHANGED cases
  PROVE  /\ \A p : App!Gate(p)' = App!Gate(p) /\ App!Existing(p)' = App!Existing(p) /\ App!Of(p)' = App!Of(p)
         /\ \A c : App!ClientStatus(c)' = App!ClientStatus(c)
         /\ \A c, S : App!Is(c, S)' <=> App!Is(c, S)
         /\ ApprovedNow' = ApprovedNow
<1>1. /\ \A c : App!ClientStatus(c)' = App!ClientStatus(c)
      /\ \A c, S : App!Is(c, S)' <=> App!Is(c, S)
      /\ \A p : App!Of(p)' = App!Of(p)
  BY DEF App!ClientStatus, App!Is, App!Of
<1>2. ApprovedNow' = ApprovedNow
  BY DEF ApprovedNow, App!Is
<1>3. \A p : App!Gate(p)' = App!Gate(p)
  BY DEF App!Gate, App!Of, App!Is
<1>4. \A p : App!Existing(p)' = App!Existing(p)
  BY DEF App!Existing, App!Of, App!ClientStatus, App!First, App!Precedes, App!Rank
<1> QED BY <1>1, <1>2, <1>3, <1>4

LEMMA ProgKept ==
  ASSUME ProgOK, UNCHANGED <<prog, appMode>>, LeftAlone("program")
  PROVE  ProgOK'
BY SameAnswers DEF ProgOK, PostOK, Tracks, LeftAlone

LEMMA QrKept ==
  ASSUME QrOK, UNCHANGED <<qr, appMode>>, LeftAlone("qr")
  PROVE  QrOK'
<1>1. UNCHANGED <<cases, booked>> => \A p : Ready(p)' = Ready(p)
  BY DEF Ready, App!Of, App!Is
<1> QED BY <1>1, SameAnswers DEF QrOK, Tracks, LeftAlone

LEMMA SchedKept ==
  ASSUME SchedOK, UNCHANGED <<sched, appMode>>, LeftAlone("schedule")
  PROVE  SchedOK'
BY SameAnswers DEF SchedOK, Tracks, LeftAlone

LEMMA HomeKept ==
  ASSUME HomeOK, UNCHANGED <<home, appMode>>, LeftAlone("programs"), LeftAlone("apps")
  PROVE  HomeOK'
BY SameAnswers DEF HomeOK, Tracks, LeftAlone

LEMMA DetailKept ==
  ASSUME DetailOK, UNCHANGED <<detail, appMode>>, LeftAlone("detail")
  PROVE  DetailOK'
BY SameAnswers DEF DetailOK, Tracks, LeftAlone

LEMMA InboxKept == ASSUME InboxOK, UNCHANGED msgs PROVE InboxOK'
BY DEF InboxOK

LEMMA CasesKept == ASSUME CasesOK, UNCHANGED cases PROVE CasesOK'
BY DEF CasesOK

LEMMA SeatsKept == ASSUME SeatsOK, UNCHANGED <<booked, seats, notes>> PROVE SeatsOK'
BY DEF SeatsOK

LEMMA TapsKept ==
  ASSUME TapsOK, UNCHANGED <<orphans, journey, appMode, appOps>>, moved' \subseteq App!Views
  PROVE  TapsOK'
BY DEF TapsOK

LEMMA OnTopKept ==
  ASSUME OnTop, UNCHANGED <<at, below>>,
         prog # None => prog' # None, qr # None => qr' # None,
         detail # None => detail' # None, msgs # None => msgs' # None
  PROVE  OnTop'
BY DEF OnTop

LEMMA TapTaken ==
  ASSUME App!Assumptions, TapsOK, App!Taps, orphans' \subseteq AidPrograms, moved' \subseteq App!Views
  PROVE  TapsOK'
<1>1. AppMaxOps[journey] \in Nat /\ appOps \in 0..AppMaxOps[journey]
  BY DEF TapsOK, App!Assumptions
<1>2. appOps' \in 0..AppMaxOps[journey] /\ UNCHANGED <<journey, appMode>>
  BY <1>1 DEF App!Taps, App!others
<1> QED BY <1>2 DEF TapsOK

\* All of the screens, while the server moves
LEMMA ScreensLeft ==
  ASSUME AppInv, moved' = App!Views, UNCHANGED App!screens, UNCHANGED appMode
  PROVE  ProgOK' /\ QrOK' /\ SchedOK' /\ HomeOK' /\ DetailOK' /\ InboxOK'
<1>1. \A view \in {"program", "qr", "schedule", "programs", "apps", "detail"} : LeftAlone(view)
  <2>1. {"program", "qr", "schedule", "programs", "apps", "detail"} \subseteq App!Views
    BY DEF App!Views, App!Screens
  <2> QED BY <2>1, ServerMoved
<1> QED BY <1>1, ProgKept, QrKept, SchedKept, HomeKept, DetailKept, InboxKept DEF AppInv, App!screens

\* A step of the staff
LEMMA StaffKeeps ==
  ASSUME AppInv, App!ServerMoves, UNCHANGED <<at, below, App!screens, orphans, appOps, App!others>>, CasesOK', SeatsOK'
  PROVE  AppInv'
<1>1. moved' = App!Views /\ UNCHANGED <<App!screens, appMode, journey>>
  BY DEF App!ServerMoves, App!others
<1>2. OnTop' /\ TapsOK'
  BY <1>1, OnTopKept, TapsKept DEF AppInv, App!screens
<1> QED BY <1>1, <1>2, ScreensLeft DEF AppInv

LEMMA StaffSteps ==
  ASSUME App!Assumptions, AppInv, NEW c \in App!Ids,
         App!Endorse(c) \/ App!Decide(c) \/ App!Claim(c) \/ App!Cool(c)
  PROVE  AppInv'
<1>1. App!ServerMoves /\ UNCHANGED <<at, below, App!screens, orphans, appOps, App!others>>
  BY DEF App!Endorse, App!Decide, App!Claim, App!Cool, App!StaffStep
<1>2. CasesOK'
  <2>1. cases[c] \in App!Case /\ cases[c].status # "none"
    BY StatusTyped DEF AppInv, App!Endorse, App!Decide, App!Claim, App!Cool, App!Is, App!Pending
  <2>2. \/ \E x \in App!Statuses \ {"none"} : cases' = [cases EXCEPT ![c].status = x]
        \/ cases' = [cases EXCEPT ![c].cooled = TRUE]
    BY DEF App!Endorse, App!Decide, App!Claim, App!Cool, App!Statuses
  <2>3. \E new \in App!Case : /\ new.status # "none" /\ new.program = cases[c].program
                              /\ cases' = [cases EXCEPT ![c] = new]
    <3>1. ASSUME NEW x \in App!Statuses \ {"none"}, cases' = [cases EXCEPT ![c].status = x]
          PROVE  \E new \in App!Case : /\ new.status # "none" /\ new.program = cases[c].program
                                      /\ cases' = [cases EXCEPT ![c] = new]
      <4> DEFINE new == [cases[c] EXCEPT !.status = x]
      <4>1. new \in App!Case /\ new.status # "none" /\ new.program = cases[c].program
        BY <2>1, <3>1 DEF App!Case
      <4> QED BY <3>1, <4>1
    <3>2. ASSUME cases' = [cases EXCEPT ![c].cooled = TRUE]
          PROVE  \E new \in App!Case : /\ new.status # "none" /\ new.program = cases[c].program
                                      /\ cases' = [cases EXCEPT ![c] = new]
      <4> DEFINE new == [cases[c] EXCEPT !.cooled = TRUE]
      <4>1. new \in App!Case /\ new.status # "none" /\ new.program = cases[c].program
        BY <2>1 DEF App!Case
      <4> QED BY <3>2, <4>1
    <3> QED BY <2>2, <3>1, <3>2
  <2> QED BY <2>1, <2>3 DEF AppInv, CasesOK
<1>3. SeatsOK'
  <2>1. UNCHANGED <<booked, seats>>
        /\ (notes' = notes \/ \E told \in BOOLEAN :
              notes' = [notes EXCEPT ![c] = IF told THEN "unread" ELSE notes[c]])
    BY DEF App!Endorse, App!Decide, App!Claim, App!Cool, App!StaffStep
  <2> QED BY <2>1 DEF AppInv, SeatsOK
<1> QED BY <1>1, <1>2, <1>3, StaffKeeps

LEMMA TurnSlotKeeps ==
  ASSUME App!Assumptions, AppInv, NEW s \in AppSlots, App!TurnSlot(s)
  PROVE  AppInv'
<1>1. SeatsOK' /\ CasesOK'
  BY CasesKept DEF AppInv, SeatsOK, App!TurnSlot
<1> QED BY <1>1, StaffKeeps DEF App!TurnSlot

LEMMA AppInit == ASSUME App!Assumptions, App!Init PROVE AppInv
<1>1. CasesOK
  <2>1. PICK of \in [App!Ids -> AidPrograms \cup {None}] :
          cases = [c \in App!Ids |->
                 [program |-> of[c], cooled |-> FALSE,
                  status |-> IF of[c] = None THEN "none" ELSE "in_approval"]]
    BY DEF App!Init
  <2> QED BY <2>1 DEF CasesOK, App!Case, App!Statuses
<1>2. SeatsOK
  BY DEF SeatsOK, App!Init
<1>3. TapsOK
  <2>1. journey \in Journeys /\ AppMaxOps[journey] \in Nat
    BY DEF App!Init, App!Assumptions
  <2> QED BY <2>1 DEF TapsOK, App!Init
<1>4. OnTop
  BY DEF OnTop, App!Init, App!Screens
<1>5. ProgOK /\ QrOK /\ SchedOK /\ DetailOK /\ InboxOK
  BY DEF ProgOK, QrOK, SchedOK, DetailOK, InboxOK, App!Init
<1>6. HomeOK
  <2>1. CASE "home" \in journey
    <3>1. home = [gates |-> [p \in AidPrograms |-> "none"],
                    apps |-> [c \in App!Ids |-> "none"], badge |-> 0,
                    asked |-> {"programs", "apps", "badge"}]
      BY <2>1 DEF App!Init
    <3>2. 0 \in 0..MaxCases
      BY AppIds
    <3>3. home \in App!Home
      BY <3>1, <3>2 DEF App!Home, App!Gates, App!Shown
    <3> QED BY <3>1, <3>3 DEF HomeOK
  <2>2. CASE "home" \notin journey
    <3>1. home = [gates |-> [p \in AidPrograms |-> App!Gate(p)],
                    apps |-> [c \in App!Ids |-> App!ClientStatus(c)], badge |-> 0,
                    asked |-> {}]
      BY <2>2 DEF App!Init
    <3>2. 0 \in 0..MaxCases
      BY AppIds
    <3>3. /\ \A p \in AidPrograms : App!Gate(p) \in App!Gates
          /\ \A c \in App!Ids : App!ClientStatus(c) \in App!Shown
      BY <1>1, GateTyped, StatusTyped DEF App!Gates
    <3>4. home \in App!Home
      BY <3>1, <3>2, <3>3 DEF App!Home
    <3> QED BY <3>1, <3>4 DEF HomeOK
  <2> QED BY <2>1, <2>2
<1> QED BY <1>1, <1>2, <1>3, <1>4, <1>5, <1>6 DEF AppInv

----------------------------------------------------------------------------
(* Moving between screens *)

\* The server stands still, and at most a view is asked for anew.
LEMMA Quiet ==
  ASSUME UNCHANGED <<cases, booked, seats, notes, appMode>>, NEW S, moved' = moved \ S
  PROVE  \A view : view \notin S => LeftAlone(view)
BY ServerStill

LEMMA TapsStill ==
  ASSUME App!Assumptions, AppInv, App!Taps, NEW S, moved' = moved \ S, orphans' \subseteq AidPrograms
  PROVE  CasesOK' /\ SeatsOK' /\ TapsOK' /\ appMode' = appMode
         /\ (\A view : view \notin S => LeftAlone(view))
<1>1. UNCHANGED <<cases, booked, seats, notes, journey, appMode>>
  BY DEF App!Taps, App!server, App!others
<1>2. moved' \subseteq App!Views
  BY DEF AppInv, TapsOK
<1> QED BY <1>1, <1>2, Quiet, CasesKept, SeatsKept, TapTaken DEF AppInv

LEMMA TapsSame ==
  ASSUME App!Assumptions, AppInv, App!Taps, UNCHANGED moved, orphans' \subseteq AidPrograms
  PROVE  CasesOK' /\ SeatsOK' /\ TapsOK' /\ appMode' = appMode /\ (\A view : LeftAlone(view))
<1>1. UNCHANGED <<cases, booked, seats, notes, journey, appMode>>
  BY DEF App!Taps, App!server, App!others
<1>2. moved' \subseteq App!Views
  BY DEF AppInv, TapsOK
<1> QED BY <1>1, <1>2, ServerStill, CasesKept, SeatsKept, TapTaken DEF AppInv

LEMMA GoFacts ==
  ASSUME AppInv, NEW screen, App!Go(screen)
  PROVE  moved' = moved \ {screen} /\ orphans' \subseteq AidPrograms
BY DEF AppInv, TapsOK, App!Go

LEMMA OpenProgramKeeps ==
  ASSUME App!Assumptions, AppInv, NEW p \in AidPrograms, App!OpenProgram(p)
  PROVE  AppInv'
<1>1. App!Taps /\ moved' = moved \ {"program"} /\ orphans' \subseteq AidPrograms
  BY GoFacts DEF App!OpenProgram
<1>2. CasesOK' /\ SeatsOK' /\ TapsOK' /\ appMode' = appMode
      /\ (\A view : view \notin {"program"} => LeftAlone(view))
  BY <1>1, TapsStill
<1>3. QrOK' /\ SchedOK' /\ HomeOK' /\ DetailOK' /\ InboxOK'
  BY <1>2, QrKept, SchedKept, HomeKept, DetailKept, InboxKept DEF AppInv, App!OpenProgram
<1>4. prog' \in App!Prog /\ prog'.stage = "detail" /\ prog'.post = "none"
  BY DEF App!OpenProgram, App!NewProg, App!Prog, App!Gates, App!Shown, App!Answers
<1>5. ProgOK'
  BY <1>4 DEF ProgOK, PostOK
<1>6. OnTop'
  BY <1>4 DEF AppInv, OnTop, App!OpenProgram, App!Go, App!Screens, App!Assumptions
<1> QED BY <1>2, <1>3, <1>5, <1>6 DEF AppInv

LEMMA OpenMessagesKeeps ==
  ASSUME App!Assumptions, AppInv, App!OpenMessages
  PROVE  AppInv'
<1>1. App!Taps /\ moved' = moved \ {"messages"} /\ orphans' \subseteq AidPrograms
  BY GoFacts DEF App!OpenMessages
<1>2. CasesOK' /\ SeatsOK' /\ TapsOK' /\ appMode' = appMode
      /\ (\A view : view \notin {"messages"} => LeftAlone(view))
  BY <1>1, TapsStill
<1>3. ProgOK' /\ QrOK' /\ SchedOK' /\ HomeOK' /\ DetailOK'
  BY <1>2, ProgKept, QrKept, SchedKept, HomeKept, DetailKept DEF AppInv, App!OpenMessages
<1>4. msgs' \in App!Inbox
  BY DEF App!OpenMessages, App!NewInbox, App!Inbox
<1>5. InboxOK'
  BY <1>4 DEF InboxOK
<1>6. OnTop'
  BY <1>4 DEF AppInv, OnTop, App!OpenMessages, App!Go, App!Screens, App!Assumptions
<1> QED BY <1>2, <1>3, <1>5, <1>6 DEF AppInv

LEMMA OpenDetailKeeps ==
  ASSUME App!Assumptions, AppInv, NEW c \in App!Ids, App!OpenDetail(c)
  PROVE  AppInv'
<1>1. App!Taps /\ moved' = moved \ {"detail"} /\ orphans' \subseteq AidPrograms
  BY GoFacts DEF App!OpenDetail
<1>2. CasesOK' /\ SeatsOK' /\ TapsOK' /\ appMode' = appMode /\ cases' = cases
      /\ (\A view : view \notin {"detail"} => LeftAlone(view))
  BY <1>1, TapsStill DEF App!Taps, App!server
<1>3. ProgOK' /\ QrOK' /\ SchedOK' /\ HomeOK' /\ InboxOK'
  BY <1>2, ProgKept, QrKept, SchedKept, HomeKept, InboxKept DEF AppInv, App!OpenDetail
<1>4. detail' = [case |-> c, shown |-> "none", polls |-> {App!ClientStatus(c)}]
      /\ App!ClientStatus(c) \in App!Shown
  BY StatusTyped DEF AppInv, App!OpenDetail, App!NewDetail
<1>5. detail' \in App!Detail
  BY <1>4 DEF App!Detail, App!Shown
<1>6. DetailOK'
  <2>1. detail'.case = c /\ detail'.polls = {App!ClientStatus(c)}
    BY <1>4
  <2>2. App!ClientStatus(c)' = App!ClientStatus(c)
    BY <1>2, SameAnswers
  <2>3. App!ClientStatus(detail.case)' = App!ClientStatus(c)
    BY <1>2, <2>1 DEF App!ClientStatus
  <2> QED BY <1>5, <2>1, <2>3 DEF DetailOK
<1>7. OnTop'
  BY <1>5 DEF AppInv, OnTop, App!OpenDetail, App!Go, App!Screens, App!Assumptions
<1> QED BY <1>2, <1>3, <1>6, <1>7 DEF AppInv

LEMMA ScheduleIsNew ==
  ASSUME App!Assumptions
  PROVE  App!NewSchedule \in App!Schedule /\ App!NewSchedule.stage = "apps"
BY DEF App!NewSchedule, App!Schedule, App!Answers

LEMMA OpenScheduleKeeps ==
  ASSUME App!Assumptions, AppInv, App!OpenSchedule
  PROVE  AppInv'
<1>1. App!Taps /\ moved' = moved \ {"schedule"} /\ orphans' \subseteq AidPrograms
  BY GoFacts DEF App!OpenSchedule
<1>2. CasesOK' /\ SeatsOK' /\ TapsOK' /\ appMode' = appMode
      /\ (\A view : view \notin {"schedule"} => LeftAlone(view))
  BY <1>1, TapsStill
<1>3. ProgOK' /\ QrOK' /\ HomeOK' /\ DetailOK' /\ InboxOK'
  BY <1>2, ProgKept, QrKept, HomeKept, DetailKept, InboxKept DEF AppInv, App!OpenSchedule
<1>4. SchedOK'
  BY ScheduleIsNew DEF SchedOK, App!OpenSchedule
<1>5. OnTop'
  BY DEF AppInv, OnTop, App!OpenSchedule, App!Go, App!Screens
<1> QED BY <1>2, <1>3, <1>4, <1>5 DEF AppInv

LEMMA OpenQrKeeps ==
  ASSUME App!Assumptions, AppInv, NEW p \in AidPrograms, App!OpenQr(p)
  PROVE  AppInv'
<1>1. App!Taps /\ moved' = moved \ {"qr"} /\ orphans' \subseteq AidPrograms
  BY GoFacts DEF App!OpenQr
<1>2. CasesOK' /\ SeatsOK' /\ TapsOK' /\ appMode' = appMode
      /\ (\A view : view \notin {"qr"} => LeftAlone(view))
  BY <1>1, TapsStill
<1>3. ProgOK' /\ SchedOK' /\ HomeOK' /\ DetailOK' /\ InboxOK'
  BY <1>2, ProgKept, SchedKept, HomeKept, DetailKept, InboxKept DEF AppInv, App!OpenQr
<1>4. qr' \in App!Qr /\ qr'.stage = "program" /\ qr'.case = None
  BY DEF App!OpenQr, App!NewQr, App!Qr
<1>5. QrOK'
  BY <1>4 DEF QrOK
<1>6. OnTop'
  BY <1>4 DEF AppInv, OnTop, App!OpenQr, App!Go, App!Screens, App!Assumptions
<1> QED BY <1>2, <1>3, <1>5, <1>6 DEF AppInv

LEMMA BackKeeps ==
  ASSUME App!Assumptions, AppInv, App!Back
  PROVE  AppInv'
<1>1. App!Taps /\ UNCHANGED moved /\ orphans' \subseteq AidPrograms
  <2>1. at = "program" => prog.program \in AidPrograms
    BY DEF AppInv, OnTop, ProgOK, App!Prog
  <2> QED BY <2>1 DEF AppInv, TapsOK, App!Back
<1>2. CasesOK' /\ SeatsOK' /\ TapsOK' /\ appMode' = appMode /\ (\A view : LeftAlone(view))
  BY <1>1, TapsSame
<1>3. ProgOK'
  BY <1>2, ProgKept DEF AppInv, ProgOK, App!Back
<1>4. QrOK' /\ SchedOK'
  BY DEF QrOK, SchedOK, App!Back
<1>5. DetailOK'
  BY <1>2, DetailKept DEF AppInv, DetailOK, App!Back
<1>6. InboxOK' /\ HomeOK'
  BY <1>2, HomeKept DEF AppInv, InboxOK, App!Back
<1>7. OnTop'
  BY DEF AppInv, OnTop, App!Back, App!Screens
<1> QED BY <1>2, <1>3, <1>4, <1>5, <1>6, <1>7 DEF AppInv

----------------------------------------------------------------------------
(* Home *)

LEMMA PullToRefreshKeeps ==
  ASSUME App!Assumptions, AppInv, App!PullToRefresh
  PROVE  AppInv'
<1>1. App!Taps /\ moved' = moved \ {"programs", "apps", "badge"} /\ orphans' \subseteq AidPrograms
  BY DEF AppInv, TapsOK, App!PullToRefresh
<1>2. CasesOK' /\ SeatsOK' /\ TapsOK' /\ appMode' = appMode
      /\ (\A view : view \notin {"programs", "apps", "badge"} => LeftAlone(view))
  BY <1>1, TapsStill
<1>3. ProgOK' /\ QrOK' /\ SchedOK' /\ DetailOK' /\ InboxOK'
  BY <1>2, ProgKept, QrKept, SchedKept, DetailKept, InboxKept DEF AppInv, App!PullToRefresh
<1>4. HomeOK'
  <2>1. home \in App!Home
    BY DEF AppInv, HomeOK
  <2>2. home' \in App!Home /\ home'.asked = {"programs", "apps", "badge"}
    BY <2>1 DEF App!PullToRefresh, App!Home
  <2> QED BY <2>2 DEF HomeOK
<1>5. OnTop'
  BY OnTopKept DEF AppInv, App!PullToRefresh
<1> QED BY <1>2, <1>3, <1>4, <1>5 DEF AppInv

LEMMA SameCountApp == \A S : App!Cardinality(S) = Cardinality(S)
BY Zenon DEF App!Cardinality, Cardinality

LEMMA UnreadTyped == ASSUME App!Assumptions PROVE App!Unread \in 0..MaxCases
<1> DEFINE S == {c \in App!Ids : notes[c] = "unread"}
<1>1. IsFiniteSet(1..MaxCases) /\ Cardinality(1..MaxCases) = MaxCases /\ App!Ids = 1..MaxCases /\ MaxCases \in Nat
  BY AppIds, FS_Interval
<1>2. S \subseteq 1..MaxCases
  BY <1>1
<1>3. Cardinality(S) \in Nat /\ Cardinality(S) <= MaxCases
  <2> HIDE DEF S
  <2> QED BY <1>1, <1>2, FS_Subset, FS_CardinalityType
<1>4. App!Unread = Cardinality(S)
  BY SameCountApp DEF App!Unread
<1> HIDE DEF S
<1> QED BY <1>1, <1>3, <1>4

\* A step of the application itself
LEMMA StepStill ==
  ASSUME AppInv, App!AppStep, NEW S, moved' = moved \ S
  PROVE  CasesOK' /\ SeatsOK' /\ TapsOK' /\ UNCHANGED <<cases, booked, seats, notes, appMode, at, below>>
         /\ (\A view : view \notin S => LeftAlone(view))
<1>1. UNCHANGED <<cases, booked, seats, notes, journey, appMode, at, below, orphans, appOps>>
  BY DEF App!AppStep, App!server, App!others
<1>2. moved' \subseteq App!Views
  BY DEF AppInv, TapsOK
<1> QED BY <1>1, <1>2, Quiet, CasesKept, SeatsKept, TapsKept DEF AppInv

LEMMA StepSame ==
  ASSUME AppInv, App!AppStep, UNCHANGED moved
  PROVE  CasesOK' /\ SeatsOK' /\ TapsOK' /\ UNCHANGED <<cases, booked, seats, notes, appMode, at, below>>
         /\ (\A view : LeftAlone(view))
<1>1. UNCHANGED <<cases, booked, seats, notes, journey, appMode, at, below, orphans, appOps>>
  BY DEF App!AppStep, App!server, App!others
<1>2. moved' \subseteq App!Views
  BY DEF AppInv, TapsOK
<1> QED BY <1>1, <1>2, ServerStill, CasesKept, SeatsKept, TapsKept DEF AppInv

LEMMA LoadHomeKeeps ==
  ASSUME App!Assumptions, AppInv, NEW what \in home.asked, App!LoadHome(what)
  PROVE  AppInv'
<1>1. App!AppStep /\ UNCHANGED moved
  BY DEF App!LoadHome
<1>2. CasesOK' /\ SeatsOK' /\ TapsOK' /\ UNCHANGED <<cases, booked, seats, notes, appMode, at, below>>
      /\ (\A view : LeftAlone(view))
  BY <1>1, StepSame
<1>3. ProgOK' /\ QrOK' /\ SchedOK' /\ DetailOK' /\ InboxOK'
  BY <1>2, ProgKept, QrKept, SchedKept, DetailKept, InboxKept DEF AppInv, App!LoadHome
<1>4. OnTop'
  BY <1>2, OnTopKept DEF AppInv, App!LoadHome
<1>5. PICK got \in {TRUE, ~App!Lossy} :
       home' = [asked |-> home.asked \ {what},
          gates |-> IF what # "programs" THEN home.gates
                    ELSE [p \in AidPrograms |-> IF got THEN App!Gate(p) ELSE "none"],
          apps  |-> IF what # "apps" THEN home.apps
                    ELSE [c \in App!Ids |-> IF got THEN App!ClientStatus(c) ELSE "none"],
          badge |-> IF what # "badge" THEN home.badge
                    ELSE IF got THEN App!Unread ELSE 0]
  BY DEF App!LoadHome
<1>6. home \in App!Home
  BY DEF AppInv, HomeOK
<1>7. home' \in App!Home
  <2>1. \A p \in AidPrograms : (IF got THEN App!Gate(p) ELSE "none") \in App!Gates
    BY GateTyped DEF App!Gates
  <2>2. \A c \in App!Ids : (IF got THEN App!ClientStatus(c) ELSE "none") \in App!Shown
    BY StatusTyped DEF AppInv, App!Shown
  <2>3. App!Unread \in 0..MaxCases /\ 0 \in 0..MaxCases
    BY UnreadTyped, AppIds
  <2> QED BY <1>5, <1>6, <2>1, <2>2, <2>3 DEF App!Home
<1>8. HomeOK'
  <2>1. Tracks("programs")' => Tracks("programs") /\ got = TRUE
    BY <1>1, <1>2 DEF Tracks, App!Lossy
  <2>2. Tracks("apps")' => Tracks("apps") /\ got = TRUE
    BY <1>1, <1>2 DEF Tracks, App!Lossy
  <2>3. (\A p : App!Gate(p)' = App!Gate(p)) /\ (\A c : App!ClientStatus(c)' = App!ClientStatus(c))
    BY <1>2, SameAnswers
  <2>4. ASSUME Tracks("programs")', "programs" \notin home'.asked
        PROVE  home'.gates = [p \in AidPrograms |-> App!Gate(p)]
    <3>1. CASE what = "programs"
      BY <1>5, <2>1, <2>4, <3>1
    <3>2. CASE what # "programs"
      BY <1>5, <2>1, <2>4, <3>2 DEF AppInv, HomeOK
    <3> QED BY <3>1, <3>2
  <2>5. ASSUME Tracks("apps")', "apps" \notin home'.asked
        PROVE  home'.apps = [c \in App!Ids |-> App!ClientStatus(c)]
    <3>1. CASE what = "apps"
      BY <1>5, <2>2, <2>5, <3>1
    <3>2. CASE what # "apps"
      BY <1>5, <2>2, <2>5, <3>2 DEF AppInv, HomeOK
    <3> QED BY <3>1, <3>2
  <2> QED BY <1>7, <2>3, <2>4, <2>5 DEF HomeOK
<1> QED BY <1>2, <1>3, <1>4, <1>8 DEF AppInv

----------------------------------------------------------------------------
(* The screen of a program *)

LEMMA SetProgKeeps ==
  ASSUME App!Assumptions, AppInv, NEW new \in App!Prog, App!SetProg(new), ProgOK'
  PROVE  AppInv'
<1>1. CasesOK' /\ SeatsOK' /\ TapsOK' /\ UNCHANGED <<cases, booked, seats, notes, appMode, at, below>>
      /\ (\A view : LeftAlone(view))
  BY StepSame DEF App!SetProg
<1>2. QrOK' /\ SchedOK' /\ HomeOK' /\ DetailOK' /\ InboxOK'
  BY <1>1, QrKept, SchedKept, HomeKept, DetailKept, InboxKept DEF AppInv, App!SetProg
<1>3. OnTop'
  BY <1>1, OnTopKept DEF AppInv, App!SetProg, App!Assumptions
<1> QED BY <1>1, <1>2, <1>3 DEF AppInv

\* What the program's screen is told stays so in a step of the application.
LEMMA ProgTold ==
  ASSUME AppInv, NEW new \in App!Prog, App!SetProg(new), new.program = prog.program,
         Tracks("program") =>
           /\ new.stage # "list"
           /\ new.stage \in {"apps", "shown"} => new.gate = App!Gate(prog.program)
           /\ new.stage = "shown" => new.existing = App!Existing(prog.program)
           /\ PostOK(new)
  PROVE  ProgOK'
<1>1. prog' = new /\ UNCHANGED <<cases, moved, appMode>>
  BY DEF App!SetProg, App!AppStep, App!server, App!others
<1>2. UNCHANGED cases /\ UNCHANGED prog.program
  BY <1>1
<1>3. \A p : App!Gate(p)' = App!Gate(p) /\ App!Existing(p)' = App!Existing(p)
  BY <1>2, SameAnswers
<1>4. PostOK(new) => PostOK(prog)'
  BY <1>1 DEF PostOK
<1> QED BY <1>1, <1>2, <1>3, <1>4 DEF ProgOK, Tracks

\* The screen is as before but for its submission.
LEMMA SameProgOK ==
  ASSUME App!Assumptions, ProgOK, prog \in App!Prog, NEW new \in App!Prog, prog' = new, UNCHANGED appMode,
         new.stage = prog.stage, new.gate = prog.gate, new.program = prog.program,
         new.existing = prog.existing, LeftAlone("program"), Tracks("program")' => PostOK(new)
  PROVE  ProgOK'
<1> SUFFICES ASSUME Tracks("program")'
             PROVE  /\ new.stage # "list"
                    /\ new.stage \in {"apps", "shown"} => new.gate = App!Gate(prog.program)'
                    /\ new.stage = "shown" => new.existing = App!Existing(prog.program)'
  BY DEF ProgOK, PostOK
<1>1. Tracks("program") /\ UNCHANGED cases
  BY DEF Tracks, LeftAlone
<1>2. prog # None
  BY DEF App!Assumptions
<1>3. App!Gate(prog.program)' = App!Gate(prog.program) /\ App!Existing(prog.program)' = App!Existing(prog.program)
  BY <1>1 DEF App!Gate, App!Existing, App!Of, App!Is, App!ClientStatus, App!First, App!Precedes, App!Rank
<1> QED BY <1>1, <1>2, <1>3 DEF ProgOK

LEMMA LoadProgramKeeps ==
  ASSUME App!Assumptions, AppInv, App!LoadProgram \/ App!LoadFromList
  PROVE  AppInv'
<1> DEFINE got == [prog EXCEPT !.gate = App!Gate(prog.program), !.stage = "apps"]
           list == [prog EXCEPT !.stage = "list"]
           none == [prog EXCEPT !.stage = "apps"]
<1>1. prog \in App!Prog /\ prog.program \in AidPrograms
  BY DEF AppInv, ProgOK, App!LoadProgram, App!LoadFromList, App!ProgIs, App!Prog
<1>2. got \in App!Prog /\ got.program = prog.program /\ got.gate = App!Gate(prog.program) /\ got.stage = "apps"
  BY <1>1, GateTyped DEF App!Prog, App!Gates
<1>3. list \in App!Prog /\ none \in App!Prog /\ list.program = prog.program /\ none.program = prog.program
  BY <1>1 DEF App!Prog
<1>7. Tracks("program") => PostOK(got)
  <2>1. got.post = prog.post /\ prog # None /\ prog.stage # "shown"
    BY <1>1 DEF App!Prog, App!LoadProgram, App!LoadFromList, App!ProgIs
  <2> QED BY <2>1 DEF AppInv, ProgOK, PostOK
<1> HIDE DEF got, list, none
<1>4. CASE App!SetProg(got)
  BY <1>2, <1>4, <1>7, ProgTold, SetProgKeeps
<1>5. CASE App!Lossy /\ App!SetProg(list)
  BY <1>3, <1>5, ProgTold, SetProgKeeps DEF Tracks, App!Lossy
<1>6. CASE App!LoadFromList /\ App!SetProg(none)
  <2>1. ~Tracks("program")
    BY <1>6 DEF AppInv, ProgOK, App!LoadFromList, App!ProgIs
  <2> QED BY <1>3, <1>6, <2>1, ProgTold, SetProgKeeps
<1> QED BY <1>4, <1>5, <1>6 DEF App!LoadProgram, App!LoadFromList, got, list, none

LEMMA ExistingTyped ==
  ASSUME App!Assumptions, CasesOK, NEW p
  PROVE  App!Existing(p) \in App!Shown
<1> DEFINE on == {c \in App!Of(p) : App!ClientStatus(c) \notin App!Over}
<1>1. on \in SUBSET App!Ids
  BY DEF App!Of
<1>2. on # {} => App!First(on) \in App!Ids
  <2> HIDE DEF on
  <2> QED BY <1>1, FirstCase
<1>3. App!Existing(p) = IF on = {} THEN "none" ELSE App!ClientStatus(App!First(on))
  BY DEF App!Existing
<1>4. "none" \in App!Shown
  BY DEF App!Shown
<1> HIDE DEF on
<1> QED BY <1>2, <1>3, <1>4, StatusTyped

LEMMA LoadExistingKeeps ==
  ASSUME App!Assumptions, AppInv, App!LoadExisting
  PROVE  AppInv'
<1> DEFINE got == [prog EXCEPT !.existing = App!Existing(prog.program), !.stage = "shown"]
           none == [prog EXCEPT !.stage = "shown"]
<1>1. prog \in App!Prog /\ prog # None /\ prog.stage = "apps"
  BY DEF AppInv, ProgOK, App!LoadExisting, App!ProgIs
<1>2. /\ got \in App!Prog /\ got.program = prog.program /\ got.gate = prog.gate
      /\ got.existing = App!Existing(prog.program)
      /\ got.stage = "shown"
  BY <1>1, ExistingTyped DEF App!Prog, AppInv
<1>3. none \in App!Prog /\ none.program = prog.program
  BY <1>1 DEF App!Prog
<1>4. Tracks("program") => prog.gate = App!Gate(prog.program)
  BY <1>1 DEF AppInv, ProgOK
<1>7. Tracks("program") => PostOK(got)
  <2>1. got.post = prog.post
    BY <1>1 DEF App!Prog
  <2> QED BY <1>1, <2>1 DEF AppInv, ProgOK, PostOK
<1> HIDE DEF got, none
<1>5. CASE App!SetProg(got)
  BY <1>2, <1>4, <1>5, <1>7, ProgTold, SetProgKeeps
<1>6. CASE App!Lossy /\ App!SetProg(none)
  BY <1>3, <1>6, ProgTold, SetProgKeeps DEF Tracks, App!Lossy
<1> QED BY <1>5, <1>6 DEF App!LoadExisting, got, none

LEMMA SubmitsKeeps ==
  ASSUME App!Assumptions, AppInv, App!Submit
  PROVE  AppInv'
<1>1. App!Taps /\ UNCHANGED moved /\ orphans' \subseteq AidPrograms
  BY DEF AppInv, TapsOK, App!Submit
<1>2. CasesOK' /\ SeatsOK' /\ TapsOK' /\ appMode' = appMode /\ cases' = cases /\ (\A view : LeftAlone(view))
  BY <1>1, TapsSame DEF App!Taps, App!server
<1>3. QrOK' /\ SchedOK' /\ HomeOK' /\ DetailOK' /\ InboxOK'
  BY <1>2, QrKept, SchedKept, HomeKept, DetailKept, InboxKept DEF AppInv, App!Submit
<1> DEFINE new == [prog EXCEPT !.post = "sent"]
<1>4. prog \in App!Prog
  BY DEF AppInv, OnTop, ProgOK, App!Submit
<1>5. /\ new \in App!Prog /\ new.stage = prog.stage /\ new.gate = prog.gate
      /\ new.program = prog.program /\ new.existing = prog.existing
  BY <1>4 DEF App!Prog, App!Answers
<1>6. prog' = new
  BY DEF App!Submit
<1>9. Tracks("program")' => PostOK(new)
  <2> SUFFICES ASSUME Tracks("program")' PROVE new.stage = "shown" /\ new.gate = "open" /\ new.post # "failed"
    BY DEF PostOK
  <2>1. Tracks("program") /\ prog # None /\ App!ProgView = "form" /\ new.post = "sent"
    BY <1>1, <1>2, <1>4 DEF Tracks, App!Submit, App!Assumptions, App!Prog
  <2>2. prog.stage = "shown"
    BY <2>1 DEF App!ProgView
  <2>3. prog.gate = App!Gate(prog.program) /\ App!TrueView(prog.program) = "form"
    BY <1>4, <2>1, <2>2, ViewTrue DEF AppInv, ProgOK
  <2>4. App!Gate(prog.program) = "open"
    BY <2>3, GateTyped DEF App!TrueView
  <2> HIDE DEF new
  <2> QED BY <1>5, <2>1, <2>2, <2>3, <2>4
<1> HIDE DEF new
<1>7. ProgOK'
  BY <1>1, <1>2, <1>4, <1>5, <1>6, <1>9, SameProgOK DEF AppInv
<1>8. OnTop'
  BY <1>5, <1>6, OnTopKept DEF AppInv, App!Submit, App!Assumptions
<1> QED BY <1>2, <1>3, <1>7, <1>8 DEF AppInv

LEMMA ServeSubmitKeeps ==
  ASSUME App!Assumptions, AppInv, NEW p \in AidPrograms, App!ServeSubmit(p)
  PROVE  AppInv'
<1>1. \/ cases' = App!Created(p) /\ moved' = App!Views
      \/ UNCHANGED <<cases, moved>>
  BY DEF App!ServeSubmit, App!ServerMoves
<1>2. UNCHANGED <<booked, seats, notes, at, below, home, qr, sched, msgs, detail, appOps, journey, appMode>>
  BY DEF App!ServeSubmit, App!others
<1>3. \A view \in App!Views : LeftAlone(view)
  BY <1>1, <1>2, ServerMoved, ServerStill
<1>4. {"program", "qr", "schedule", "programs", "apps", "detail"} \subseteq App!Views
  BY DEF App!Views, App!Screens
<1>5. QrOK' /\ SchedOK' /\ HomeOK' /\ DetailOK' /\ InboxOK' /\ SeatsOK'
  BY <1>2, <1>3, <1>4, QrKept, SchedKept, HomeKept, DetailKept, InboxKept, SeatsKept DEF AppInv
<1>6. CasesOK'
  <2>1. CASE UNCHANGED cases
    BY <2>1, CasesKept DEF AppInv
  <2>2. CASE cases' = App!Created(p)
    <3> DEFINE c == App!Min({c \in App!Ids : App!Is(c, {"none"})})
               new == [program |-> p, status |-> "in_evaluation", cooled |-> FALSE]
    <3>1. cases' = [cases EXCEPT ![c] = new]
      BY <2>2 DEF App!Created
    <3>2. new \in App!Case /\ new.status # "none" /\ new.program # None
      BY DEF App!Case, App!Statuses, App!Assumptions
    <3> HIDE DEF c, new
    <3> QED BY <3>1, <3>2 DEF AppInv, CasesOK
  <2> QED BY <1>1, <2>1, <2>2
<1>7. TapsOK'
  BY <1>1, <1>2 DEF AppInv, TapsOK, App!ServeSubmit
<1>8. \/ UNCHANGED prog
      \/ /\ prog # None /\ prog.post = "sent" /\ prog.program = p
         /\ \E x \in {"done", "closed", "failed"} :
               /\ prog' = [prog EXCEPT !.post = x]
               /\ appMode = "reliable" => x = App!Outcome(p)
  BY DEF App!ServeSubmit, App!Sends, App!Outcome, App!Lossy
<1>9. ProgOK' /\ (prog # None => prog' # None)
  <2>1. CASE UNCHANGED prog
    BY <1>2, <1>3, <1>4, <2>1, ProgKept DEF AppInv
  <2>2. ASSUME prog # None, prog.post = "sent", prog.program = p,
               NEW x \in {"done", "closed", "failed"}, prog' = [prog EXCEPT !.post = x],
               appMode = "reliable" => x = App!Outcome(p)
        PROVE  ProgOK' /\ prog' # None
    <3> DEFINE new == [prog EXCEPT !.post = x]
    <3>1. prog \in App!Prog
      BY <2>2 DEF AppInv, ProgOK
    <3>2. /\ new \in App!Prog /\ new.stage = prog.stage /\ new.gate = prog.gate
          /\ new.program = prog.program /\ new.existing = prog.existing
      BY <3>1 DEF App!Prog, App!Answers
    <3>3. prog' = new
      BY <2>2
    <3>4. Tracks("program")' => PostOK(new)
      <4> SUFFICES ASSUME Tracks("program")' PROVE new.stage = "shown" /\ new.gate = "open" /\ x # "failed"
        BY <3>1 DEF PostOK, App!Prog
      <4>1. Tracks("program")
        BY <1>2, <1>3, <1>4 DEF Tracks, LeftAlone
      <4>2. prog.stage = "shown" /\ prog.gate = "open" /\ prog.gate = App!Gate(p)
        BY <2>2, <4>1 DEF AppInv, ProgOK, PostOK
      <4>3. x # "failed"
        BY <2>2, <4>1, <4>2 DEF Tracks, App!Outcome
      <4> QED BY <3>2, <4>2, <4>3
    <3> HIDE DEF new
    <3> QED BY <1>2, <1>3, <1>4, <3>1, <3>2, <3>3, <3>4, SameProgOK DEF AppInv, App!Assumptions
  <2> QED BY <1>8, <2>1, <2>2
<1>10. OnTop'
  BY <1>2, <1>9, OnTopKept DEF AppInv
<1> QED BY <1>5, <1>6, <1>7, <1>9, <1>10 DEF AppInv

LEMMA EndSubmitKeeps ==
  ASSUME App!Assumptions, AppInv, App!EndSubmit
  PROVE  AppInv'
<1>1. UNCHANGED <<cases, booked, seats, notes, below, home, qr, sched, msgs, detail, orphans, moved,
                  appOps, journey, appMode>>
  BY DEF App!EndSubmit, App!server, App!others
<1>2. \A view : LeftAlone(view)
  BY <1>1, ServerStill
<1>3. QrOK' /\ SchedOK' /\ HomeOK' /\ DetailOK' /\ InboxOK' /\ SeatsOK' /\ CasesOK'
  BY <1>1, <1>2, QrKept, SchedKept, HomeKept, DetailKept, InboxKept, SeatsKept, CasesKept DEF AppInv
<1>4. TapsOK'
  BY <1>1 DEF AppInv, TapsOK
<1> DEFINE new == [prog EXCEPT !.post = "none"]
<1>5. prog \in App!Prog
  BY DEF AppInv, ProgOK, App!EndSubmit
<1>6. /\ new \in App!Prog /\ new.stage = prog.stage /\ new.gate = prog.gate
      /\ new.program = prog.program /\ new.existing = prog.existing
  BY <1>5 DEF App!Prog, App!Answers
<1>7. prog' = new
  BY DEF App!EndSubmit
<1>10. PostOK(new)
  BY <1>5 DEF PostOK, App!Prog
<1> HIDE DEF new
<1>8. ProgOK'
  BY <1>1, <1>2, <1>5, <1>6, <1>7, <1>10, SameProgOK DEF AppInv
<1>9. OnTop'
  BY <1>1, <1>6, <1>7 DEF AppInv, OnTop, App!EndSubmit, App!Assumptions
<1> QED BY <1>3, <1>4, <1>8, <1>9 DEF AppInv

----------------------------------------------------------------------------
(* The claim QR *)

LEMMA SetQrKeeps ==
  ASSUME App!Assumptions, AppInv, NEW new \in App!Qr, App!SetQr(new),
         Tracks("qr") =>
           /\ new.stage # "shown" => new.case = None
           /\ new.stage = "bookings" => new.approved = App!Of(new.program) \cap ApprovedNow
           /\ new.stage = "shown" => IF Ready(new.program) = {} THEN new.case = None
                                     ELSE new.case \in Ready(new.program)
  PROVE  AppInv'
<1>1. CasesOK' /\ SeatsOK' /\ TapsOK' /\ UNCHANGED <<cases, booked, seats, notes, appMode, at, below>>
      /\ (\A view : LeftAlone(view))
  BY StepSame DEF App!SetQr
<1>2. ProgOK' /\ SchedOK' /\ HomeOK' /\ DetailOK' /\ InboxOK'
  BY <1>1, ProgKept, SchedKept, HomeKept, DetailKept, InboxKept DEF AppInv, App!SetQr
<1>3. OnTop'
  BY <1>1, OnTopKept DEF AppInv, App!SetQr, App!Assumptions
<1>4. QrOK'
  <2>1. qr' = new /\ (Tracks("qr")' <=> Tracks("qr"))
    BY <1>1 DEF App!SetQr, Tracks
  <2>2. ApprovedNow' = ApprovedNow
    BY <1>1, SameAnswers
  <2>3. Ready(qr.program)' = Ready(new.program) /\ App!Of(qr.program)' = App!Of(new.program)
    BY <1>1, <2>1 DEF Ready, App!Of, App!Is
  <2> QED BY <2>1, <2>2, <2>3 DEF QrOK
<1> QED BY <1>1, <1>2, <1>3, <1>4 DEF AppInv

LEMMA LoadQrKeeps ==
  ASSUME App!Assumptions, AppInv,
         App!LoadQrProgram \/ App!LoadQrApps \/ App!LoadQrBookings \/ App!LoseQr
  PROVE  AppInv'
<1>1. qr \in App!Qr /\ qr # None
  BY DEF AppInv, QrOK, App!LoadQrProgram, App!LoadQrApps, App!LoadQrBookings, App!LoseQr, App!QrIs
<1>2. ASSUME App!LoadQrProgram PROVE AppInv'
  <2> DEFINE new == [qr EXCEPT !.stage = "apps"]
  <2>1. qr.stage = "program" /\ App!SetQr(new)
    BY <1>2 DEF App!LoadQrProgram, App!QrIs
  <2>2. new \in App!Qr /\ new.stage = "apps" /\ new.case = qr.case
    BY <1>1 DEF App!Qr
  <2>3. Tracks("qr") => qr.case = None
    BY <1>1, <2>1 DEF AppInv, QrOK
  <2> HIDE DEF new
  <2> QED BY <2>1, <2>2, <2>3, SetQrKeeps
<1>3. ASSUME App!LoadQrApps PROVE AppInv'
  <2> DEFINE approved == {c \in App!Of(qr.program) : App!ClientStatus(c) = "approved"}
             new == [qr EXCEPT !.approved = approved,
                               !.stage = IF approved = {} THEN "shown" ELSE "bookings"]
  <2>1. qr.stage = "apps" /\ App!SetQr(new)
    BY <1>3 DEF App!LoadQrApps, App!QrIs
  <2>2. approved = App!Of(qr.program) \cap ApprovedNow /\ approved \subseteq App!Ids
    BY StatusTyped DEF AppInv, ApprovedNow, App!Of
  <2>3. /\ new \in App!Qr /\ new.case = qr.case /\ new.program = qr.program /\ new.approved = approved
        /\ new.stage = IF approved = {} THEN "shown" ELSE "bookings"
    <3> HIDE DEF approved
    <3> QED BY <1>1, <2>2 DEF App!Qr
  <2>4. Tracks("qr") => qr.case = None
    BY <1>1, <2>1 DEF AppInv, QrOK
  <2>5. approved = {} => Ready(qr.program) = {}
    BY <2>2 DEF Ready, ApprovedNow, App!Of
  <2> HIDE DEF new, approved
  <2> QED BY <2>1, <2>2, <2>3, <2>4, <2>5, SetQrKeeps
<1>4. ASSUME App!LoadQrBookings PROVE AppInv'
  <2>1. qr.stage = "bookings"
    BY <1>4 DEF App!LoadQrBookings, App!QrIs
  <2>2. Tracks("qr") => qr.case = None /\ \A c \in App!Ids : App!Matches(c) <=> c \in Ready(qr.program)
    <3>1. Tracks("qr") => qr.case = None /\ qr.approved = App!Of(qr.program) \cap ApprovedNow
      BY <1>1, <2>1 DEF AppInv, QrOK
    <3>2. \A c : App!Is(c, {"approved"}) => ~App!Is(c, {"claimed"})
      BY DEF App!Is
    <3> QED BY <3>1, <3>2 DEF App!Matches, Ready, ApprovedNow, App!Of
  <2>3. Ready(qr.program) \subseteq App!Ids
    BY DEF Ready, App!Of
  <2>4. ASSUME NEW c \in App!Ids, App!Matches(c), App!SetQr([qr EXCEPT !.case = c, !.stage = "shown"])
        PROVE  AppInv'
    <3> DEFINE new == [qr EXCEPT !.case = c, !.stage = "shown"]
    <3>1. new \in App!Qr /\ new.case = c /\ new.program = qr.program /\ new.stage = "shown"
      BY <1>1 DEF App!Qr
    <3>2. App!SetQr(new)
      BY <2>4
    <3> HIDE DEF new
    <3> QED BY <2>2, <2>4, <3>1, <3>2, SetQrKeeps
  <2>5. ASSUME ~\E c \in App!Ids : App!Matches(c), App!SetQr([qr EXCEPT !.stage = "shown"])
        PROVE  AppInv'
    <3> DEFINE new == [qr EXCEPT !.stage = "shown"]
    <3>1. new \in App!Qr /\ new.case = qr.case /\ new.program = qr.program /\ new.stage = "shown"
      BY <1>1 DEF App!Qr
    <3>2. App!SetQr(new)
      BY <2>5
    <3>3. Tracks("qr") => Ready(qr.program) = {}
      BY <2>2, <2>3, <2>5
    <3> HIDE DEF new
    <3> QED BY <2>2, <3>1, <3>2, <3>3, SetQrKeeps
  <2> QED BY <1>4, <2>4, <2>5 DEF App!LoadQrBookings
<1>5. ASSUME App!LoseQr PROVE AppInv'
  <2> DEFINE new == [qr EXCEPT !.stage = "shown"]
  <2>1. new \in App!Qr /\ App!SetQr(new) /\ ~Tracks("qr")
    BY <1>1, <1>5 DEF App!Qr, App!LoseQr, App!Lossy, Tracks
  <2> HIDE DEF new
  <2> QED BY <2>1, SetQrKeeps
<1> QED BY <1>2, <1>3, <1>4, <1>5

----------------------------------------------------------------------------
(* The schedule *)

\* What the schedule is told of the server
SchedTold(new) ==
  /\ new.stage \in {"slots", "shown"} => new.mine = booked
  /\ new.stage = "shown" /\ new.chosen # None =>
       /\ new.chosen \in ApprovedNow
       /\ new.slots = {s \in AppSlots : seats[s] = "open"}

LEMMA SchedToldOK ==
  ASSUME App!Assumptions, NEW new \in App!Schedule, sched' = new,
         UNCHANGED <<booked, seats, cases>>, Tracks("schedule")' => SchedTold(new)
  PROVE  SchedOK'
<1>1. ApprovedNow' = ApprovedNow
  BY SameAnswers
<1> QED BY <1>1 DEF SchedOK, SchedTold

LEMMA SetSchedKeeps ==
  ASSUME App!Assumptions, AppInv, NEW new \in App!Schedule, App!SetSched(new),
         Tracks("schedule") => SchedTold(new)
  PROVE  AppInv'
<1>1. CasesOK' /\ SeatsOK' /\ TapsOK' /\ UNCHANGED <<cases, booked, seats, notes, appMode, at, below>>
      /\ (\A view : LeftAlone(view))
  BY StepSame DEF App!SetSched
<1>2. ProgOK' /\ QrOK' /\ HomeOK' /\ DetailOK' /\ InboxOK'
  BY <1>1, ProgKept, QrKept, HomeKept, DetailKept, InboxKept DEF AppInv, App!SetSched
<1>3. OnTop'
  BY <1>1, OnTopKept DEF AppInv, App!SetSched
<1>4. SchedOK'
  <2>1. Tracks("schedule")' <=> Tracks("schedule")
    BY <1>1 DEF App!SetSched, Tracks
  <2> QED BY <1>1, <2>1, SchedToldOK DEF App!SetSched
<1> QED BY <1>1, <1>2, <1>3, <1>4 DEF AppInv

LEMMA ChosenTyped ==
  ASSUME App!Assumptions, sched \in App!Schedule
  PROVE  App!Chosen \in App!Ids \cup {None}
<1>1. sched.approved \in SUBSET App!Ids /\ sched.chosen \in App!Ids \cup {None}
  BY DEF App!Schedule
<1>2. sched.approved # {} => App!First(sched.approved) \in App!Ids
  BY <1>1, FirstCase
<1> QED BY <1>1, <1>2 DEF App!Chosen

LEMMA LoadSchedKeeps ==
  ASSUME App!Assumptions, AppInv,
         App!LoadSchedApps \/ App!LoadSchedBookings \/ App!LoadSlots \/ App!LoseSched
  PROVE  AppInv'
<1>1. sched \in App!Schedule /\ sched # None
  BY DEF AppInv, SchedOK, App!LoadSchedApps, App!LoadSchedBookings, App!LoadSlots, App!LoseSched, App!SchedIs
<1>2. ASSUME App!LoadSchedApps PROVE AppInv'
  <2> DEFINE approved == {c \in App!Ids : App!ClientStatus(c) = "approved"}
             new == [sched EXCEPT !.stage = "bookings", !.approved = approved]
  <2>1. approved \in SUBSET App!Ids
    OBVIOUS
  <2>2. App!SetSched(new)
    BY <1>2 DEF App!LoadSchedApps
  <2>3. new \in App!Schedule /\ new.stage = "bookings"
    <3> HIDE DEF approved
    <3> QED BY <1>1, <2>1 DEF App!Schedule
  <2> HIDE DEF new
  <2> QED BY <2>2, <2>3, SetSchedKeeps DEF SchedTold
<1>3. ASSUME App!LoadSchedBookings PROVE AppInv'
  <2> DEFINE new == [sched EXCEPT !.stage = "slots", !.mine = booked, !.chosen = App!Chosen]
  <2>1. booked \in [App!Ids -> AppSlots \cup {None}]
    BY DEF AppInv, SeatsOK
  <2>2. App!SetSched(new)
    BY <1>3 DEF App!LoadSchedBookings
  <2>3. new \in App!Schedule /\ new.stage = "slots" /\ new.mine = booked
    BY <1>1, <2>1, ChosenTyped DEF App!Schedule
  <2> HIDE DEF new
  <2> QED BY <2>2, <2>3, SetSchedKeeps DEF SchedTold
<1>4. ASSUME App!LoadSlots PROVE AppInv'
  <2> DEFINE open == IF sched.chosen = None THEN {} ELSE {s \in AppSlots : seats[s] = "open"}
             error == [sched EXCEPT !.stage = "error"]
             new == [sched EXCEPT !.stage = "shown", !.slots = open]
  <2>1. sched.stage = "slots"
    BY <1>4 DEF App!LoadSlots, App!SchedIs
  <2>2. \/ App!SetSched(error)
        \/ (sched.chosen # None => App!Is(sched.chosen, {"approved"})) /\ App!SetSched(new)
    BY <1>4 DEF App!LoadSlots
  <2>3. open \in SUBSET AppSlots
    OBVIOUS
  <2>4. error \in App!Schedule /\ error.stage = "error"
    BY <1>1 DEF App!Schedule
  <2>5. /\ new \in App!Schedule /\ new.stage = "shown" /\ new.mine = sched.mine
        /\ new.chosen = sched.chosen /\ new.slots = open
    <3> HIDE DEF open
    <3> QED BY <1>1, <2>3 DEF App!Schedule
  <2>6. Tracks("schedule") => sched.mine = booked
    BY <1>1, <2>1 DEF AppInv, SchedOK
  <2>7. sched.chosen \in App!Ids \cup {None}
    BY <1>1 DEF App!Schedule
  <2>8. CASE App!SetSched(error)
    <3> HIDE DEF error
    <3> QED BY <2>4, <2>8, SetSchedKeeps DEF SchedTold
  <2>9. CASE (sched.chosen # None => App!Is(sched.chosen, {"approved"})) /\ App!SetSched(new)
    <3>1. Tracks("schedule") => SchedTold(new)
      <4> HIDE DEF new
      <4> QED BY <2>5, <2>6, <2>7, <2>9 DEF SchedTold, ApprovedNow
    <3> HIDE DEF new, open
    <3> QED BY <2>5, <2>9, <3>1, SetSchedKeeps
  <2> QED BY <2>2, <2>8, <2>9
<1>5. ASSUME App!LoseSched PROVE AppInv'
  <2> DEFINE new == [sched EXCEPT !.stage = "error"]
  <2>1. new \in App!Schedule /\ App!SetSched(new) /\ new.stage = "error"
    BY <1>1, <1>5 DEF App!Schedule, App!LoseSched
  <2> HIDE DEF new
  <2> QED BY <2>1, SetSchedKeeps DEF SchedTold
<1> QED BY <1>2, <1>3, <1>4, <1>5

LEMMA ChooseCaseKeeps ==
  ASSUME App!Assumptions, AppInv, App!ChooseCase
  PROVE  AppInv'
<1>1. PICK c \in sched.approved \ {sched.chosen} :
         /\ App!TapSched([sched EXCEPT !.chosen = c, !.stage = "apps"])
         /\ moved' = moved \ {"schedule"}
  BY DEF App!ChooseCase
<1>2. sched \in App!Schedule
  BY <1>1 DEF AppInv, SchedOK, App!TapSched, App!SchedIs
<1> DEFINE new == [sched EXCEPT !.chosen = c, !.stage = "apps"]
<1>3. new \in App!Schedule /\ new.stage = "apps"
  BY <1>1, <1>2 DEF App!Schedule
<1>4. App!TapSched(new)
  BY <1>1
<1> HIDE DEF new
<1>5. App!Taps /\ orphans' \subseteq AidPrograms
  BY <1>4 DEF AppInv, TapsOK, App!TapSched
<1>6. CasesOK' /\ SeatsOK' /\ TapsOK' /\ appMode' = appMode
      /\ (\A view : view \notin {"schedule"} => LeftAlone(view))
  BY <1>1, <1>5, TapsStill
<1>7. ProgOK' /\ QrOK' /\ HomeOK' /\ DetailOK' /\ InboxOK'
  BY <1>4, <1>6, ProgKept, QrKept, HomeKept, DetailKept, InboxKept DEF AppInv, App!TapSched
<1>8. OnTop'
  BY <1>4, OnTopKept DEF AppInv, App!TapSched
<1>9. SchedOK'
  BY <1>3, <1>4 DEF SchedOK, App!TapSched
<1> QED BY <1>6, <1>7, <1>8, <1>9 DEF AppInv

\* The schedule is as before but for a booking on its way.
LEMMA SameSchedOK ==
  ASSUME App!Assumptions, SchedOK, sched \in App!Schedule, NEW new \in App!Schedule, sched' = new,
         UNCHANGED appMode, new.stage = sched.stage, new.mine = sched.mine,
         new.chosen = sched.chosen, new.slots = sched.slots, LeftAlone("schedule")
  PROVE  SchedOK'
<1>1. sched # None
  BY DEF App!Assumptions
<1>2. Tracks("schedule")' => Tracks("schedule") /\ UNCHANGED <<booked, seats, cases>>
  BY DEF Tracks, LeftAlone
<1>3. Tracks("schedule")' => SchedTold(new)
  BY <1>1, <1>2 DEF SchedOK, SchedTold
<1>4. CASE Tracks("schedule")'
  BY <1>2, <1>3, <1>4, SchedToldOK
<1>5. CASE ~Tracks("schedule")'
  BY <1>5 DEF SchedOK
<1> QED BY <1>4, <1>5

LEMMA AsksSlotKeeps ==
  ASSUME App!Assumptions, AppInv, App!Book
  PROVE  AppInv'
<1>1. PICK s \in sched.slots : App!TapSched([sched EXCEPT !.wish = s, !.post = "sent"])
  BY DEF App!Book
<1>2. sched \in App!Schedule
  BY <1>1 DEF AppInv, SchedOK, App!TapSched, App!SchedIs
<1> DEFINE new == [sched EXCEPT !.wish = s, !.post = "sent"]
<1>3. /\ new \in App!Schedule /\ new.stage = sched.stage /\ new.mine = sched.mine
      /\ new.chosen = sched.chosen /\ new.slots = sched.slots
  <2>1. s \in AppSlots
    BY <1>1, <1>2 DEF App!Schedule
  <2> QED BY <1>2, <2>1 DEF App!Schedule, App!Answers
<1>4. App!TapSched(new)
  BY <1>1
<1> HIDE DEF new
<1>5. App!Taps /\ orphans' \subseteq AidPrograms /\ UNCHANGED moved
  BY <1>4 DEF AppInv, TapsOK, App!TapSched, App!Book
<1>6. CasesOK' /\ SeatsOK' /\ TapsOK' /\ appMode' = appMode /\ (\A view : LeftAlone(view))
  BY <1>5, TapsSame
<1>7. ProgOK' /\ QrOK' /\ HomeOK' /\ DetailOK' /\ InboxOK'
  BY <1>4, <1>6, ProgKept, QrKept, HomeKept, DetailKept, InboxKept DEF AppInv, App!TapSched
<1>8. OnTop'
  BY <1>4, OnTopKept DEF AppInv, App!TapSched
<1>9. SchedOK'
  <2>1. sched' = new
    BY <1>4 DEF App!TapSched
  <2> QED BY <1>2, <1>3, <1>6, <2>1, SameSchedOK DEF AppInv
<1> QED BY <1>6, <1>7, <1>8, <1>9 DEF AppInv

LEMMA ServeBookKeeps ==
  ASSUME App!Assumptions, AppInv, App!ServeBook
  PROVE  AppInv'
<1> DEFINE ok == App!Accepts(sched.chosen, sched.wish)
<1>1. sched \in App!Schedule
  BY DEF AppInv, SchedOK, App!ServeBook
<1>2. /\ booked' = [booked EXCEPT ![sched.chosen] = IF ok THEN sched.wish ELSE booked[sched.chosen]]
      /\ moved' = IF ok THEN App!Views ELSE moved
      /\ \E x \in {"done", "failed"} : sched' = [sched EXCEPT !.post = x]
      /\ UNCHANGED <<cases, seats, notes, at, below, home, prog, qr, msgs, detail,
                     orphans, appOps, journey, appMode>>
  BY DEF App!ServeBook, App!others
<1>3. \/ moved' = App!Views
      \/ UNCHANGED <<cases, booked, seats, notes, moved>>
  <2>1. booked = [c \in App!Ids |-> booked[c]]
    BY DEF AppInv, SeatsOK
  <2>2. [booked EXCEPT ![sched.chosen] = booked[sched.chosen]] = booked
    BY <2>1
  <2> HIDE DEF ok
  <2> QED BY <1>2, <2>2
<1>4. \A view \in App!Views : LeftAlone(view)
  BY <1>2, <1>3, ServerMoved, ServerStill
<1>5. {"program", "qr", "schedule", "programs", "apps", "detail"} \subseteq App!Views
  BY DEF App!Views, App!Screens
<1>6. ProgOK' /\ QrOK' /\ HomeOK' /\ DetailOK' /\ InboxOK' /\ CasesOK'
  BY <1>2, <1>4, <1>5, ProgKept, QrKept, HomeKept, DetailKept, InboxKept, CasesKept DEF AppInv
<1>7. SeatsOK'
  <2>1. sched.wish \in AppSlots \cup {None}
    BY <1>1 DEF App!Schedule
  <2>2. booked \in [App!Ids -> AppSlots \cup {None}] /\ UNCHANGED <<seats, notes>>
    BY <1>2 DEF AppInv, SeatsOK
  <2>3. CASE ok
    <3>1. booked' = [booked EXCEPT ![sched.chosen] = sched.wish]
      BY <1>2, <2>3
    <3> QED BY <2>1, <2>2, <3>1 DEF AppInv, SeatsOK
  <2>4. CASE ~ok
    <3>1. booked' = [booked EXCEPT ![sched.chosen] = booked[sched.chosen]]
      BY <1>2, <2>4
    <3> QED BY <2>2, <3>1 DEF AppInv, SeatsOK
  <2> QED BY <2>3, <2>4
<1>8. TapsOK'
  BY <1>2, <1>3, TapsKept DEF AppInv, TapsOK
<1>9. OnTop'
  BY <1>2, OnTopKept DEF AppInv
<1>10. SchedOK'
  <2>1. PICK x \in {"done", "failed"} : sched' = [sched EXCEPT !.post = x]
    BY <1>2
  <2> DEFINE new == [sched EXCEPT !.post = x]
  <2>2. /\ new \in App!Schedule /\ new.stage = sched.stage /\ new.mine = sched.mine
        /\ new.chosen = sched.chosen /\ new.slots = sched.slots
    BY <1>1 DEF App!Schedule, App!Answers
  <2>3. sched' = new
    BY <2>1
  <2> HIDE DEF new, ok
  <2> QED BY <1>1, <1>2, <1>4, <1>5, <2>2, <2>3, SameSchedOK DEF AppInv
<1> QED BY <1>6, <1>7, <1>8, <1>9, <1>10 DEF AppInv

LEMMA EndBookKeeps ==
  ASSUME App!Assumptions, AppInv, App!EndBook
  PROVE  AppInv'
<1>1. sched \in App!Schedule
  BY DEF AppInv, SchedOK, App!EndBook
<1>2. App!AppStep /\ UNCHANGED <<home, prog, qr, msgs, detail>>
  BY DEF App!EndBook
<1>3. CASE sched.post = "done"
  <2> DEFINE new == [sched EXCEPT !.post = "none", !.wish = None, !.stage = "apps"]
  <2>1. new \in App!Schedule /\ new.stage = "apps"
    BY <1>1 DEF App!Schedule, App!Answers
  <2>2. sched' = new /\ moved' = moved \ {"schedule"}
    BY <1>3 DEF App!EndBook
  <2> HIDE DEF new
  <2>3. CasesOK' /\ SeatsOK' /\ TapsOK' /\ UNCHANGED <<cases, booked, seats, notes, appMode, at, below>>
        /\ (\A view : view \notin {"schedule"} => LeftAlone(view))
    BY <1>2, <2>2, StepStill
  <2>4. ProgOK' /\ QrOK' /\ HomeOK' /\ DetailOK' /\ InboxOK' /\ OnTop'
    BY <1>2, <2>3, ProgKept, QrKept, HomeKept, DetailKept, InboxKept, OnTopKept DEF AppInv
  <2>5. SchedOK'
    BY <2>1, <2>2 DEF SchedOK
  <2> QED BY <2>3, <2>4, <2>5 DEF AppInv
<1>4. CASE sched.post # "done"
  <2> DEFINE new == [sched EXCEPT !.post = "none", !.wish = None, !.stage = sched.stage]
  <2>1. /\ new \in App!Schedule /\ new.stage = sched.stage /\ new.mine = sched.mine
        /\ new.chosen = sched.chosen /\ new.slots = sched.slots
    BY <1>1 DEF App!Schedule, App!Answers
  <2>2. sched' = new /\ UNCHANGED moved
    BY <1>4 DEF App!EndBook
  <2> HIDE DEF new
  <2>3. CasesOK' /\ SeatsOK' /\ TapsOK' /\ UNCHANGED <<cases, booked, seats, notes, appMode, at, below>>
        /\ (\A view : LeftAlone(view))
    BY <1>2, <2>2, StepSame
  <2>4. ProgOK' /\ QrOK' /\ HomeOK' /\ DetailOK' /\ InboxOK' /\ OnTop'
    BY <1>2, <2>3, ProgKept, QrKept, HomeKept, DetailKept, InboxKept, OnTopKept DEF AppInv
  <2>5. SchedOK'
    BY <1>1, <2>1, <2>2, <2>3, SameSchedOK DEF AppInv
  <2> QED BY <2>3, <2>4, <2>5 DEF AppInv
<1> QED BY <1>3, <1>4

----------------------------------------------------------------------------
(* Messages, and the details of an application *)

LEMMA LoadMessagesKeeps ==
  ASSUME App!Assumptions, AppInv, App!LoadMessages
  PROVE  AppInv'
<1>1. msgs \in App!Inbox /\ home \in App!Home /\ notes \in [App!Ids -> {"none", "unread", "read"}]
  BY DEF AppInv, InboxOK, HomeOK, SeatsOK, App!LoadMessages
<1>2. App!AppStep /\ UNCHANGED <<prog, qr, sched, detail>>
  BY DEF App!LoadMessages
<1>3. msgs' \in App!Inbox
  BY <1>1 DEF App!LoadMessages, App!Inbox
<1>4. CASE home' = [home EXCEPT !.asked = home.asked \cup {"badge"}] /\ moved' = moved \ {"badge"}
  <2>1. CasesOK' /\ SeatsOK' /\ TapsOK' /\ UNCHANGED <<cases, booked, seats, notes, appMode, at, below>>
        /\ (\A view : view \notin {"badge"} => LeftAlone(view))
    BY <1>2, <1>4, StepStill
  <2>2. ProgOK' /\ QrOK' /\ SchedOK' /\ DetailOK'
    BY <1>2, <2>1, ProgKept, QrKept, SchedKept, DetailKept DEF AppInv
  <2>3. InboxOK' /\ OnTop'
    BY <1>2, <1>3, <2>1, OnTopKept DEF AppInv, InboxOK, App!Assumptions
  <2>4. home' \in App!Home /\ home'.gates = home.gates /\ home'.apps = home.apps
        /\ home'.asked = home.asked \cup {"badge"}
    BY <1>1, <1>4 DEF App!Home
  <2>5. HomeOK'
    <3>1. /\ Tracks("programs")' => Tracks("programs")
          /\ Tracks("apps")' => Tracks("apps")
      BY <1>4, <2>1 DEF Tracks
    <3>2. (\A p : App!Gate(p)' = App!Gate(p)) /\ (\A c : App!ClientStatus(c)' = App!ClientStatus(c))
      BY <2>1, SameAnswers
    <3>3. /\ "programs" \notin home'.asked => "programs" \notin home.asked
          /\ "apps" \notin home'.asked => "apps" \notin home.asked
      BY <2>4
    <3> QED BY <2>4, <3>1, <3>2, <3>3 DEF AppInv, HomeOK
  <2> QED BY <2>1, <2>2, <2>3, <2>5 DEF AppInv
<1>5. CASE UNCHANGED <<home, moved>>
  <2>1. CasesOK' /\ SeatsOK' /\ TapsOK' /\ UNCHANGED <<cases, booked, seats, notes, appMode, at, below>>
        /\ (\A view : LeftAlone(view))
    BY <1>2, <1>5, StepSame
  <2>2. ProgOK' /\ QrOK' /\ SchedOK' /\ DetailOK' /\ HomeOK'
    BY <1>2, <1>5, <2>1, ProgKept, QrKept, SchedKept, DetailKept, HomeKept DEF AppInv
  <2>3. InboxOK' /\ OnTop'
    BY <1>2, <1>3, <2>1, OnTopKept DEF AppInv, InboxOK, App!Assumptions
  <2> QED BY <2>1, <2>2, <2>3 DEF AppInv
<1> QED BY <1>4, <1>5 DEF App!LoadMessages

\* What a tap on a message may do: at most the message is read, and the rest of
\* the server stands still.
LEMMA TapMessagesKeeps ==
  ASSUME App!Assumptions, AppInv, NEW c \in App!Ids, App!TapMessages, msgs' \in App!Inbox,
         \/ /\ UNCHANGED <<at, below, sched>>
            /\ \/ UNCHANGED <<notes, moved>>
               \/ notes' = [notes EXCEPT ![c] = "read"] /\ moved' = App!Views
         \/ /\ at' = "schedule" /\ below' = "messages" /\ sched' = App!NewSchedule
            /\ \/ notes' = [notes EXCEPT ![c] = "read"] /\ moved' = App!Views \ {"schedule"}
               \/ notes' = notes /\ moved' = moved \ {"schedule"}
  PROVE  AppInv'
<1>1. UNCHANGED <<cases, booked, seats, home, prog, qr, detail, orphans, journey, appMode>>
  BY DEF App!TapMessages, App!others
<1>2. CasesOK' /\ SeatsOK'
  BY <1>1, CasesKept DEF AppInv, SeatsOK
<1>3. TapsOK'
  <2>1. AppMaxOps[journey] \in Nat /\ appOps \in 0..AppMaxOps[journey]
    BY DEF AppInv, TapsOK, App!Assumptions
  <2>2. appOps' \in 0..AppMaxOps[journey]
    BY <2>1 DEF App!TapMessages
  <2>3. moved' \subseteq App!Views
    BY DEF AppInv, TapsOK
  <2> QED BY <1>1, <2>2, <2>3 DEF AppInv, TapsOK
<1>4. {"program", "qr", "schedule", "programs", "apps", "detail"} \subseteq App!Views
  BY DEF App!Views, App!Screens
<1>5. \A view \in {"program", "qr", "programs", "apps", "detail"} : LeftAlone(view)
  BY <1>1, <1>4 DEF LeftAlone
<1>6. ProgOK' /\ QrOK' /\ HomeOK' /\ DetailOK' /\ InboxOK'
  BY <1>1, <1>5, ProgKept, QrKept, HomeKept, DetailKept DEF AppInv, InboxOK
<1>7. msgs' # None /\ at = "messages"
  BY DEF App!TapMessages, App!Assumptions
<1>8. OnTop'
  BY <1>1, <1>7 DEF AppInv, OnTop, App!Screens
<1>9. SchedOK'
  <2>1. CASE sched' = App!NewSchedule
    BY <2>1, ScheduleIsNew DEF SchedOK
  <2>2. CASE UNCHANGED sched /\ (UNCHANGED <<notes, moved>> \/ moved' = App!Views)
    <3>1. LeftAlone("schedule")
      BY <1>1, <1>4, <2>2 DEF LeftAlone
    <3> QED BY <1>1, <2>2, <3>1, SchedKept DEF AppInv
  <2> QED BY <2>1, <2>2
<1> QED BY <1>2, <1>3, <1>6, <1>8, <1>9 DEF AppInv

LEMMA MessagesKeep ==
  ASSUME App!Assumptions, AppInv, NEW c \in App!Ids,
         App!Expand(c) \/ App!Collapse(c) \/ App!ScheduleFrom(c) \/ App!ScheduleFails(c)
  PROVE  AppInv'
<1>1. App!TapMessages
  BY DEF App!Expand, App!Collapse, App!ScheduleFrom, App!ScheduleFails
<1>2. msgs \in App!Inbox
  BY <1>1 DEF AppInv, OnTop, InboxOK, App!TapMessages
<1>3. ASSUME App!Expand(c) PROVE AppInv'
  <2>1. msgs' \in App!Inbox
    BY <1>2, <1>3 DEF App!Expand, App!Inbox
  <2> QED BY <1>1, <1>3, <2>1, TapMessagesKeeps DEF App!Expand
<1>4. ASSUME App!Collapse(c) PROVE AppInv'
  <2>1. msgs' \in App!Inbox
    BY <1>2, <1>4 DEF App!Collapse, App!Inbox
  <2>2. \/ UNCHANGED <<notes, moved>>
        \/ notes' = [notes EXCEPT ![c] = "read"] /\ moved' = App!Views
    BY <1>4 DEF App!Collapse, App!MarkRead
  <2>3. UNCHANGED <<at, below, sched>>
    BY <1>4 DEF App!Collapse
  <2> QED BY <1>1, <2>1, <2>2, <2>3, TapMessagesKeeps
<1>5. ASSUME App!ScheduleFrom(c) PROVE AppInv'
  <2>1. at' = "schedule" /\ below' = "messages" /\ sched' = App!NewSchedule /\ msgs' \in App!Inbox
    BY <1>2, <1>5 DEF App!ScheduleFrom
  <2>2. \/ notes' = [notes EXCEPT ![c] = "read"] /\ moved' = App!Views \ {"schedule"}
        \/ notes' = notes /\ moved' = moved \ {"schedule"}
    BY <1>5 DEF App!ScheduleFrom
  <2> QED BY <1>1, <2>1, <2>2, TapMessagesKeeps
<1>6. ASSUME App!ScheduleFails(c) PROVE AppInv'
  <2>1. UNCHANGED <<at, below, sched>> /\ msgs' \in App!Inbox
    BY <1>2, <1>6 DEF App!ScheduleFails
  <2>2. \/ UNCHANGED <<notes, moved>>
        \/ notes' = [notes EXCEPT ![c] = "read"] /\ moved' = App!Views
    BY <1>6 DEF App!ScheduleFails, App!MarkRead
  <2> QED BY <1>1, <2>1, <2>2, TapMessagesKeeps
<1> QED BY <1>3, <1>4, <1>5, <1>6

LEMMA FewPolls ==
  ASSUME NEW S \in SUBSET App!Shown, App!Cardinality(S) < 1
  PROVE  S = {}
<1>1. IsFiniteSet(App!Shown)
  <2>1. /\ IsFiniteSet({"none"}) /\ IsFiniteSet({"under_review"}) /\ IsFiniteSet({"recommended"})
        /\ IsFiniteSet({"approved"}) /\ IsFiniteSet({"declined"}) /\ IsFiniteSet({"claimed"})
    BY FS_Singleton
  <2>2. IsFiniteSet(({"none"} \cup {"under_review"}) \cup {"recommended"})
    BY <2>1, FS_Union
  <2>3. IsFiniteSet(({"approved"} \cup {"declined"}) \cup {"claimed"})
    BY <2>1, FS_Union
  <2>4. IsFiniteSet((({"none"} \cup {"under_review"}) \cup {"recommended"})
                    \cup (({"approved"} \cup {"declined"}) \cup {"claimed"}))
    BY <2>2, <2>3, FS_Union
  <2>5. App!Shown = (({"none"} \cup {"under_review"}) \cup {"recommended"})
                    \cup (({"approved"} \cup {"declined"}) \cup {"claimed"})
    BY DEF App!Shown
  <2> QED BY <2>4, <2>5
<1>2. IsFiniteSet(S) /\ Cardinality(S) \in Nat /\ Cardinality(S) < 1
  BY <1>1, FS_Subset, FS_CardinalityType, SameCountApp
<1>3. Cardinality(S) = 0
  BY <1>2
<1> QED BY <1>2, <1>3, FS_EmptySet

\* What is polled is the case's status.
DetailTold(new) ==
  /\ new.polls \subseteq {App!ClientStatus(new.case)}
  /\ new.polls = {} => new.shown = App!ClientStatus(new.case)

LEMMA DetailToldOK ==
  ASSUME NEW new \in App!Detail, detail' = new, UNCHANGED cases, Tracks("detail")' => DetailTold(new)
  PROVE  DetailOK'
<1>1. \A c : App!ClientStatus(c)' = App!ClientStatus(c)
  BY SameAnswers
<1> QED BY <1>1 DEF DetailOK, DetailTold

LEMMA PollKeeps ==
  ASSUME App!Assumptions, AppInv, App!Poll
  PROVE  AppInv'
<1> DEFINE s == App!ClientStatus(detail.case)
           new == [detail EXCEPT !.polls = detail.polls \cup {s}]
<1>1. detail \in App!Detail
  BY DEF AppInv, DetailOK, App!Poll
<1>2. App!AppStep /\ UNCHANGED <<home, prog, qr, sched, msgs>> /\ moved' = moved \ {"detail"} /\ detail' = new
  BY DEF App!Poll
<1>3. CasesOK' /\ SeatsOK' /\ TapsOK' /\ UNCHANGED <<cases, booked, seats, notes, appMode, at, below>>
      /\ (\A view : view \notin {"detail"} => LeftAlone(view))
  BY <1>2, StepStill
<1>4. ProgOK' /\ QrOK' /\ HomeOK' /\ SchedOK' /\ InboxOK'
  BY <1>2, <1>3, ProgKept, QrKept, HomeKept, SchedKept, InboxKept DEF AppInv
<1>5. s \in App!Shown
  <2>1. detail.case \in App!Ids
    BY <1>1 DEF App!Detail
  <2> QED BY <2>1, StatusTyped DEF AppInv
<1>6. new \in App!Detail /\ new.polls = detail.polls \cup {s} /\ new.case = detail.case
  <2> HIDE DEF s
  <2> QED BY <1>1, <1>5 DEF App!Detail
<1>7. OnTop'
  <2> HIDE DEF new
  <2> QED BY <1>2, <1>3, <1>6, OnTopKept DEF AppInv, App!Assumptions
<1>8. appMode = "reliable" => detail.polls = {}
  <2>1. detail.polls \in SUBSET App!Shown
    BY <1>1 DEF App!Detail
  <2>2. appMode = "reliable" => App!Cardinality(detail.polls) < 1
    BY DEF App!Poll, App!Lossy
  <2> QED BY <2>1, <2>2, FewPolls
<1>9. Tracks("detail")' => DetailTold(new)
  <2>1. Tracks("detail")' => new.polls = {s}
    BY <1>3, <1>6, <1>8 DEF Tracks
  <2> HIDE DEF new
  <2> QED BY <1>6, <2>1 DEF DetailTold
<1>10. DetailOK'
  <2> HIDE DEF new
  <2> QED BY <1>2, <1>3, <1>6, <1>9, DetailToldOK
<1> QED BY <1>3, <1>4, <1>7, <1>10 DEF AppInv

LEMMA EndPollKeeps ==
  ASSUME App!Assumptions, AppInv, App!EndPoll
  PROVE  AppInv'
<1>1. detail \in App!Detail /\ detail # None
  BY DEF AppInv, DetailOK, App!EndPoll
<1>2. App!AppStep /\ UNCHANGED <<home, prog, qr, sched, msgs>> /\ UNCHANGED moved
  BY DEF App!EndPoll
<1>3. CasesOK' /\ SeatsOK' /\ TapsOK' /\ UNCHANGED <<cases, booked, seats, notes, appMode, at, below>>
      /\ (\A view : LeftAlone(view))
  BY <1>2, StepSame
<1>4. ProgOK' /\ QrOK' /\ HomeOK' /\ SchedOK' /\ InboxOK'
  BY <1>2, <1>3, ProgKept, QrKept, HomeKept, SchedKept, InboxKept DEF AppInv
<1>5. PICK s \in detail.polls :
        \/ detail' = [detail EXCEPT !.shown = s, !.polls = detail.polls \ {s}]
        \/ App!Lossy /\ detail' = [detail EXCEPT !.polls = detail.polls \ {s}]
  BY DEF App!EndPoll
<1>6. detail' \in App!Detail
  BY <1>1, <1>5 DEF App!Detail
<1>7. OnTop'
  BY <1>2, <1>3, <1>6, OnTopKept DEF AppInv, App!Assumptions
<1>8. Tracks("detail")' => Tracks("detail") /\ ~App!Lossy
  BY <1>2, <1>3 DEF Tracks, App!Lossy
<1>9. ASSUME Tracks("detail")' PROVE DetailTold(detail')
  <2>1. detail.polls \subseteq {App!ClientStatus(detail.case)}
    BY <1>1, <1>8, <1>9 DEF AppInv, DetailOK
  <2>2. detail'.polls \subseteq {} /\ detail'.shown = s /\ detail'.case = detail.case
        /\ s = App!ClientStatus(detail.case)
    BY <1>1, <1>5, <1>8, <1>9, <2>1 DEF App!Detail
  <2>3. App!ClientStatus(detail'.case) = App!ClientStatus(detail.case)
    BY <2>2
  <2> QED BY <2>2, <2>3 DEF DetailTold
<1>10. DetailOK'
  BY <1>3, <1>6, <1>9, DetailToldOK
<1> QED BY <1>3, <1>4, <1>7, <1>10 DEF AppInv

----------------------------------------------------------------------------
(* The application as a whole *)

LEMMA AppStep ==
  ASSUME App!Assumptions, AppInv, [App!Next]_(App!vars)
  PROVE  AppInv'
<1>1. ASSUME NEW c \in App!Ids,
             \/ App!Endorse(c) \/ App!Decide(c) \/ App!Claim(c) \/ App!Cool(c)
             \/ App!OpenDetail(c) \/ App!Expand(c) \/ App!Collapse(c)
             \/ App!ScheduleFrom(c) \/ App!ScheduleFails(c)
      PROVE  AppInv'
  BY <1>1, StaffSteps, OpenDetailKeeps, MessagesKeep
<1>2. ASSUME NEW s \in AppSlots, App!TurnSlot(s) PROVE AppInv'
  BY <1>2, TurnSlotKeeps
<1>3. ASSUME NEW p \in AidPrograms, App!OpenProgram(p) \/ App!OpenQr(p) \/ App!ServeSubmit(p) PROVE AppInv'
  BY <1>3, OpenProgramKeeps, OpenQrKeeps, ServeSubmitKeeps
<1>4. ASSUME NEW what \in home.asked, App!LoadHome(what) PROVE AppInv'
  BY <1>4, LoadHomeKeeps
<1>5. CASE App!OpenMessages \/ App!OpenSchedule \/ App!Back \/ App!PullToRefresh
  BY <1>5, OpenMessagesKeeps, OpenScheduleKeeps, BackKeeps, PullToRefreshKeeps
<1>6. CASE App!LoadProgram \/ App!LoadFromList \/ App!LoadExisting \/ App!Submit \/ App!EndSubmit
  BY <1>6, LoadProgramKeeps, LoadExistingKeeps, SubmitsKeeps, EndSubmitKeeps
<1>7. CASE App!LoadQrProgram \/ App!LoadQrApps \/ App!LoadQrBookings \/ App!LoseQr
  BY <1>7, LoadQrKeeps
<1>8. CASE App!LoadSchedApps \/ App!LoadSchedBookings \/ App!LoadSlots \/ App!LoseSched
  BY <1>8, LoadSchedKeeps
<1>9. CASE App!ChooseCase \/ App!Book \/ App!ServeBook \/ App!EndBook
  BY <1>9, ChooseCaseKeeps, AsksSlotKeeps, ServeBookKeeps, EndBookKeeps
<1>10. CASE App!LoadMessages \/ App!Poll \/ App!EndPoll
  BY <1>10, LoadMessagesKeeps, PollKeeps, EndPollKeeps
<1>11. CASE UNCHANGED App!vars \/ \E p \in AidPrograms : App!TurnPeriod(p)
  <2>1. UNCHANGED <<cases, booked, seats, notes, at, below, home, prog, qr, sched, msgs, detail,
                    orphans, moved, appOps, journey, appMode>>
    BY <1>11 DEF App!vars, App!server, App!screens, App!others, App!TurnPeriod
  <2>2. \A view : LeftAlone(view)
    BY <2>1, ServerStill
  <2>3. ProgOK' /\ QrOK' /\ SchedOK' /\ HomeOK' /\ DetailOK' /\ InboxOK'
    BY <2>1, <2>2, ProgKept, QrKept, SchedKept, HomeKept, DetailKept, InboxKept DEF AppInv
  <2>4. CasesOK' /\ SeatsOK' /\ OnTop'
    BY <2>1, CasesKept, SeatsKept, OnTopKept DEF AppInv
  <2>5. TapsOK'
    BY <2>1 DEF AppInv, TapsOK
  <2> QED BY <2>3, <2>4, <2>5 DEF AppInv
<1> QED BY <1>1, <1>2, <1>3, <1>4, <1>5, <1>6, <1>7, <1>8, <1>9, <1>10, <1>11 DEF App!Next

LEMMA ScreensAreTrue ==
  ASSUME App!Assumptions, AppInv
  PROVE  App!ScreensTrue
<1>1. ASSUME NEW screen, App!Current(screen) PROVE Tracks(screen) /\ at = screen
  BY <1>1 DEF App!Current, Tracks
<1>2. App!ProgramTrue
  <2> SUFFICES ASSUME App!Current("program")
               PROVE  /\ prog.stage = "shown" => App!ProgView = App!TrueView(prog.program)
                      /\ prog.post # "failed"
    BY DEF App!ProgramTrue
  <2>1. prog \in App!Prog /\ prog # None /\ Tracks("program")
    BY <1>1 DEF AppInv, OnTop, ProgOK
  <2>2. prog.stage = "shown" =>
          prog.gate = App!Gate(prog.program) /\ prog.existing = App!Existing(prog.program)
    BY <2>1 DEF AppInv, ProgOK
  <2>3. prog.post # "failed"
    BY <2>1 DEF AppInv, ProgOK, PostOK
  <2> QED BY <2>1, <2>2, <2>3, ViewTrue DEF AppInv
<1>3. App!QrTrue
  BY <1>1 DEF App!QrTrue, AppInv, OnTop, QrOK, Ready
<1>4. App!ScheduleTrue
  <2> SUFFICES ASSUME App!Current("schedule"), App!SchedIs("shown"), sched.chosen # None, NEW s \in AppSlots
               PROVE  App!Accepts(sched.chosen, s) <=>
                        /\ s \in sched.slots \ {sched.mine[sched.chosen]}
                        /\ sched.mine[sched.chosen] # None => seats[sched.mine[sched.chosen]] # "near"
    BY DEF App!ScheduleTrue
  <2>1. /\ sched.mine = booked /\ sched.chosen \in ApprovedNow
        /\ sched.slots = {x \in AppSlots : seats[x] = "open"}
    BY <1>1 DEF AppInv, SchedOK, App!SchedIs
  <2> QED BY <2>1 DEF App!Accepts, ApprovedNow
<1>5. App!HomeTrue
  <2> SUFFICES ASSUME App!Current("home"), home.asked = {}, {"programs", "apps"} \cap moved = {},
                      NEW p \in AidPrograms
               PROVE  (home.gates[p] = "in_progress") <=>
                        \E c \in App!Of(p) : home.apps[c] \in App!Reviewed \cup {"approved"}
    BY DEF App!HomeTrue
  <2>1. Tracks("programs") /\ Tracks("apps")
    BY <1>1 DEF Tracks
  <2>2. home.gates[p] = App!Gate(p) /\ \A c \in App!Ids : home.apps[c] = App!ClientStatus(c)
    BY <2>1 DEF AppInv, HomeOK
  <2>3. \A c \in App!Of(p) : c \in App!Ids
    BY DEF App!Of
  <2>4. \A c \in App!Ids : App!ClientStatus(c) \in App!Reviewed \cup {"approved"}
                           <=> App!Is(c, App!Pending \cup {"approved"})
    BY StatusTyped DEF AppInv, App!Is
  <2> QED BY <2>2, <2>3, <2>4, GateTyped
<1>6. App!DetailTrue
  BY <1>1 DEF App!DetailTrue, AppInv, OnTop, DetailOK
<1>7. App!AssistantTrue
  BY AssistantTold DEF AppInv
<1> QED BY <1>2, <1>3, <1>4, <1>5, <1>6, <1>7 DEF App!ScreensTrue

\* Whatever the staff do between two requests of a screen, a screen that nothing
\* on the server has moved under shows what the server would decide: the form of a
\* program is there exactly when no case and no cooldown stands against an
\* application, and what is sent from it is refused only when the program takes
\* none at the time; a QR is that of a case that can be claimed, a slot is offered
\* exactly when it can be booked, and the cards of home agree with each other
\* (mobile/lib).
THEOREM ScreensTrueHolds ==
  ASSUME App!Assumptions
  PROVE  App!Spec => []App!ScreensTrue
<1> QED BY AppInit, AppStep, ScreensAreTrue, PTL DEF App!Spec

\* The programs that take no application are programs: one step turns one of them,
\* and every other leaves them alone.
LEMMA ShutKept ==
  ASSUME [App!Next]_(App!vars), ShutOK
  PROVE  ShutOK'
<1>1. ASSUME NEW p \in AidPrograms, App!TurnPeriod(p) PROVE ShutOK'
  BY <1>1 DEF ShutOK, App!TurnPeriod
<1>2. App!Taps \/ App!AppStep \/ App!TapMessages => UNCHANGED shut
  BY DEF App!Taps, App!AppStep, App!TapMessages, App!server
<1>3. ASSUME NEW c \in App!Ids,
             \/ App!Endorse(c) \/ App!Decide(c) \/ App!Claim(c) \/ App!Cool(c)
             \/ App!OpenDetail(c) \/ App!Expand(c) \/ App!Collapse(c)
             \/ App!ScheduleFrom(c) \/ App!ScheduleFails(c)
      PROVE  UNCHANGED shut
  BY <1>2, <1>3 DEF App!Endorse, App!Decide, App!Claim, App!Cool, App!StaffStep, App!OpenDetail,
     App!Expand, App!Collapse, App!ScheduleFrom, App!ScheduleFails
<1>4. ASSUME NEW s \in AppSlots, App!TurnSlot(s) PROVE UNCHANGED shut
  BY <1>4 DEF App!TurnSlot
<1>5. ASSUME NEW p \in AidPrograms, App!OpenProgram(p) \/ App!OpenQr(p) \/ App!ServeSubmit(p)
      PROVE  UNCHANGED shut
  BY <1>2, <1>5 DEF App!OpenProgram, App!OpenQr, App!ServeSubmit
<1>6. ASSUME NEW what \in home.asked, App!LoadHome(what) PROVE UNCHANGED shut
  BY <1>2, <1>6 DEF App!LoadHome
<1>7. CASE App!OpenMessages \/ App!OpenSchedule \/ App!Back \/ App!PullToRefresh
  BY <1>2, <1>7 DEF ShutOK, App!OpenMessages, App!OpenSchedule, App!Back, App!PullToRefresh
<1>8. CASE App!LoadProgram \/ App!LoadFromList \/ App!LoadExisting \/ App!Submit \/ App!EndSubmit
  BY <1>2, <1>8 DEF ShutOK, App!LoadProgram, App!LoadFromList, App!LoadExisting, App!SetProg, App!Submit,
     App!EndSubmit, App!server
<1>9. CASE App!LoadQrProgram \/ App!LoadQrApps \/ App!LoadQrBookings \/ App!LoseQr
  BY <1>2, <1>9 DEF ShutOK, App!LoadQrProgram, App!LoadQrApps, App!LoadQrBookings, App!LoseQr, App!SetQr
<1>10. CASE App!LoadSchedApps \/ App!LoadSchedBookings \/ App!LoadSlots \/ App!LoseSched
  BY <1>2, <1>10 DEF ShutOK, App!LoadSchedApps, App!LoadSchedBookings, App!LoadSlots, App!LoseSched, App!SetSched
<1>11. CASE App!ChooseCase \/ App!Book \/ App!ServeBook \/ App!EndBook
  BY <1>2, <1>11 DEF ShutOK, App!ChooseCase, App!Book, App!TapSched, App!ServeBook, App!EndBook
<1>12. CASE App!LoadMessages \/ App!Poll \/ App!EndPoll
  BY <1>2, <1>12 DEF ShutOK, App!LoadMessages, App!Poll, App!EndPoll
<1>13. CASE UNCHANGED App!vars
  BY <1>13 DEF ShutOK, App!vars, App!server
<1> QED BY <1>1, <1>3, <1>4, <1>5, <1>6, <1>7, <1>8, <1>9, <1>10, <1>11, <1>12, <1>13 DEF ShutOK, App!Next

\* The variables of the application keep their types.
THEOREM AppTypeCorrect ==
  ASSUME App!Assumptions
  PROVE  App!Spec => []App!TypeOK
<1>1. App!Init => ShutOK
  BY DEF ShutOK, App!Init
<1> QED BY <1>1, AppInit, AppStep, ShutKept, AppTyped, PTL DEF App!Spec

----------------------------------------------------------------------------
(* The parts side by side *)

\* A part that stands still is one that stutters.
LEMMA ClientsStart ==
  ClientsInit => part \in Parts /\ Init /\ App!Init /\ Plan!Init
BY DEF ClientsInit

LEMMA ClientsStep ==
  [ClientsNext]_clientsVars =>
    part' = part /\ [Next]_vars /\ [App!Next]_(App!vars) /\ [Plan!Next]_(Plan!vars)
<1> SUFFICES ASSUME [ClientsNext]_clientsVars
             PROVE  part' = part /\ [Next]_vars /\ [App!Next]_(App!vars) /\ [Plan!Next]_(Plan!vars)
  OBVIOUS
<1>1. /\ UNCHANGED app => UNCHANGED App!vars
      /\ UNCHANGED plan => UNCHANGED Plan!vars
  BY DEF app, plan, App!vars, App!server, App!screens, App!others, Plan!vars
<1> QED BY <1>1 DEF ClientsNext, clientsVars

LEMMA ClientsBehave ==
  ClientsSpec => [](part \in Parts) /\ Spec /\ App!Spec /\ Plan!Spec
<1>1. part \in Parts /\ [ClientsNext]_clientsVars => (part \in Parts)'
  BY ClientsStep
<1> QED BY <1>1, ClientsStart, ClientsStep, PTL DEF ClientsSpec, Spec, App!Spec, Plan!Spec

\* The rows of the server, the screens and the pages are well formed in every
\* behaviour.
THEOREM ClientsTyped ==
  ASSUME ClientsAssumptions
  PROVE  ClientsSpec => []AllTypesOK
<1>1. Assumptions /\ App!Assumptions /\ Plan!Assumptions
  BY DEF ClientsAssumptions
<1>2. (Spec => []TypeOK) /\ (App!Spec => []App!TypeOK)
  BY <1>1, ProfilesTyped, AppTypeCorrect
<1>3. Plan!Spec => []Plan!TypeOK
  BY <1>1, PlanInit, PlanStep, PlanTyped, PTL DEF Plan!Spec
<1>4. part \in Parts /\ TypeOK /\ App!TypeOK /\ Plan!TypeOK => AllTypesOK
  BY DEF Parts, AllTypesOK
<1> QED BY <1>2, <1>3, <1>4, ClientsBehave, PTL

\* Whatever happens on the server between the requests of a screen, what it shows
\* is what the server would decide of the cases and slots; and whatever two pages of the console save over
\* each other, the gates, what is listed and what the assistant tells agree
\* (mobile/lib; period-windows.ts, office-ops.service.ts).
THEOREM ShownIsTrueHolds ==
  ASSUME ClientsAssumptions
  PROVE  ClientsSpec => []ShownIsTrue
<1>1. App!Assumptions /\ Plan!Assumptions
  BY DEF ClientsAssumptions
<1>2. (App!Spec => []App!ScreensTrue) /\ (Plan!Spec => []Plan!GatesAgree)
  BY <1>1, ScreensTrueHolds, GatesAgreeHolds
<1>3. part \in Parts /\ App!ScreensTrue /\ Plan!GatesAgree => ShownIsTrue
  BY DEF Parts, ShownIsTrue
<1> QED BY <1>2, <1>3, ClientsBehave, PTL

=============================================================================
