-------------------------- MODULE OfficeHierarchy --------------------------
(***************************************************************************)
(* The offices of one organization as a forest: create, move, archive and  *)
(* reactivate (office.service.ts), each a transaction, with the trigger    *)
(* enforce_office_hierarchy (011_organization_admin_office_management.sql)  *)
(* and the row locks PostgreSQL takes at READ COMMITTED:                   *)
(*   - lockOffice takes FOR UPDATE on the office itself;                   *)
(*   - writing parent_office_id takes FOR KEY SHARE on the new parent, for *)
(*     the foreign key; the two conflict, the second taker waits, and a    *)
(*     cycle of waits is broken by refusing one of the transactions;       *)
(*   - validateParent and the trigger read what is committed, unlocked.    *)
(* Names and codes have unique indexes; a refusal for them is `Refuse'.    *)
(***************************************************************************)
EXTENDS Naturals, FiniteSets

CONSTANTS
    Offices,    \* ids for rows of `offices'
    Admins,     \* organization administrators, each with one request at most
    MaxChanges, \* bound: how many requests are made in all
    OfficeModes,    \* "alone" and "overlap", see BeginChange
    NoOffice

ASSUME NoneIsNoOffice == NoOffice \notin Offices \cup Admins
ASSUME MaxChangesAssumption == MaxChanges \in Nat
ASSUME OfficeModesAssumption == OfficeModes \subseteq {"alone", "overlap"}

VARIABLES
    parent,     \* parent_office_id as committed, NoOffice for a root
    status,     \* offices.status as committed, "absent" if there is no row
    lock,       \* who holds FOR UPDATE on an office
    share,      \* who holds FOR KEY SHARE on an office
    at,         \* the next statement of a request
    change,     \* its operation, its office and the parent asked for, or NoOffice
    made,
    officeMode

officeVars == <<parent, status, lock, share, at, change, made, officeMode>>

Operations == {"create", "move", "archive", "reactivate"}

Change == [op : Operations, office : Offices, parent : Offices \cup {NoOffice}]

BusyAdmins == {a \in Admins : at[a] # "idle"}

----------------------------------------------------------------------------
(* The forest *)

Children(o) == {x \in Offices : parent[x] = o}

\* `WITH RECURSIVE descendants': the least set with the children of o that
\* has the children of its members.
Descendants(o) ==
    {x \in Offices :
        \A D \in SUBSET Offices :
            /\ Children(o) \subseteq D
            /\ \A y \in D : Children(y) \subseteq D
            => x \in D}

\* what enforce_office_hierarchy raises its exception for
ClosesCycle(o, p) == p = o \/ p \in Descendants(o)

\* validateParent
ParentAllowed(c) ==
    c.parent # NoOffice => /\ status[c.parent] = "active"
                           /\ c.op # "create" => ~ClosesCycle(c.office, c.parent)

----------------------------------------------------------------------------
(* Requests *)

\* `Archive child offices before archiving this office'
HasActiveChildren(o) == \E x \in Children(o) : status[x] = "active"

\* requireOrgAdmin passed.  Requests overlap in the mode "overlap" only.
BeginChange(a, op, o, p) ==
    /\ at[a] = "idle"
    /\ made < MaxChanges
    /\ officeMode = "alone" => BusyAdmins = {}
    /\ at' = [at EXCEPT ![a] = IF op = "create" THEN "check" ELSE "lock"]
    /\ change' = [change EXCEPT ![a] = [op |-> op, office |-> o, parent |-> p]]
    /\ made' = made + 1
    /\ UNCHANGED <<parent, status, lock, share, officeMode>>

BeginCreate(a) ==
    \E o \in Offices, p \in Offices \cup {NoOffice} :
        /\ status[o] = "absent"
        /\ \A b \in BusyAdmins : change[b].office # o     \* ids are fresh
        /\ BeginChange(a, "create", o, p)

BeginMove(a) ==
    \E o \in Offices, p \in Offices \cup {NoOffice} :
        status[o] # "absent" /\ BeginChange(a, "move", o, p)

BeginArchive(a) ==
    \E o \in Offices :
        status[o] # "absent" /\ BeginChange(a, "archive", o, NoOffice)

BeginReactivate(a) ==
    \E o \in Offices :
        status[o] # "absent" /\ BeginChange(a, "reactivate", o, NoOffice)

\* lockOffice: SELECT ... FOR UPDATE waits, then reads the row as it is.  A
\* reactivation validates the parent the row has.
LockOffice(a) ==
    LET o == change[a].office IN
    /\ at[a] = "lock"
    /\ lock[o] = NoOffice
    /\ share[o] \subseteq {a}
    /\ lock' = [lock EXCEPT ![o] = a]
    /\ change' = IF change[a].op = "reactivate"
                 THEN [change EXCEPT ![a].parent = parent[o]]
                 ELSE change
    /\ at' = [at EXCEPT ![a] = "check"]
    /\ UNCHANGED <<parent, status, share, made, officeMode>>

\* the end of a transaction, however it ends, releases its locks
Release(a) ==
    /\ lock' = [o \in Offices |-> IF lock[o] = a THEN NoOffice ELSE lock[o]]
    /\ share' = [o \in Offices |-> share[o] \ {a}]
    /\ at' = [at EXCEPT ![a] = "idle"]
    /\ change' = [change EXCEPT ![a] = NoOffice]
    /\ UNCHANGED <<made, officeMode>>

\* assertOfficeTransition and the read-only rule for archived offices
Allowed(c) ==
    CASE c.op = "create"     -> ParentAllowed(c)
      [] c.op = "move"       -> status[c.office] = "active" /\ ParentAllowed(c)
      [] c.op = "archive"    -> status[c.office] = "active"
                                /\ ~HasActiveChildren(c.office)
      [] c.op = "reactivate" -> status[c.office] = "archived" /\ ParentAllowed(c)

Check(a) ==
    /\ at[a] = "check"
    /\ Allowed(change[a])
    /\ at' = [at EXCEPT ![a] = "write"]
    /\ UNCHANGED <<parent, status, lock, share, change, made, officeMode>>

\* The check fails, the name or the code is taken, or the audit fails.
Refuse(a) ==
    /\ at[a] \in {"check", "write", "commit"}
    /\ Release(a)
    /\ UNCHANGED <<parent, status>>

\* whether the statement writes parent_office_id, with a new parent
WritesParent(c) ==
    c.op \in {"create", "move"} /\ c.parent # NoOffice /\ c.parent # parent[c.office]

\* The fault: the parent is not locked, as if there were no foreign key.
ParentUnlocked(a) == TRUE

\* FOR KEY SHARE on the new parent is granted
ParentLockable(a) == lock[change[a].parent] \in {NoOffice, a}

\* The statement: the trigger, then the foreign key's lock on the parent.
Write(a) ==
    LET c == change[a] IN
    /\ at[a] = "write"
    /\ WritesParent(c) => /\ ~ClosesCycle(c.office, c.parent)
                          /\ ParentLockable(a)
    /\ share' = IF WritesParent(c)
                THEN [share EXCEPT ![c.parent] = @ \cup {a}]
                ELSE share
    /\ at' = [at EXCEPT ![a] = "commit"]
    /\ UNCHANGED <<parent, status, lock, change, made, officeMode>>

Commit(a) ==
    LET c == change[a] IN
    /\ at[a] = "commit"
    /\ parent' = IF c.op \in {"create", "move"}
                 THEN [parent EXCEPT ![c.office] = c.parent]
                 ELSE parent
    /\ status' = CASE c.op \in {"create", "reactivate"} ->
                        [status EXCEPT ![c.office] = "active"]
                   [] c.op = "archive" ->
                        [status EXCEPT ![c.office] = "archived"]
                   [] OTHER -> status
    /\ Release(a)

\* whom a transaction waits for
WaitsFor(a, b) ==
    /\ at[a] = "write"
    /\ a # b
    /\ WritesParent(change[a])
    /\ lock[change[a].parent] = b

\* PostgreSQL refuses a transaction of a cycle of waits.
BreakDeadlock(a) ==
    /\ \E S \in SUBSET Admins :
          a \in S /\ \A b \in S : \E d \in S : WaitsFor(b, d)
    /\ Release(a)
    /\ UNCHANGED <<parent, status>>

OfficesInit ==
    /\ parent = [o \in Offices |-> NoOffice]
    /\ status \in [Offices -> {"absent", "active"}]
    /\ lock = [o \in Offices |-> NoOffice]
    /\ share = [o \in Offices |-> {}]
    /\ at = [a \in Admins |-> "idle"]
    /\ change = [a \in Admins |-> NoOffice]
    /\ made = 0
    /\ officeMode \in OfficeModes

Step(a) ==
    \/ LockOffice(a)
    \/ Check(a)
    \/ Refuse(a)
    \/ Write(a)
    \/ Commit(a)
    \/ BreakDeadlock(a)

OfficesNext ==
    \E a \in Admins :
        \/ BeginCreate(a)
        \/ BeginMove(a)
        \/ BeginArchive(a)
        \/ BeginReactivate(a)
        \/ Step(a)

OfficesSpec == OfficesInit /\ [][OfficesNext]_officeVars

----------------------------------------------------------------------------
(* Properties *)

\* The columns, the locks and the requests hold what they can.
OfficesTypeOK ==
    /\ parent \in [Offices -> Offices \cup {NoOffice}]
    /\ status \in [Offices -> {"absent", "active", "archived"}]
    /\ lock \in [Offices -> Admins \cup {NoOffice}]
    /\ share \in [Offices -> SUBSET Admins]
    /\ at \in [Admins -> {"idle", "lock", "check", "write", "commit"}]
    /\ change \in [Admins -> Change \cup {NoOffice}]
    /\ made \in Nat
    /\ officeMode \in OfficeModes

Acyclic ==
    \A S \in (SUBSET Offices) \ {{}} : \E o \in S : parent[o] \notin S

\* "Office hierarchy cycle is not allowed"
NoCycle == Acyclic

\* Two administrators who move two offices under each other at the same time
\* cannot both succeed: each move holds its own office and asks for a lock
\* on the other one.
NoMutualParents ==
    \A o, p \in Offices : parent[o] = p => parent[p] # o

\* As long as requests do not overlap the offices are a forest, and an active
\* office has an active parent: neither a creation, a move, an archival nor a
\* reactivation breaks it.
Forest ==
    /\ Acyclic
    /\ \A o \in Offices : status[o] = "active" /\ parent[o] # NoOffice =>
                              status[parent[o]] = "active"

HierarchySound == NoMutualParents /\ (officeMode = "alone" => Forest)

=============================================================================
