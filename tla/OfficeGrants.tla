---------------------------- MODULE OfficeGrants ----------------------------
(***************************************************************************)
(* The permission matrices: the grants of an office and the global         *)
(* template (rbac.service.ts), and the page they are edited on             *)
(* (admin/rbac/page.tsx), which loads a matrix, lets its user edit a copy  *)
(* and sends one request for every cell that the copy changed.  Statements *)
(* of the server, and answers to the page, are steps of their own.         *)
(***************************************************************************)
EXTENDS ConsoleBase, Naturals, FiniteSets, SequencesExt

CONSTANTS
    GrantOffices,   \* the active offices of the organization
    FirstOffice,    \* the one listOffices returns first
    MatrixPermissions,
    Consoles,       \* browser tabs with the page
    RoleOf,         \* the role of the user of each
    HeadOffice,     \* the office of a satellite_admin
    MaxOpen,        \* bound: tabs in use
    GrantMaxOps,    \* bound: what users do on the pages in all, in a mode
    MaxLoads,       \* bound: reloads of a page in flight
    GrantModes      \* "alone", "picks", "lossy" and "overlap", see MatrixInit

MatrixRoles == {"satellite_admin", "approver", "evaluator"}

VARIABLES
    grants,     \* office_rbac_grants
    template,   \* rbac_global_grants
    consoles,   \* the tabs in use
    screen,     \* the state of the page
    saving,     \* the save or apply that the page waits for
    loads,      \* the reloads in flight, in the order they were sent
    grantOps, grantMode

matrix == <<grants, template, consoles, screen, saving, loads, grantOps, grantMode>>

Cells == MatrixRoles \X MatrixPermissions

Platform(c) == RoleOf[c] = "platform_admin"
Chief(c)    == RoleOf[c] = "dswd_admin"

\* `doubt' is no state of the page: a request has failed since its last load
Screen == [tab : {"region", "template"}, office : GrantOffices \cup {Nil},
           shown : SUBSET Cells, defaults : SUBSET Cells, draft : SUBSET Cells,
           editing : BOOLEAN, doubt : BOOLEAN]

\* A save has cells to set; an apply has offices to replace, one at a time,
\* with what its transaction has read, deleted and inserted; of what it copied,
\* `copy' is what no other has deleted since.
MatrixCall == [kind : {"save"}, office : GrantOffices \cup {Nil}, todo : SUBSET Cells,
               waits : SUBSET Cells, after : SUBSET Cells, failed : BOOLEAN]
              \cup
              [kind : {"apply"}, todo : SUBSET GrantOffices, at : GrantOffices \cup {Nil},
               stage : {"next", "delete", "insert", "commit", "reload", "stuck"},
               seen : SUBSET Cells, doomed : SUBSET Cells, added : SUBSET Cells,
               copy : SUBSET Cells, failed : BOOLEAN]

MatrixLoad == [office : GrantOffices \cup {Nil}, grants : {Nil} \cup (SUBSET Cells),
               defaults : {Nil} \cup (SUBSET Cells), awaited : BOOLEAN]

\* what is assumed of the constants
MatrixAssumptions ==
    /\ FirstOffice \in GrantOffices /\ HeadOffice \in GrantOffices
    /\ IsFiniteSet(Consoles)
    /\ RoleOf \in [Consoles -> {"platform_admin", "dswd_admin", "satellite_admin"}]
    /\ MaxOpen \in Nat /\ GrantMaxOps \in [GrantModes -> Nat] /\ MaxLoads \in Nat
    /\ GrantModes \subseteq {"alone", "picks", "lossy", "overlap"}
    /\ Nil \notin GrantOffices \cup MatrixCall /\ \A rows \in SUBSET Cells : rows # Nil

Idle(c)      == saving[c] = Nil
Saving(c)    == ~Idle(c) /\ saving[c].kind = "save"
Applying(c)  == ~Idle(c) /\ saving[c].kind = "apply"
OnTemplate(c) == screen[c].tab = "template"

\* what an uncommitted apply of another page has done to the rows of o
InTx(c, o) == Applying(c) /\ saving[c].at = o
Doomed(c, o) == UNION {saving[d].doomed : d \in {d \in Consoles \ {c} : InTx(d, o)}}
Added(c, o) == UNION {saving[d].added : d \in {d \in Consoles \ {c} : InTx(d, o)}}

----------------------------------------------------------------------------
(* reload *)

\* The grants of the selected office, and the template for those who see it;
\* a part that is not asked for is answered at once.
MatrixSent(c, o, awaited) ==
    [office |-> o, grants |-> IF o = Nil THEN {} ELSE Nil,
     defaults |-> IF RoleOf[c] = "satellite_admin" THEN {} ELSE Nil,
     awaited |-> awaited]

Reload(c, o, awaited) ==
    /\ Len(loads[c]) < MaxLoads
    /\ loads' = [loads EXCEPT ![c] = Append(@, MatrixSent(c, o, awaited))]

ReadGrants(c) ==
    \E i \in DOMAIN loads[c] :
        /\ loads[c][i].grants = Nil
        /\ loads' = [loads EXCEPT ![c][i].grants = grants[loads[c][i].office]]
        /\ UNCHANGED <<grants, template, consoles, screen, saving, grantOps, grantMode>>

ReadDefaults(c) ==
    \E i \in DOMAIN loads[c] :
        /\ loads[c][i].defaults = Nil
        /\ loads' = [loads EXCEPT ![c][i].defaults = template]
        /\ UNCHANGED <<grants, template, consoles, screen, saving, grantOps, grantMode>>

\* Both answers have come: the page shows them and forgets its draft.
Loaded(c, load) ==
    [screen[c] EXCEPT
        !.shown = load.grants,
        !.defaults = IF RoleOf[c] = "satellite_admin" THEN @ ELSE load.defaults,
        !.editing = FALSE, !.doubt = FALSE]

EndLoad(c, i) ==
    /\ loads' = [loads EXCEPT ![c] = RemoveAt(@, i)]
    /\ UNCHANGED <<grants, template, consoles, grantOps, grantMode>>

\* Two reloads of a page are answered in any order in the mode "overlap".
FinishLoad(c) ==
    \E i \in DOMAIN loads[c] :
        LET load == loads[c][i] IN
        /\ load.grants # Nil /\ load.defaults # Nil
        /\ grantMode # "overlap" => i = 1
        /\ screen' = [screen EXCEPT ![c] = Loaded(c, load)]
        /\ saving' = IF load.awaited THEN [saving EXCEPT ![c] = Nil] ELSE saving
        /\ EndLoad(c, i)

\* The reload throws, and an apply that awaits it never ends its `busy'.
LoseLoad(c) ==
    \E i \in DOMAIN loads[c] :
        /\ grantMode = "lossy"
        /\ screen' = [screen EXCEPT ![c].doubt = TRUE]
        /\ saving' = IF loads[c][i].awaited THEN [saving EXCEPT ![c].stage = "stuck"]
                     ELSE saving
        /\ EndLoad(c, i)

----------------------------------------------------------------------------
(* What the user does on the page *)

\* The user waits for the page to load, but for the mode "overlap".
MatrixUserActs(c) ==
    /\ c \in consoles
    /\ grantOps < GrantMaxOps[grantMode]
    /\ grantMode # "overlap" => loads[c] = <<>>
    /\ grantOps' = grantOps + 1
    /\ UNCHANGED <<grants, template, consoles, grantMode>>

MatrixPickTab(c) ==
    /\ MatrixUserActs(c)
    /\ Chief(c)
    /\ \E t \in {"region", "template"} \ {screen[c].tab} :
           screen' = [screen EXCEPT ![c].tab = t]
    /\ UNCHANGED <<saving, loads>>

\* the selector of the region tab
PickOffice(c) ==
    /\ MatrixUserActs(c)
    /\ Chief(c) /\ ~OnTemplate(c) /\ Idle(c)
    /\ \E o \in GrantOffices \ {screen[c].office} :
           /\ screen' = [screen EXCEPT ![c].office = o, ![c].editing = FALSE]
           /\ Reload(c, o, FALSE)
    /\ UNCHANGED saving

\* the selector of the template tab: nothing is loaded
PickTarget(c) ==
    /\ MatrixUserActs(c)
    /\ grantMode \in {"picks", "overlap"}
    /\ Chief(c) /\ OnTemplate(c) /\ Idle(c)
    /\ \E o \in GrantOffices \ {screen[c].office} :
           screen' = [screen EXCEPT ![c].office = o, ![c].editing = FALSE]
    /\ UNCHANGED <<saving, loads>>

\* The platform edits the template, the others the office's matrix.
MatrixCanEdit(c) == OnTemplate(c) <=> Platform(c)

Matrix(c) == IF OnTemplate(c) THEN screen[c].defaults ELSE screen[c].shown

BeginEdit(c) ==
    /\ MatrixUserActs(c)
    /\ MatrixCanEdit(c) /\ ~screen[c].editing
    /\ screen' = [screen EXCEPT ![c].draft = Matrix(c), ![c].editing = TRUE]
    /\ UNCHANGED <<saving, loads>>

CancelEdit(c) ==
    /\ MatrixUserActs(c)
    /\ MatrixCanEdit(c) /\ screen[c].editing /\ Idle(c)
    /\ screen' = [screen EXCEPT ![c].draft = {}, ![c].editing = FALSE]
    /\ UNCHANGED <<saving, loads>>

\* The fault: the columns of the office administrators are not locked.
AnyColumn(c, cell) == TRUE

\* the columns that are not locked
Unlocked(c, cell) == Platform(c) \/ cell[1] # "satellite_admin"

Toggle(c) ==
    /\ MatrixUserActs(c)
    /\ MatrixCanEdit(c) /\ screen[c].editing /\ Idle(c)
    /\ \E cell \in Cells :
           /\ Unlocked(c, cell)
           /\ screen' = [screen EXCEPT ![c].draft =
                             IF cell \in @ THEN @ \ {cell} ELSE @ \cup {cell}]
    /\ UNCHANGED <<saving, loads>>

\* the cells the page compares: all, but for the head of an office
Compared(c) ==
    {cell \in Cells : RoleOf[c] = "satellite_admin" => cell[1] # "satellite_admin"}

ChangedCells(c) ==
    {cell \in Compared(c) : (cell \in screen[c].draft) # (cell \in Matrix(c))}

\* updateRbac: one request for each changed cell, sent at once
Save(c) ==
    /\ MatrixUserActs(c)
    /\ MatrixCanEdit(c) /\ screen[c].editing /\ Idle(c)
    /\ saving' = [saving EXCEPT ![c] =
                     [kind |-> "save",
                      office |-> IF OnTemplate(c) THEN Nil ELSE screen[c].office,
                      todo |-> ChangedCells(c), waits |-> {},
                      after |-> screen[c].draft, failed |-> FALSE]]
    /\ UNCHANGED <<screen, loads>>

\* applyOne and applyAll: the server lists the active offices, in any order
ApplyTemplate(c) ==
    /\ MatrixUserActs(c)
    /\ Chief(c) /\ OnTemplate(c) /\ Idle(c) /\ screen[c].office # Nil
    /\ \E todo \in {{screen[c].office}, GrantOffices} :
           saving' = [saving EXCEPT ![c] =
                         [kind |-> "apply", todo |-> todo, at |-> Nil,
                          stage |-> "next", seen |-> {}, doomed |-> {},
                          added |-> {}, copy |-> {}, failed |-> FALSE]]
    /\ UNCHANGED <<screen, loads>>

----------------------------------------------------------------------------
(* setOfficeGrant and setGlobalGrant: one INSERT or DELETE *)

\* Who may write which cell: nobody's page sends another.
MayGrant(c, o, cell) ==
    IF o = Nil THEN Platform(c)
    ELSE \/ Chief(c)
         \/ /\ RoleOf[c] = "satellite_admin" /\ o = HeadOffice
            /\ cell[1] # "satellite_admin"

Set(rows, cell, granted) == IF granted THEN rows \cup {cell} ELSE rows \ {cell}

SetCell(c, cell) ==
    LET o == saving[c].office
        granted == cell \in saving[c].after IN
    IF ~MayGrant(c, o, cell) THEN UNCHANGED <<grants, template>>
    ELSE IF o = Nil
    THEN template' = Set(template, cell, granted) /\ UNCHANGED grants
    ELSE grants' = [grants EXCEPT ![o] = Set(@, cell, granted)] /\ UNCHANGED template

\* the cell is in a row that a running transaction has written
Blocked(c, cell) ==
    saving[c].office # Nil
    /\ cell \in Doomed(c, saving[c].office) \cup Added(c, saving[c].office)

Answered(c, cell, lost) ==
    /\ saving' = [saving EXCEPT ![c].todo = @ \ {cell}, ![c].waits = @ \ {cell},
                                ![c].failed = @ \/ lost]
    /\ UNCHANGED <<consoles, screen, loads, grantOps, grantMode>>

SetGrant(c) ==
    \E cell \in Cells :
        /\ Saving(c) /\ cell \in saving[c].todo \ saving[c].waits
        /\ ~Blocked(c, cell)
        /\ SetCell(c, cell)
        /\ \E lost \in {FALSE, grantMode = "lossy"} : Answered(c, cell, lost)

\* The request fails before it is served.
LoseGrant(c) ==
    \E cell \in Cells :
        /\ Saving(c) /\ cell \in saving[c].todo
        /\ grantMode = "lossy"
        /\ Answered(c, cell, TRUE)
        /\ UNCHANGED <<grants, template>>

\* The DELETE of a row that is being replaced waits, ...
WaitForApply(c) ==
    \E cell \in Cells :
        /\ Saving(c) /\ cell \in saving[c].todo \ (saving[c].waits \cup saving[c].after)
        /\ saving[c].office # Nil /\ cell \in Doomed(c, saving[c].office)
        /\ saving' = [saving EXCEPT ![c].waits = @ \cup {cell}]
        /\ UNCHANGED <<grants, template, consoles, screen, loads, grantOps, grantMode>>

\* ... and then finds the row gone: the new one is not for it to see.
FindNothing(c) ==
    \E cell \in Cells :
        /\ Saving(c) /\ cell \in saving[c].waits
        /\ ~Blocked(c, cell)
        /\ Answered(c, cell, FALSE)
        /\ UNCHANGED <<grants, template>>

\* All have answered: the draft is what the page shows now.
Saved(c) ==
    IF saving[c].failed THEN [screen[c] EXCEPT !.doubt = TRUE]
    ELSE IF saving[c].office = Nil
    THEN [screen[c] EXCEPT !.defaults = saving[c].after, !.editing = FALSE]
    ELSE [screen[c] EXCEPT !.shown = saving[c].after, !.editing = FALSE]

FinishSave(c) ==
    /\ Saving(c) /\ saving[c].todo = {}
    /\ screen' = [screen EXCEPT ![c] = Saved(c)]
    /\ saving' = [saving EXCEPT ![c] = Nil]
    /\ UNCHANGED <<grants, template, consoles, loads, grantOps, grantMode>>

----------------------------------------------------------------------------
(* replaceOfficeGrants: DELETE and INSERT of a transaction *)

MatrixGoto(c, stage) == [saving[c] EXCEPT !.stage = stage]

MatrixStep(c, next) ==
    /\ saving' = [saving EXCEPT ![c] = next]
    /\ UNCHANGED <<template, consoles, screen, loads, grantOps, grantMode>>

\* The DELETE starts: these are the rows it sees.
BeginReplace(c) ==
    \E o \in GrantOffices :
        /\ Applying(c) /\ saving[c].stage = "next" /\ o \in saving[c].todo
        /\ MatrixStep(c, [MatrixGoto(c, "delete") EXCEPT !.at = o, !.seen = grants[o]])
        /\ UNCHANGED grants

\* It waits for another that deletes the same rows, and leaves those it
\* finds gone; rows inserted since it started are not for it to see.
DeleteRows(c) ==
    /\ Applying(c) /\ saving[c].stage = "delete"
    /\ Doomed(c, saving[c].at) \cap saving[c].seen = {}
    /\ MatrixStep(c, [MatrixGoto(c, "insert") EXCEPT
                                !.doomed = saving[c].seen \cap grants[saving[c].at]])
    /\ UNCHANGED grants

\* The INSERT, which passes over the rows that are there already.
InsertRows(c) ==
    /\ Applying(c) /\ saving[c].stage = "insert"
    /\ (Doomed(c, saving[c].at) \cup Added(c, saving[c].at)) \cap template = {}
    /\ MatrixStep(c, [MatrixGoto(c, "commit") EXCEPT
                                !.copy = template,
                                !.added = template \
                                    (grants[saving[c].at] \ saving[c].doomed)])
    /\ UNCHANGED grants

\* The commit, and the next office; an answer that is lost, or an apply that
\* fails on its way, leaves the other offices as they were.
MatrixCommit(c) ==
    /\ Applying(c) /\ saving[c].stage = "commit"
    /\ grants' = [grants EXCEPT ![saving[c].at] =
                     (@ \ saving[c].doomed) \cup saving[c].added]
    /\ \E fails \in {FALSE, grantMode = "lossy"} :
           saving' = [d \in Consoles |->
                 IF d = c
                 THEN [MatrixGoto(c, "next") EXCEPT
                          !.todo = IF fails THEN {} ELSE @ \ {saving[c].at},
                          !.at = Nil, !.seen = {}, !.doomed = {}, !.added = {},
                          !.copy = {}, !.failed = fails]
                 ELSE IF InTx(d, saving[c].at)
                 THEN [saving[d] EXCEPT !.seen = @ \ saving[c].doomed,
                                        !.copy = @ \ saving[c].doomed]
                 ELSE saving[d]]
    /\ UNCHANGED <<template, consoles, screen, loads, grantOps, grantMode>>

\* The page loads what it shows anew, if the apply went well.
FinishApply(c) ==
    /\ Applying(c) /\ saving[c].stage = "next" /\ saving[c].todo = {}
    /\ IF saving[c].failed
       THEN /\ screen' = [screen EXCEPT ![c].doubt = TRUE]
            /\ saving' = [saving EXCEPT ![c] = Nil]
            /\ UNCHANGED loads
       ELSE /\ Reload(c, screen[c].office, TRUE)
            /\ saving' = [saving EXCEPT ![c] = MatrixGoto(c, "reload")]
            /\ UNCHANGED screen
    /\ UNCHANGED <<grants, template, consoles, grantOps, grantMode>>

----------------------------------------------------------------------------
\* The page as it opens: its first reload is on its way.
FirstPick(c) ==
    IF Platform(c) THEN Nil ELSE IF Chief(c) THEN FirstOffice ELSE HeadOffice

\* Offices were seeded with the template.  Several pages are open in the
\* mode "overlap" only; requests fail in the mode "lossy" only.
MatrixInit ==
    /\ grantMode \in GrantModes
    /\ template \in SUBSET Cells
    /\ grants = [o \in GrantOffices |-> template]
    /\ consoles \in SUBSET Consoles
    /\ IF grantMode = "overlap" THEN Cardinality(consoles) = MaxOpen
       ELSE Cardinality(consoles) = 1
    /\ screen = [c \in Consoles |->
                   [tab |-> IF Platform(c) THEN "template" ELSE "region",
                    office |-> FirstPick(c), shown |-> {}, defaults |-> {},
                    draft |-> {}, editing |-> FALSE, doubt |-> FALSE]]
    /\ saving = [c \in Consoles |-> Nil]
    /\ loads = [c \in Consoles |->
                   IF c \in consoles THEN <<MatrixSent(c, FirstPick(c), FALSE)>>
                   ELSE <<>>]
    /\ grantOps = 0

MatrixNext ==
    \E c \in Consoles :
        \/ ReadGrants(c) \/ ReadDefaults(c) \/ FinishLoad(c) \/ LoseLoad(c)
        \/ MatrixPickTab(c) \/ PickOffice(c) \/ PickTarget(c)
        \/ BeginEdit(c) \/ CancelEdit(c) \/ Toggle(c) \/ Save(c)
        \/ ApplyTemplate(c)
        \/ SetGrant(c) \/ LoseGrant(c) \/ WaitForApply(c) \/ FindNothing(c)
        \/ FinishSave(c)
        \/ BeginReplace(c) \/ DeleteRows(c) \/ InsertRows(c) \/ MatrixCommit(c)
        \/ FinishApply(c)

MatrixSpec == MatrixInit /\ [][MatrixNext]_matrix

----------------------------------------------------------------------------
MatrixTypeOK ==
    /\ grants \in [GrantOffices -> SUBSET Cells]
    /\ template \subseteq Cells
    /\ consoles \subseteq Consoles
    /\ screen \in [Consoles -> Screen]
    /\ saving \in [Consoles -> MatrixCall \cup {Nil}]
    /\ loads \in [Consoles -> Seq(MatrixLoad)]
    /\ grantOps \in 0..GrantMaxOps[grantMode]
    /\ grantMode \in GrantModes

\* The page waits for nothing, and nothing has failed since it loaded.
MatrixSettled(c) ==
    c \in consoles /\ Idle(c) /\ loads[c] = <<>> /\ ~screen[c].doubt

ShowsOffice(c)   == screen[c].shown = grants[screen[c].office]
ShowsTemplate(c) == screen[c].defaults = template

\* What a settled page shows is what the server has: after every sequence of
\* picks, edits, saves, applies and reloads of one user, whose requests may
\* fail.
MatrixScreenTrue ==
    grantMode \in {"alone", "lossy"} =>
        \A c \in {c \in Consoles : MatrixSettled(c)} :
            /\ ~Platform(c) => ShowsOffice(c)
            /\ RoleOf[c] # "satellite_admin" => ShowsTemplate(c)

Officers(rows) == {cell \in rows : cell[1] = "satellite_admin"}

\* The grants of an office change by one cell that its users may edit, or to
\* what an apply copied: nobody ever reads an office in between, and the
\* grants of its administrators are the template's, but for those that another
\* apply has deleted since.
ApplyIsWhole ==
    [][\A o \in GrantOffices :
          LET changed == (grants[o] \ grants'[o]) \cup (grants'[o] \ grants[o]) IN
          \/ Officers(changed) = {} /\ Cardinality(changed) <= 1
          \/ \E c \in Consoles : /\ InTx(c, o) /\ saving[c].stage = "commit"
                                /\ Officers(saving[c].copy) \subseteq grants'[o]]_matrix

\* `WHEN a dswd_admin selects an office on /admin/rbac THEN they can view
\* permissions' of it (regional-rbac-admin/spec.md); the code loads nothing when
\* the office is selected on the template tab.
SelectedOfficeShown ==
    grantMode = "picks" =>
        \A c \in {c \in Consoles : MatrixSettled(c)} :
            Chief(c) /\ ~OnTemplate(c) => ShowsOffice(c)

=============================================================================
