------------------------------ MODULE OfficePage ------------------------------
(***************************************************************************)
(* The page of an office in the console of an organization's               *)
(* administrator, and the form that creates a regional one.  Each request  *)
(* is one transaction, after which the server reads the office, its        *)
(* children, its staff and its audit history; the page shows whole what it *)
(* is answered.  The offices it may be moved under are loaded once.        *)
(***************************************************************************)
EXTENDS ConsoleBase, Naturals, FiniteSets, SequencesExt

CONSTANTS
    BureauOffices,  \* of the organization
    Here,           \* the one the page is about
    BureauStaff,    \* whose accounts were requested for it
    OfficeMaxOps    \* bound: what users do, in a mode

VARIABLES
    offices,        \* offices: status, parent and level of each
    staff,          \* user_accounts of its staff
    audits,         \* audit_logs of this office
    officePage,     \* the state of the page
    officeCalls,    \* the requests in flight
    officeReads,    \* how often the server has read the office
    officeDone, bureauMode

bureau == <<offices, staff, audits>>
office == <<bureau, officePage, officeCalls, officeReads, officeDone, bureauMode>>

Levels == {"regional", "local"}
BureauKinds ==
    {"create", "load", "options", "save", "archive", "reactivate", "approve"}

\* `absent' is no status: the office has not been created.
Office == [status : {"absent", "active", "archived"},
           parent : BureauOffices \cup {Nil}, level : Levels]

\* what the server answers of an office
Detail == [office : Office, children : SUBSET (BureauOffices \X {"active", "archived"}),
           staff : [BureauStaff -> {"pending", "active"}], audits : SUBSET BureauKinds]

\* The form holds the parent it was opened with.  `nr' and `doubt' are no
\* state of the page: which read it shows, and whether something has happened
\* since that it has not been told.
BureauPage == [at : {"new", "detail"}, loading : BOOLEAN, seen : Detail \cup {Nil},
               options : SUBSET BureauOffices,
               form : {Nil} \cup [parent : BureauOffices \cup {Nil}],
               dialog : {Nil, "archive", "reactivate"},
               approving : BureauStaff \cup {Nil},
               error : BOOLEAN, nr : Nat, doubt : BOOLEAN]

\* `regional': the request goes to the endpoint of the regional offices.
BureauCall == [kind : BureauKinds, who : BureauStaff \cup {Nil},
               parent : BureauOffices \cup {Nil},
               level : Levels, regional : BOOLEAN,
               stage : {"sent", "served", "read", "refused"},
               answer : Detail \cup {Nil}, options : SUBSET BureauOffices, nr : Nat,
               doubt : BOOLEAN]

\* what is assumed of the constants
BureauAssumptions ==
    /\ IsFiniteSet(BureauOffices) /\ Here \in BureauOffices
    /\ Nil \notin BureauOffices \cup BureauStaff
    /\ Nil \notin Detail
    /\ OfficeMaxOps \in [PageModes -> Nat]
    /\ PageModesKnown

----------------------------------------------------------------------------
(* The server *)

BureauChildren(o) == {x \in BureauOffices : /\ offices[x].status # "absent"
                                            /\ offices[x].parent = o}
IsActive(o) == offices[o].status = "active"

\* the least set with the children of o that has the children of its members
BureauDescendants(o) ==
    {x \in BureauOffices :
        \A D \in SUBSET BureauOffices :
            BureauChildren(o) \subseteq D /\ (\A y \in D : BureauChildren(y) \subseteq D)
            => x \in D}

\* validateParent
BureauParentAllowed(o, p) ==
    p # Nil => IsActive(p) /\ p # o /\ p \notin BureauDescendants(o)

\* Whether the transaction of a request about o goes through; a name or a
\* code that is taken is another reason to refuse.
BureauAccepts(o, c) ==
    CASE c.kind = "create" -> offices[o].status = "absent"
      [] c.kind = "save" -> IsActive(o) /\ BureauParentAllowed(o, c.parent)
      [] c.kind = "archive" ->
             /\ c.regional => offices[o].level = "regional"
             /\ IsActive(o) /\ \A x \in BureauChildren(o) : ~IsActive(x)
      [] c.kind = "reactivate" ->
             /\ c.regional => offices[o].level = "regional"
             /\ offices[o].status = "archived"
             /\ BureauParentAllowed(o, offices[o].parent)
      [] c.kind = "approve" -> staff[c.who] = "pending"
      [] OTHER -> TRUE

\* what it writes
Written(o, c) ==
    CASE c.kind = "create" ->
             [status |-> "active", parent |-> Nil, level |-> "regional"]
      [] c.kind = "save" ->
             [offices[o] EXCEPT !.parent = c.parent, !.level = c.level]
      [] c.kind = "archive" -> [offices[o] EXCEPT !.status = "archived"]
      [] c.kind = "reactivate" -> [offices[o] EXCEPT !.status = "active"]
      [] OTHER -> offices[o]

Apply(o, c) ==
    /\ offices' = [offices EXCEPT ![o] = Written(o, c)]
    /\ staff' = IF c.kind = "approve" THEN [staff EXCEPT ![c.who] = "active"] ELSE staff
    /\ audits' = IF o = Here THEN audits \cup ({c.kind} \ {"load", "options"})
                 ELSE audits

BureauServe ==
    \E i \in DOMAIN officeCalls, taken \in BOOLEAN :
        LET ok == BureauAccepts(Here, officeCalls[i]) /\ ~taken IN
        /\ officeCalls[i].stage = "sent"
        /\ taken => officeCalls[i].kind \in {"create", "save"}
        /\ IF ok THEN Apply(Here, officeCalls[i]) ELSE UNCHANGED bureau
        /\ officeCalls' =
               [officeCalls EXCEPT ![i].stage = IF ok THEN "served" ELSE "refused"]
        /\ UNCHANGED <<officePage, officeReads, officeDone, bureauMode>>

\* detail, which every request ends with; an approval is followed by a
\* request for it.
TheDetail ==
    [office |-> offices[Here],
     children |-> {<<x, offices[x].status>> : x \in BureauChildren(Here)},
     staff |-> staff, audits |-> audits]

\* parentOptions: the other active offices
ParentOptions == {o \in BureauOffices \ {Here} : IsActive(o)}

BureauReadDetail ==
    \E i \in DOMAIN officeCalls :
        /\ officeCalls[i].stage = "served"
        /\ IF officeCalls[i].kind = "options"
           THEN /\ officeCalls' = [officeCalls EXCEPT ![i].stage = "read",
                                                      ![i].options = ParentOptions]
                /\ UNCHANGED officeReads
           ELSE /\ officeCalls' = [officeCalls EXCEPT ![i].stage = "read",
                                                      ![i].answer = TheDetail,
                                                      ![i].nr = officeReads + 1]
                /\ officeReads' = officeReads + 1
        /\ UNCHANGED <<bureau, officePage, officeDone, bureauMode>>

----------------------------------------------------------------------------
(* The requests of the page *)

BureauSent(kind) ==
    [kind |-> kind, who |-> Nil, parent |-> Nil, level |-> "regional",
     regional |-> FALSE, stage |-> "sent", answer |-> Nil, options |-> {},
     nr |-> 0, doubt |-> FALSE]

BureauWaiting(kinds) == \E i \in DOMAIN officeCalls : officeCalls[i].kind \in kinds

\* one `busy' for the form and the dialog
BureauPageBusy == BureauWaiting({"save", "archive", "reactivate"})

\* What ends a request, whether it is answered or fails
Ended(c) ==
    CASE c.kind = "approve" -> [officePage EXCEPT !.approving = Nil]
      [] c.kind = "options" -> [officePage EXCEPT !.loading = FALSE]
      [] OTHER -> officePage

\* The form or the dialog of a request that succeeds closes.
BureauClosed(c) ==
    CASE c.kind = "save" -> [officePage EXCEPT !.form = Nil]
      [] c.kind \in {"archive", "reactivate"} -> [officePage EXCEPT !.dialog = Nil]
      [] OTHER -> Ended(c)

BureauShow(c) ==
    [BureauClosed(c) EXCEPT !.seen = c.answer, !.nr = c.nr, !.doubt = c.doubt]

\* The page of a new office is opened; a page that has loaded the office asks
\* for the offices it may be moved under, and is not shown before it has them.
BureauAnswer ==
    \E i \in DOMAIN officeCalls :
        LET c == officeCalls[i]
            others == RemoveAt(officeCalls, i) IN
        /\ c.stage = "read"
        /\ CASE c.kind = "create" ->
                   /\ officePage' = [officePage EXCEPT !.at = "detail", !.loading = TRUE]
                   /\ officeCalls' = Append(others, BureauSent("load"))
             [] c.kind = "load" ->
                   /\ officePage' = BureauShow(c)
                   /\ officeCalls' = Append(others, BureauSent("options"))
             [] c.kind = "options" ->
                   /\ officePage' = [Ended(c) EXCEPT !.options = c.options]
                   /\ officeCalls' = others
             [] OTHER -> officePage' = BureauShow(c) /\ officeCalls' = others
        /\ UNCHANGED <<bureau, officeReads, officeDone, bureauMode>>

Failed(c) == [Ended(c) EXCEPT !.error = TRUE, !.loading = FALSE]

BureauRefuse ==
    \E i \in DOMAIN officeCalls :
        /\ officeCalls[i].stage = "refused"
        /\ officePage' = Failed(officeCalls[i])
        /\ officeCalls' = RemoveAt(officeCalls, i)
        /\ UNCHANGED <<bureau, officeReads, officeDone, bureauMode>>

\* A request, or its answer, is lost.
BureauLose ==
    \E i \in DOMAIN officeCalls :
        /\ bureauMode = "lossy"
        /\ officeCalls[i].stage \in {"sent", "read"}
        /\ officePage' = [Failed(officeCalls[i]) EXCEPT
                              !.doubt = @ \/ officeCalls[i].kind # "options"]
        /\ officeCalls' = RemoveAt(officeCalls, i)
        /\ UNCHANGED <<bureau, officeReads, officeDone, bureauMode>>

----------------------------------------------------------------------------
(* What the user does; all but a hasty one wait for the answer. *)

BureauUserActs ==
    /\ officeDone < OfficeMaxOps[bureauMode]
    /\ bureauMode # "hasty" => officeCalls = <<>>
    /\ officeDone' = officeDone + 1
    /\ UNCHANGED <<bureau, officeReads, bureauMode>>

BureauSubmit(c) == BureauUserActs /\ officeCalls' = Append(officeCalls, c)

\* the new page: createRegionalOffice
CreateOffice ==
    /\ officePage.at = "new" /\ ~BureauWaiting({"create"})
    /\ BureauSubmit(BureauSent("create"))
    /\ officePage' = [officePage EXCEPT !.error = FALSE]

BureauShown == officePage.at = "detail" /\ ~officePage.loading /\ officePage.seen # Nil

\* `Office unavailable'
BureauRetry ==
    /\ officePage.at = "detail" /\ ~officePage.loading /\ officePage.seen = Nil
    /\ BureauSubmit(BureauSent("load"))
    /\ officePage' = [officePage EXCEPT !.loading = TRUE, !.error = FALSE]

BureauCanEdit == officePage.seen.office.status = "active"

\* A select shows its first option, `No parent office', if it has not the one
\* that it is given.
FormParent ==
    IF officePage.seen.office.parent \in officePage.options
    THEN officePage.seen.office.parent ELSE Nil

Modal == officePage.form # Nil \/ officePage.dialog # Nil

OpenForm ==
    /\ BureauShown /\ BureauCanEdit /\ ~Modal
    /\ BureauUserActs
    /\ officePage' = [officePage EXCEPT !.form = [parent |-> FormParent]]
    /\ UNCHANGED officeCalls

\* Escape closes what is open even while its request is in flight.
CloseModal ==
    /\ BureauShown /\ Modal
    /\ BureauUserActs
    /\ officePage' = [officePage EXCEPT !.form = Nil, !.dialog = Nil]
    /\ UNCHANGED officeCalls

\* The user leaves the parent as it is or picks another.
SaveOffice ==
    /\ BureauShown /\ officePage.form # Nil /\ ~BureauPageBusy
    /\ \E p \in {officePage.form.parent, Nil} \cup officePage.options, l \in Levels :
           BureauSubmit([BureauSent("save") EXCEPT !.parent = p, !.level = l])
    /\ officePage' = [officePage EXCEPT !.error = FALSE]

\* The fault: children do not keep an office from being archived.
ArchiveAnyway == officePage.seen.office.status = "active"

\* canArchiveOffice; direct_child_count counts archived children, too.
CanArchive == officePage.seen.office.status = "active" /\ officePage.seen.children = {}

CanReactivate == officePage.seen.office.status = "archived"

BureauOpenDialog ==
    /\ BureauShown /\ ~Modal
    /\ BureauUserActs
    /\ \E action \in {"archive", "reactivate"} :
           /\ IF action = "archive" THEN CanArchive ELSE CanReactivate
           /\ officePage' = [officePage EXCEPT !.dialog = action]
    /\ UNCHANGED officeCalls

\* the endpoint depends on the level that the page has loaded
OfLevel(kind) ==
    [BureauSent(kind) EXCEPT !.regional = officePage.seen.office.level = "regional"]

BureauApplyLifecycle ==
    /\ BureauShown /\ officePage.dialog # Nil /\ ~BureauPageBusy
    /\ BureauSubmit(OfLevel(officePage.dialog))
    /\ officePage' = [officePage EXCEPT !.error = FALSE]

CanApprove(s) == officePage.seen.staff[s] = "pending"

\* The page remembers one request that it approves.
BureauApproveStaff ==
    \E s \in BureauStaff :
        /\ BureauShown /\ ~Modal /\ CanApprove(s) /\ officePage.approving # s
        /\ BureauSubmit([BureauSent("approve") EXCEPT !.who = s])
        /\ officePage' = [officePage EXCEPT !.approving = s, !.error = FALSE]

----------------------------------------------------------------------------
\* Another administrator, on the page of this or of another office.
BureauOthersAct ==
    /\ bureauMode = "shared"
    /\ officeDone < OfficeMaxOps[bureauMode]
    /\ officeDone' = officeDone + 1
    /\ \E o \in BureauOffices, kind \in {"save", "archive", "reactivate", "approve"},
          p \in BureauOffices \cup {Nil}, s \in BureauStaff :
           LET c == [BureauSent(kind) EXCEPT !.parent = p, !.level = offices[o].level,
                                             !.who = s] IN
           /\ offices[o].status # "absent"
           /\ kind = "approve" => o = Here
           /\ kind # "save" => p = Nil
           /\ BureauAccepts(o, c) /\ Apply(o, c)
    /\ officePage' = [officePage EXCEPT !.doubt = TRUE]
    /\ officeCalls' = [i \in DOMAIN officeCalls |->
                          [officeCalls[i] EXCEPT !.doubt = officeCalls[i].stage = "read"]]
    /\ UNCHANGED <<officeReads, bureauMode>>

\* An active office has no archived parent, and no office is above itself.
Hierarchies ==
    {h \in [BureauOffices -> Office] :
        /\ \A o \in BureauOffices : h[o].parent # Nil => h[h[o].parent].status # "absent"
        /\ \A o \in BureauOffices : h[o].status = "active" /\ h[o].parent # Nil =>
                                    h[h[o].parent].status = "active"
        /\ \A o \in BureauOffices \ {Here} : h[o].status # "absent"
        /\ h[Here].status = "absent" => h[Here].parent = Nil
        /\ \E above \in [BureauOffices -> 1..Cardinality(BureauOffices)] :
               \A o \in BureauOffices : h[o].parent # Nil => above[h[o].parent] < above[o]}

\* The form is opened, or the page of an office with its first request on its
\* way.
BureauInit ==
    /\ offices \in Hierarchies
    /\ staff \in [BureauStaff -> {"pending", "active"}]
    /\ audits = {}
    /\ LET new == offices[Here].status = "absent" IN
       /\ officePage = [at |-> IF new THEN "new" ELSE "detail", loading |-> ~new,
                        seen |-> Nil, options |-> {}, form |-> Nil, dialog |-> Nil,
                        approving |-> Nil, error |-> FALSE, nr |-> 0, doubt |-> FALSE]
       /\ officeCalls = IF new THEN <<>> ELSE <<BureauSent("load")>>
       /\ new => staff = [s \in BureauStaff |-> "pending"]
    /\ officeReads = 0 /\ officeDone = 0
    /\ bureauMode \in PageModes

BureauNext ==
    \/ BureauServe \/ BureauReadDetail \/ BureauAnswer \/ BureauRefuse \/ BureauLose
    \/ CreateOffice \/ BureauRetry \/ OpenForm \/ CloseModal \/ SaveOffice
    \/ BureauOpenDialog \/ BureauApplyLifecycle \/ BureauApproveStaff
    \/ BureauOthersAct

BureauSpec == BureauInit /\ [][BureauNext]_office

----------------------------------------------------------------------------
BureauTypeOK ==
    /\ offices \in [BureauOffices -> Office]
    /\ staff \in [BureauStaff -> {"pending", "active"}]
    /\ audits \subseteq BureauKinds
    /\ officePage \in BureauPage
    /\ officeCalls \in Seq(BureauCall)
    /\ officeReads \in Nat
    /\ bureauMode \in PageModes /\ officeDone \in 0..OfficeMaxOps[bureauMode]

\* Everything is answered, the newest of the reads last, and nothing else has
\* happened since.
BureauSettled ==
    BureauShown /\ officeCalls = <<>> /\ officePage.nr = officeReads /\ ~officePage.doubt

\* The page offers to archive what the server lets it archive, except for an
\* office whose children are all archived, and to reactivate what has no
\* archived parent.
BureauOffersAccepted ==
    /\ CanArchive => BureauAccepts(Here, OfLevel("archive"))
    /\ BureauAccepts(Here, OfLevel("archive")) /\ ~CanArchive =>
           \A child \in officePage.seen.children : child[2] = "archived"
    /\ BureauAccepts(Here, OfLevel("reactivate")) <=>
           CanReactivate /\ (offices[Here].parent # Nil => IsActive(offices[Here].parent))
    /\ \A s \in BureauStaff :
           CanApprove(s) <=> BureauAccepts(Here, [BureauSent("approve") EXCEPT !.who = s])

\* The form that would be opened leaves the office where it is.
FormFits ==
    BureauCanEdit /\ bureauMode \in {"patient", "hasty"} =>
        /\ FormParent = offices[Here].parent
        /\ BureauAccepts(Here, [BureauSent("save") EXCEPT !.parent = FormParent])

\* A settled page shows the office, its children, staff and history as the
\* server has them, whatever was sent, refused, lost and sent again before;
\* its buttons fit, and its form moves the office only if the user does.
BureauScreenTrue ==
    BureauSettled => officePage.seen = TheDetail /\ BureauOffersAccepted /\ FormFits

=============================================================================
