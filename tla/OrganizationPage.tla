--------------------------- MODULE OrganizationPage ---------------------------
(***************************************************************************)
(* The page of an organization in the console of the platform_admin, and   *)
(* the form that creates one.  Each request is one transaction, after      *)
(* which the server reads the organization, its administrators and its     *)
(* audit history anew; the page shows whole what it is answered.  Several  *)
(* forms of the page may be sent before one is answered.                   *)
(***************************************************************************)
EXTENDS ConsoleBase, Naturals, SequencesExt

CONSTANTS
    OrgAdmins,  \* administrators an organization may have
    FirstAdmin, \* the one it is created with
    OrgMaxOps   \* bound: what users do, in a mode

\* what is assumed of the constants
OrgAssumptions ==
    /\ FirstAdmin \in OrgAdmins /\ Nil \notin OrgAdmins
    /\ OrgMaxOps \in [PageModes -> Nat]
    /\ PageModesKnown

VARIABLES
    server,     \* the organization, as getOrganization reads it
    orgPage,    \* the state of the page
    orgCalls,   \* the requests in flight
    orgReads,   \* how often the server has read the organization
    orgDone, orgMode

tenant == <<server, orgPage, orgCalls, orgReads, orgDone, orgMode>>

Names     == {"first", "second"}
Lifecycle == {"suspend", "reactivate", "archive"}
OfEditor  == {"contact", "suspendAdmin", "reactivateAdmin"}
OrgKinds  == {"found", "load", "save", "provision"} \cup Lifecycle \cup OfEditor

OrgAccount == [status : {"active", "suspended"}, contact : Names]

\* `absent' is no status: the organization has not been created.
Server == [status : {"absent", "active", "suspended", "archived"}, name : Names,
           staff : [OrgAdmins -> OrgAccount \cup {Nil}],
           audits : SUBSET (OrgKinds \X (OrgAdmins \cup {Nil}))]

\* `nr' and `doubt' are no state of the page: which read it shows, and whether
\* something has happened since that it has not been told.
OrgPage == [at : {"new", "detail"}, seen : Server \cup {Nil}, tab : {"admins", "other"},
            editing : BOOLEAN, adding : BOOLEAN, dialog : Lifecycle \cup {Nil},
            error : BOOLEAN, nr : Nat, doubt : BOOLEAN]

\* `mounted': the form that sent it is still on the screen.
OrgCall == [kind : OrgKinds, admin : OrgAdmins \cup {Nil}, name : Names \cup {Nil},
            stage : {"sent", "served", "read", "refused"}, mounted : BOOLEAN,
            detail : Server \cup {Nil}, nr : Nat, doubt : BOOLEAN]

----------------------------------------------------------------------------
(* The server *)

Target(action) == CASE action = "suspend" -> "suspended"
                    [] action = "reactivate" -> "active"
                    [] action = "archive" -> "archived"

\* assertOrganizationTransition
OrgTransition(current, next) ==
    \/ current = "active" /\ next \in {"suspended", "archived"}
    \/ current = "suspended" /\ next \in {"active", "archived"}

\* requireOrganizationWritable
Writable == server.status # "archived"

\* transitionAdminStatus: `is already'
OtherStatus(kind) == IF kind = "suspendAdmin" THEN "active" ELSE "suspended"

\* Whether the transaction of a request goes through; a creation that is sent
\* again finds the organization by its creation_key.
OrgAccepts(c) ==
    CASE c.kind \in {"found", "load"} -> TRUE
      [] c.kind = "save" -> Writable
      [] c.kind \in Lifecycle -> OrgTransition(server.status, Target(c.kind))
      [] c.kind = "contact" -> Writable /\ server.staff[c.admin] # Nil
      [] c.kind = "provision" ->
             server.status = "active" /\ server.staff[c.admin] = Nil
      [] OTHER -> /\ Writable /\ server.staff[c.admin] # Nil
                  /\ server.staff[c.admin].status = OtherStatus(c.kind)

Recorded(s, c) == [s EXCEPT !.audits = @ \cup {<<c.kind, c.admin>>}]

OrgNewAccount == [status |-> "active", contact |-> "first"]

\* what it writes
Effect(c) ==
    CASE c.kind = "load" -> server
      [] c.kind = "found" ->
             IF server.status # "absent" THEN server
             ELSE Recorded([server EXCEPT !.status = "active", !.name = c.name,
                                          !.staff[FirstAdmin] = OrgNewAccount], c)
      [] c.kind = "save" -> Recorded([server EXCEPT !.name = c.name], c)
      [] c.kind \in Lifecycle ->
             Recorded([server EXCEPT !.status = Target(c.kind)], c)
      [] c.kind = "contact" ->
             Recorded([server EXCEPT !.staff[c.admin].contact = c.name], c)
      [] c.kind = "provision" ->
             Recorded([server EXCEPT !.staff[c.admin] = OrgNewAccount], c)
      [] OTHER ->
             Recorded([server EXCEPT !.staff[c.admin].status =
                           IF c.kind = "suspendAdmin" THEN "suspended"
                           ELSE "active"], c)

OrgServe ==
    \E i \in DOMAIN orgCalls :
        /\ orgCalls[i].stage = "sent"
        /\ server' = IF OrgAccepts(orgCalls[i]) THEN Effect(orgCalls[i]) ELSE server
        /\ orgCalls' = [orgCalls EXCEPT ![i].stage =
                           IF OrgAccepts(orgCalls[i]) THEN "served" ELSE "refused"]
        /\ UNCHANGED <<orgPage, orgReads, orgDone, orgMode>>

\* detail, which every request ends with; a provisioning is followed by a
\* request for it.
OrgReadDetail ==
    \E i \in DOMAIN orgCalls :
        /\ orgCalls[i].stage = "served"
        /\ orgCalls' = [orgCalls EXCEPT ![i].stage = "read", ![i].detail = server,
                                        ![i].nr = orgReads + 1]
        /\ orgReads' = orgReads + 1
        /\ UNCHANGED <<server, orgPage, orgDone, orgMode>>

----------------------------------------------------------------------------
(* The requests of the page *)

OrgSent(kind, admin, name) ==
    [kind |-> kind, admin |-> admin, name |-> name, stage |-> "sent",
     mounted |-> TRUE, detail |-> Nil, nr |-> 0, doubt |-> FALSE]

OrgWaiting(kinds) ==
    \E i \in DOMAIN orgCalls : orgCalls[i].kind \in kinds /\ orgCalls[i].mounted

\* A button is disabled while its own form waits: the page has one `busy' for
\* the metadata and the dialog, each editor and the form another.
OrgPageBusy   == OrgWaiting({"save"} \cup Lifecycle)
EditorBusy(a) == \E i \in DOMAIN orgCalls :
                    /\ orgCalls[i].kind \in OfEditor
                    /\ orgCalls[i].admin = a /\ orgCalls[i].mounted
FormBusy      == OrgWaiting({"provision"})

\* The form of a request that succeeds closes, if it is still there.
OrgClosed(c) ==
    CASE c.kind = "found" -> [orgPage EXCEPT !.at = "detail", !.seen = Nil]
      [] c.kind = "load" -> orgPage
      [] c.kind = "save" -> [orgPage EXCEPT !.editing = FALSE]
      [] c.kind \in Lifecycle -> [orgPage EXCEPT !.dialog = Nil]
      [] c.kind = "provision" /\ c.mounted -> [orgPage EXCEPT !.adding = FALSE]
      [] OTHER -> orgPage

\* The fault: the page changes the row it has and leaves the rest.
ShowRow(c) == [OrgClosed(c) EXCEPT
    !.seen = IF orgPage.seen = Nil \/ c.admin = Nil THEN c.detail
             ELSE [orgPage.seen EXCEPT !.staff[c.admin] = c.detail.staff[c.admin]],
    !.nr = c.nr, !.doubt = c.doubt]

\* setOrganization: whatever is answered is shown whole.
OrgShow(c) == [OrgClosed(c) EXCEPT !.seen = c.detail, !.nr = c.nr, !.doubt = c.doubt]

OrgAnswer ==
    \E i \in DOMAIN orgCalls :
        LET c == orgCalls[i] IN
        /\ c.stage = "read"
        /\ IF c.kind = "found"
           THEN /\ orgPage' = OrgClosed(c)
                /\ orgCalls' = Append(RemoveAt(orgCalls, i), OrgSent("load", Nil, Nil))
           ELSE /\ orgPage' = OrgShow(c)
                /\ orgCalls' = RemoveAt(orgCalls, i)
        /\ UNCHANGED <<server, orgReads, orgDone, orgMode>>

OrgRefuse ==
    \E i \in DOMAIN orgCalls :
        /\ orgCalls[i].stage = "refused"
        /\ orgPage' = [orgPage EXCEPT !.error = TRUE]
        /\ orgCalls' = RemoveAt(orgCalls, i)
        /\ UNCHANGED <<server, orgReads, orgDone, orgMode>>

\* A request, or its answer, is lost.
OrgLose ==
    \E i \in DOMAIN orgCalls :
        /\ orgMode = "lossy"
        /\ orgCalls[i].stage \in {"sent", "read"}
        /\ orgPage' = [orgPage EXCEPT !.error = TRUE, !.doubt = TRUE]
        /\ orgCalls' = RemoveAt(orgCalls, i)
        /\ UNCHANGED <<server, orgReads, orgDone, orgMode>>

----------------------------------------------------------------------------
(* What the user does; all but a hasty one wait for the answer. *)

OrgUserActs ==
    /\ orgDone < OrgMaxOps[orgMode]
    /\ orgMode # "hasty" => orgCalls = <<>>
    /\ orgDone' = orgDone + 1
    /\ UNCHANGED <<server, orgReads, orgMode>>

OrgSubmit(kind, admin, name) ==
    /\ OrgUserActs
    /\ orgCalls' = Append(orgCalls, OrgSent(kind, admin, name))
    /\ orgPage' = [orgPage EXCEPT !.error = FALSE]

\* the new page: the key of the form stays the same when it is sent again
OrgCreateOrganization ==
    /\ orgPage.at = "new" /\ ~OrgWaiting({"found"})
    /\ \E name \in Names : OrgSubmit("found", Nil, name)

\* `Organization unavailable'
OrgRetry ==
    /\ orgPage.at = "detail" /\ orgPage.seen = Nil
    /\ ~OrgWaiting({"load"})
    /\ OrgSubmit("load", Nil, Nil)

OrgShown == orgPage.at = "detail" /\ orgPage.seen # Nil

\* A dialog covers the page.
Reachable == OrgShown /\ orgPage.dialog = Nil

\* The forms of the administrators are gone with their tab, and what they
\* have sent is answered to the page alone.
OrgPickTab ==
    /\ Reachable
    /\ OrgUserActs
    /\ orgPage' = [orgPage EXCEPT !.tab = IF @ = "admins" THEN "other" ELSE "admins",
                                  !.adding = FALSE]
    /\ orgCalls' = [i \in DOMAIN orgCalls |->
                       [orgCalls[i] EXCEPT !.mounted =
                           @ /\ orgCalls[i].kind \notin OfEditor \cup {"provision"}]]

OrgCanEdit == orgPage.seen.status # "archived"

ToggleEdit ==
    /\ Reachable /\ OrgCanEdit
    /\ OrgUserActs
    /\ orgPage' = [orgPage EXCEPT !.editing = ~@]
    /\ UNCHANGED orgCalls

SaveOrganization ==
    /\ Reachable /\ orgPage.editing /\ ~OrgPageBusy
    /\ \E name \in Names : OrgSubmit("save", Nil, name)

\* the buttons of the lifecycle tab
Offers(action) ==
    CASE action = "suspend" -> orgPage.seen.status = "active"
      [] action = "reactivate" -> orgPage.seen.status = "suspended"
      [] action = "archive" -> orgPage.seen.status \in {"active", "suspended"}

OrgOpenDialog ==
    /\ Reachable /\ orgPage.tab = "other"
    /\ OrgUserActs
    /\ \E action \in {action \in Lifecycle : Offers(action)} :
           orgPage' = [orgPage EXCEPT !.dialog = action]
    /\ UNCHANGED orgCalls

CloseDialog ==
    /\ orgPage.dialog # Nil
    /\ OrgUserActs
    /\ orgPage' = [orgPage EXCEPT !.dialog = Nil]
    /\ UNCHANGED orgCalls

OrgApplyLifecycle ==
    /\ OrgShown /\ orgPage.dialog # Nil /\ ~OrgPageBusy
    /\ OrgSubmit(orgPage.dialog, Nil, Nil)

\* What the editor of an administrator offers, also in an archived
\* organization.
EditorOffers(kind, a) ==
    /\ orgPage.tab = "admins" /\ orgPage.seen.staff[a] # Nil
    /\ kind # "contact" => orgPage.seen.staff[a].status = OtherStatus(kind)

OrgSaveAdmin ==
    \E a \in OrgAdmins, name \in Names :
        /\ OrgShown /\ EditorOffers("contact", a) /\ ~EditorBusy(a)
        /\ OrgSubmit("contact", a, name)

SuspendAdmin ==
    \E a \in OrgAdmins :
        /\ OrgShown /\ EditorOffers("suspendAdmin", a) /\ ~EditorBusy(a)
        /\ OrgSubmit("suspendAdmin", a, Nil)

ReactivateAdmin ==
    \E a \in OrgAdmins :
        /\ OrgShown /\ EditorOffers("reactivateAdmin", a) /\ ~EditorBusy(a)
        /\ OrgSubmit("reactivateAdmin", a, Nil)

CanAdd == orgPage.seen.status = "active"

ToggleForm ==
    /\ OrgShown /\ orgPage.tab = "admins"
    /\ IF orgPage.adding THEN ~FormBusy ELSE CanAdd
    /\ OrgUserActs
    /\ orgPage' = [orgPage EXCEPT !.adding = ~@]
    /\ UNCHANGED orgCalls

\* an e-mail that the page has not seen
CreateAdmin ==
    \E a \in OrgAdmins :
        /\ OrgShown /\ orgPage.tab = "admins" /\ orgPage.adding /\ ~FormBusy
        /\ orgPage.seen.staff[a] = Nil
        /\ OrgSubmit("provision", a, Nil)

----------------------------------------------------------------------------
\* Another administrator of the platform.
OrgOthersAct ==
    /\ orgMode = "shared"
    /\ orgDone < OrgMaxOps[orgMode]
    /\ orgDone' = orgDone + 1
    /\ \E kind \in OrgKinds \ {"found", "load"}, a \in OrgAdmins, name \in Names :
           LET c == OrgSent(kind,
                            IF kind \in OfEditor \cup {"provision"} THEN a ELSE Nil,
                            name) IN
           OrgAccepts(c) /\ server.status # "absent" /\ server' = Effect(c)
    /\ orgPage' = [orgPage EXCEPT !.doubt = TRUE]
    /\ orgCalls' = [i \in DOMAIN orgCalls |->
                       [orgCalls[i] EXCEPT !.doubt = orgCalls[i].stage = "read"]]
    /\ UNCHANGED <<orgReads, orgMode>>

\* The form is opened, or the page of an organization with its first request
\* on its way.
OrgInit ==
    /\ \E status \in {"absent", "active", "suspended"} :
           /\ server = [status |-> status, name |-> "first",
                        staff |-> [a \in OrgAdmins |->
                                      IF a = FirstAdmin /\ status # "absent"
                                      THEN OrgNewAccount ELSE Nil],
                        audits |-> {}]
           /\ orgPage = [at |-> IF status = "absent" THEN "new" ELSE "detail",
                         seen |-> Nil, tab |-> "other", editing |-> FALSE,
                         adding |-> FALSE, dialog |-> Nil, error |-> FALSE,
                         nr |-> 0, doubt |-> FALSE]
           /\ orgCalls = IF status = "absent" THEN <<>>
                         ELSE <<OrgSent("load", Nil, Nil)>>
    /\ orgReads = 0 /\ orgDone = 0
    /\ orgMode \in PageModes

OrgNext ==
    \/ OrgServe \/ OrgReadDetail \/ OrgAnswer \/ OrgRefuse \/ OrgLose
    \/ OrgCreateOrganization \/ OrgRetry
    \/ OrgPickTab \/ ToggleEdit \/ SaveOrganization
    \/ OrgOpenDialog \/ CloseDialog \/ OrgApplyLifecycle
    \/ OrgSaveAdmin \/ SuspendAdmin \/ ReactivateAdmin \/ ToggleForm \/ CreateAdmin
    \/ OrgOthersAct

OrgSpec == OrgInit /\ [][OrgNext]_tenant

----------------------------------------------------------------------------
OrgTypeOK ==
    /\ server \in Server
    /\ orgPage \in OrgPage
    /\ orgCalls \in Seq(OrgCall)
    /\ orgReads \in Nat /\ orgDone \in 0..OrgMaxOps[orgMode] /\ orgMode \in PageModes

\* Everything is answered, the newest of the reads last, and nothing else has
\* happened since.
OrgSettled == OrgShown /\ orgCalls = <<>> /\ orgPage.nr = orgReads /\ ~orgPage.doubt

\* What the page offers is what the server accepts, and it is all of it; the
\* editors of an archived organization are the exception.
OrgOffersAccepted ==
    /\ \A action \in Lifecycle :
           Offers(action) <=> OrgAccepts(OrgSent(action, Nil, Nil))
    /\ OrgCanEdit <=> OrgAccepts(OrgSent("save", Nil, "first"))
    /\ \A a \in OrgAdmins :
           /\ CanAdd /\ orgPage.seen.staff[a] = Nil
              <=> OrgAccepts(OrgSent("provision", a, Nil))
           /\ Writable /\ orgPage.tab = "admins" =>
                  \A kind \in OfEditor :
                      EditorOffers(kind, a) <=> OrgAccepts(OrgSent(kind, a, "first"))

\* A settled page shows the organization, its administrators and its history
\* as the server has them, whatever was sent, refused, lost and sent again
\* before, and its buttons fit.
OrgScreenTrue == OrgSettled => orgPage.seen = server /\ OrgOffersAccepted

=============================================================================
