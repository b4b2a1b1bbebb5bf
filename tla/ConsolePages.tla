---------------------------- MODULE ConsolePages ----------------------------
(***************************************************************************)
(* Pages of the console side by side: the permission page (OfficeGrants),  *)
(* the lists (AdminLists), the page of an organization (OrganizationPage)  *)
(* and that of an office (OfficePage).  They share no state: a behaviour   *)
(* belongs to one of them, its `shownPage', while the others stand still.  *)
(***************************************************************************)
EXTENDS OfficeGrants, AdminLists, OrganizationPage, OfficePage

VARIABLE shownPage

consoleVars == <<shownPage, matrix, lists, tenant, office>>

ConsoleAssumptions ==
    MatrixAssumptions /\ ListAssumptions /\ OrgAssumptions /\ BureauAssumptions

----------------------------------------------------------------------------
PagesOfConsole == {"grants", "lists", "tenant", "office"}

\* A page that stands still is in one of its initial states.
ConsoleInit ==
    /\ shownPage \in PagesOfConsole \cup {"none"}
    /\ MatrixInit
    /\ ListInit
    /\ OrgInit
    /\ BureauInit

ConsoleNext ==
    \/ /\ shownPage = "grants"
       /\ MatrixNext
       /\ UNCHANGED <<shownPage, lists, tenant, office>>
    \/ /\ shownPage = "lists"
       /\ ListNext
       /\ UNCHANGED <<shownPage, matrix, tenant, office>>
    \/ /\ shownPage = "tenant"
       /\ OrgNext
       /\ UNCHANGED <<shownPage, matrix, lists, office>>
    \/ /\ shownPage = "office"
       /\ BureauNext
       /\ UNCHANGED <<shownPage, matrix, lists, tenant>>

ConsoleSpec == ConsoleInit /\ [][ConsoleNext]_consoleVars

----------------------------------------------------------------------------
(* The properties of the pages, each explained in its module *)

PagesTypeOK == MatrixTypeOK /\ ListTypeOK /\ OrgTypeOK /\ BureauTypeOK

\* What a settled page shows is what the server has, and what the pages of an
\* organization and of an office offer is what it would accept.
PagesShowServer ==
    MatrixScreenTrue /\ ListScreenTrue /\ OrgScreenTrue /\ BureauScreenTrue

=============================================================================
