----------------------------- MODULE MCAccounts -----------------------------
(***************************************************************************)
(* Small instances of the parts of Accounts, and the bounds of a run.      *)
(***************************************************************************)
EXTENDS Accounts, TLC

CONSTANTS
    x1, x2, x3, x4, \* ids of rows: users, offices, sessions
    r1, r2,         \* requests, whoever makes them
    t1, t2,         \* tenants
    b1, b2, b3,     \* offices
    grant,          \* a permission
    plat, chief, chief2, head   \* consoles

\* who edits permissions
TabRoles == (plat :> "platform_admin") @@ (chief :> "dswd_admin")
         @@ (chief2 :> "dswd_admin") @@ (head :> "satellite_admin")

\* what happens on the pages at most
FiveEach == [m \in GrantModes |-> 5]
ListActs == [m \in PageModes |-> CASE m = "patient" -> 3
                                   [] m = "hasty" -> 1
                                   [] OTHER -> 2]
OrgActs    == [m \in PageModes |-> IF m = "shared" THEN 3 ELSE 4]
OfficeActs == [m \in PageModes |-> IF m \in {"lossy", "shared"} THEN 2 ELSE 3]

\* the ids that no behaviour tells apart
Alike == Permutations({x1, x2}) \cup Permutations({r1, r2})

ASSUME PartsAssumptions == AccountsAssumptions

----------------------------------------------------------------------------
\* The initial states of the pages that are looked at, ...
FewPages ==
    /\ MatrixInit
    /\ IF shownPage = "grants"
       THEN grantMode = "overlap" =>
                /\ template = {<<"satellite_admin", grant>>, <<"evaluator", grant>>}
                /\ consoles \in {{chief, head}, {chief, chief2}, {plat, chief}}
       ELSE grantMode = "alone" /\ consoles = {chief} /\ template = {}
    /\ ListInit
    /\ IF shownPage = "lists"
       THEN /\ listRows # <<>> => listRows[1].named
            /\ listMode # "patient" => list \in {"organizations", "admins"}
       ELSE listMode = "patient" /\ list = "organizations" /\ listRows = <<>>
    /\ OrgInit
    /\ shownPage # "tenant" => orgMode = "patient" /\ server.status = "absent"
    /\ BureauInit
    /\ \A o \in {b2, b3} : offices[o].level = "local"
    /\ shownPage # "office" =>
           /\ bureauMode = "patient"
           /\ \A o \in BureauOffices : /\ offices[o].parent = Nil
                                       /\ offices[o].status = "active"
           /\ offices[b1].level = "local"
           /\ staff = [s \in BureauStaff |-> "pending"]

\* ... and those of AccountsInit: a part that stands still has few of them.
MCInit ==
    /\ part \in Parts
    /\ Init
    /\ part # "tenancy" => mode = "alone"
    /\ OfficesInit
    /\ part # "offices" =>
           officeMode = "alone" /\ \A o \in Offices : status[o] = "absent"
    /\ PolicyInit
    /\ shownPage \in IF part = "console" THEN PagesOfConsole ELSE {"none"}
    /\ FewPages
    /\ Face!Init
    /\ part # "face" => faceMode = "reliable"

MCNext ==
    /\ AccountsNext
    /\ consoles = {chief, chief2} => grantOps' <= 4       \* a bound

MCSpec == MCInit /\ [][MCNext]_accountsVars

=============================================================================
