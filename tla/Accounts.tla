------------------------------ MODULE Accounts ------------------------------
(***************************************************************************)
(* An organization with its staff accounts, its offices and what its       *)
(* people may do, the pages of the console they are managed on, and the    *)
(* face check of a citizen, side by side: a behaviour belongs to one of    *)
(* Organizations, OfficeHierarchy, AccessPolicy, ConsolePages and          *)
(* FaceLiveness, its `part', while the others stand still.                 *)
(***************************************************************************)
EXTENDS Organizations, OfficeHierarchy, AccessPolicy, ConsolePages

CONSTANTS FaceSessions, MaxCaptures, FaceCalls, FaceModes

VARIABLES
    part,
    row, provider, captured, failures, recorded, enrolled, phone, faceCall,
    waiting, faceMode

face == <<row, provider, captured, failures, recorded, enrolled, phone,
          faceCall, waiting, faceMode>>

Face == INSTANCE FaceLiveness WITH
    Sessions <- FaceSessions, Calls <- FaceCalls, Modes <- FaceModes,
    call <- faceCall, mode <- faceMode

AccountsAssumptions ==
    Assumptions /\ PolicyAssumptions /\ ConsoleAssumptions /\ Face!Assumptions

----------------------------------------------------------------------------
Parts == {"tenancy", "offices", "access", "console", "face"}

\* A part that stands still is in one of its initial states.
AccountsInit ==
    /\ part \in Parts
    /\ Init
    /\ OfficesInit
    /\ PolicyInit
    /\ ConsoleInit
    /\ part # "console" => shownPage = "none"
    /\ Face!Init

AccountsNext ==
    \/ /\ part = "tenancy"
       /\ Next
       /\ UNCHANGED <<part, officeVars, policyVars, consoleVars, face>>
    \/ /\ part = "offices"
       /\ OfficesNext
       /\ UNCHANGED <<part, vars, policyVars, consoleVars, face>>
    \/ /\ part = "access"
       /\ PolicyNext
       /\ UNCHANGED <<part, vars, officeVars, consoleVars, face>>
    \/ /\ part = "face"
       /\ Face!Next
       /\ UNCHANGED <<part, vars, officeVars, policyVars, consoleVars>>
    \/ /\ part = "console"
       /\ ConsoleNext
       /\ UNCHANGED <<part, vars, officeVars, policyVars, face>>

accountsVars == <<part, vars, officeVars, policyVars, consoleVars, face>>

AccountsSpec == AccountsInit /\ [][AccountsNext]_accountsVars

----------------------------------------------------------------------------
(* The properties of the parts, each explained in its module *)

\* The variables of every part are of their types.
AllTypesOK == TypeOK /\ OfficesTypeOK /\ PagesTypeOK /\ Face!TypeOK

\* A face check that passed is one the backend can enrol with, and nobody is
\* logged in without one.
FaceCheckSound == Face!FaceCheckSound

\* What a comment says of the retry; the code does not.
FreshCapturePerQuery == Face!FreshCapturePerQuery

=============================================================================
