------------------------------ MODULE Services ------------------------------
(***************************************************************************)
(* Dependents, ProgramSetup, ApplicantPortal, Assistant, Complaints and    *)
(* ClaimDesk side by side: they share no row that both of two write, so a  *)
(* behaviour belongs to one of them, its `part', while the others stand    *)
(* still.                                                                  *)
(***************************************************************************)
EXTENDS Dependents

\* each explained in its module
CONSTANTS
    SetupRequests, Cases, SetupKeys, SetupTemplates, TemplateSteps,
    SetupMaxOps, SetupModes,
    Tabs, Users, Roles, RolesOf, Templates, Applications, Keys, Values,
    SeedTypes, MaxEdits, MaxVersions, MaxSteps, MaxResults,
    Chats, Programs, First, AiKinds, AiLife, MaxAsked, MaxEvents, AiLastTime,
    AiModes,
    Citizens, Complete, ReportRequests, LocalNumbers, ReportLife, MaxFiled,
    MaxLoads, ReportLastTime, ReportModes,
    Desks, Bookings, Sessions, DeskMaxOps, DeskModes

VARIABLES
    part,
    program, config, saved, engine, steps, form, fields, answered, case, task,
    setupPc, setupCall, setupOps, setupMode,
    tab, storage, edits,
    cases, booking, seats, aiToken, aiIssued, aiNow, chat, seen, asked, events,
    aiMode,
    table, filed, accessToken, viewToken, issued, now, request, screen, page,
    submitted, reportMode,
    status, claim, session, desk, released, deskOps, deskMode

setup  == <<program, config, saved, engine, steps, form, fields, answered,
            case, task, setupPc, setupCall, setupOps, setupMode>>
portal == <<tab, storage, edits>>
assistant == <<cases, booking, seats, aiToken, aiIssued, aiNow, chat, seen, asked,
               events, aiMode>>
reports == <<table, filed, accessToken, viewToken, issued, now, request, screen,
             page, submitted, reportMode>>
desks == <<status, claim, session, desk, released, deskOps, deskMode>>

Setup == INSTANCE ProgramSetup WITH
    Requests <- SetupRequests, Keys <- SetupKeys, Templates <- SetupTemplates,
    MaxOps <- SetupMaxOps, Modes <- SetupModes,
    pc <- setupPc, call <- setupCall, ops <- setupOps, mode <- setupMode

Portal == INSTANCE ApplicantPortal

Ai == INSTANCE Assistant WITH
    Kinds <- AiKinds, Life <- AiLife, LastTime <- AiLastTime, Modes <- AiModes,
    tokenCache <- aiToken, issued <- aiIssued, now <- aiNow, mode <- aiMode

Reports == INSTANCE Complaints WITH
    Requests <- ReportRequests, Life <- ReportLife, LastTime <- ReportLastTime,
    Modes <- ReportModes,
    tokenCache <- accessToken, viewTokenCache <- viewToken, mode <- reportMode

Desk == INSTANCE ClaimDesk WITH
    MaxOps <- DeskMaxOps, Modes <- DeskModes, ops <- deskOps, mode <- deskMode

ServicesAssumptions ==
    /\ Setup!Assumptions /\ Portal!Assumptions
    /\ Ai!Assumptions /\ Reports!Assumptions /\ Desk!Assumptions

----------------------------------------------------------------------------
Parts == {"links", "setup", "portal", "assistant", "reports", "desk"}

\* A part that stands still is in one of its initial states; nobody has
\* opened the portal.
ServicesInit ==
    /\ part \in Parts
    /\ Init
    /\ Setup!Init
    /\ IF part = "portal" THEN Portal!Init
       ELSE tab = None /\ storage = None /\ edits = None
    /\ Ai!Init
    /\ Reports!Init
    /\ Desk!Init

ServicesNext ==
    \/ /\ part = "links"
       /\ Next
       /\ UNCHANGED <<part, setup, portal, assistant, reports, desks>>
    \/ /\ part = "setup"
       /\ Setup!Next
       /\ UNCHANGED <<part, vars, portal, assistant, reports, desks>>
    \/ /\ part = "portal"
       /\ Portal!Next
       /\ UNCHANGED <<part, vars, setup, assistant, reports, desks>>
    \/ /\ part = "assistant"
       /\ Ai!Next
       /\ UNCHANGED <<part, vars, setup, portal, reports, desks>>
    \/ /\ part = "reports"
       /\ Reports!Next
       /\ UNCHANGED <<part, vars, setup, portal, assistant, desks>>
    \/ /\ part = "desk"
       /\ Desk!Next
       /\ UNCHANGED <<part, vars, setup, portal, assistant, reports>>

servicesVars == <<part, vars, setup, portal, assistant, reports, desks>>

ServicesSpec == ServicesInit /\ [][ServicesNext]_servicesVars

----------------------------------------------------------------------------
(* The properties of the parts, each explained in its module *)

\* The variables of every part are of their types.
AllTypesOK ==
    CASE part = "links"     -> TypeOK
      [] part = "setup"     -> Setup!TypeOK
      [] part = "portal"    -> Portal!TypeOK
      [] part = "assistant" -> Ai!TypeOK
      [] part = "reports"   -> Reports!TypeOK
      [] part = "desk"      -> Desk!TypeOK

\* What an administrator saved of a program is what the program has.
SettingsKept == Setup!SettingsKept

\* The engine of a version has what the cases on it need.
EngineServesCases == Setup!EngineServesCases

\* An application of the portal is at a step its pinned version has, and what
\* was approved went through every check of its version.
PinnedVersionGoverns ==
    part = "portal" => Portal!AtAStepOfItsVersion /\ Portal!ApprovedAsVerified

\* What the assistant says was so while the question was open.
ToldWasTrue == Ai!ToldWasTrue

\* A report is found under the number that was shown, and on the list.
ReportsTrackable == Reports!ReportsTrackable

\* The tokens that are cached are accepted when they are presented.
TokensAccepted == Ai!TokensAccepted /\ Reports!TokensAccepted

\* What a cash window shows is on record, is released once, and the face check
\* on record is the claimant's.
DeskSound == Desk!DeskSound

\* What comments say of the publishing of a journey, of a failed face check and
\* of the list of reports; the code does none of it.
FormFollowsJourney == Setup!FormFollowsJourney
RetryCounts == part = "portal" => Portal!RetryCounts
EveryReportListed == Reports!EveryReportListed

=============================================================================
