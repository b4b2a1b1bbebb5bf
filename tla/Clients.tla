------------------------------ MODULE Clients ------------------------------
(***************************************************************************)
(* The citizens' accounts and two clients, side by side: CitizenProfile;   *)
(* BeneficiaryApp, the mobile application of a citizen; and SlotPlanning,  *)
(* the pages of the console that plan the slots.  A behaviour belongs to   *)
(* one of them, its `part', while the others stand still.                  *)
(***************************************************************************)
EXTENDS CitizenProfile

\* each explained in its module
CONSTANTS
    AidPrograms, AppSlots, MaxCases, Journeys, AppMaxOps, AppModes,
    PlanSlots, PlanPages, KindOf, LastDay, LastToday, Spans, PlanModes,
    PlanMaxOps

VARIABLES
    part,
    cases, booked, seats, notes, shut, at, below, home, prog, qr, sched, msgs,
    detail, orphans, moved, journey, appMode, appOps,
    windows, slots, booking, today, page, planCall, load, opened, planOps, planMode

app    == <<cases, booked, seats, notes, shut, at, below, home, prog, qr, sched,
            msgs, detail, orphans, moved, journey, appMode, appOps>>
plan   == <<windows, slots, booking, today, page, planCall, load, opened,
            planOps, planMode>>

App == INSTANCE BeneficiaryApp WITH
    Programs <- AidPrograms, Slots <- AppSlots, MaxOps <- AppMaxOps,
    Modes <- AppModes, ops <- appOps, mode <- appMode

Plan == INSTANCE SlotPlanning WITH
    Slots <- PlanSlots, Pages <- PlanPages, Modes <- PlanModes,
    MaxOps <- PlanMaxOps, call <- planCall, ops <- planOps, mode <- planMode

ClientsAssumptions == Assumptions /\ App!Assumptions /\ Plan!Assumptions

----------------------------------------------------------------------------
Parts == {"profile", "app", "plan"}

\* A part that stands still is in one of its initial states.
ClientsInit ==
    /\ part \in Parts
    /\ Init
    /\ App!Init
    /\ Plan!Init

ClientsNext ==
    \/ /\ part = "profile"
       /\ Next
       /\ UNCHANGED <<part, app, plan>>
    \/ /\ part = "app"
       /\ App!Next
       /\ UNCHANGED <<part, vars, plan>>
    \/ /\ part = "plan"
       /\ Plan!Next
       /\ UNCHANGED <<part, vars, app>>

clientsVars == <<part, vars, app, plan>>

ClientsSpec == ClientsInit /\ [][ClientsNext]_clientsVars

----------------------------------------------------------------------------
(* The properties of the parts, each explained in its module *)

\* The variables of every part are of their types.
AllTypesOK ==
    CASE part = "profile" -> TypeOK
      [] part = "app"    -> App!TypeOK
      [] part = "plan"   -> Plan!TypeOK

\* What the screens of the application show is what the server has; what two
\* pages save over each other leaves gates that agree, and what a citizen and
\* the assistant are shown of the slots can be booked.
ShownIsTrue ==
    CASE part = "profile" -> TRUE
      [] part = "app"     -> App!ScreensTrue
      [] part = "plan"    -> Plan!GatesAgree

\* What a document says of the calendar page; the code does not.
CalendarStays == Plan!CalendarStays

=============================================================================
