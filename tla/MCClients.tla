------------------------------ MODULE MCClients ------------------------------
(***************************************************************************)
(* Small instances of the parts of Clients, and the bounds of a run.       *)
(***************************************************************************)
EXTENDS Clients, TLC

CONSTANTS
    ana, ben,                   \* citizens
    x1, x2,                     \* accounts, programs
    r1, r2,                     \* requests, slots
    n1,                         \* a profile change
    queue,                      \* the slot a citizen is shown
    calendar, settings          \* pages that plan

FourAndOne == (ana :> 4) @@ (ben :> 1)

(* The journeys of a citizen; with a network that loses requests they are  *)
(* shorter.                                                                *)
Long  == {{"program", "schedule", "qr"}, {"detail", "schedule", "qr"}}
Short == {{"program", "qr"}, {"detail"}}
Both  == {{"home"}, {"messages", "schedule"}}

AllJourneys == Long \cup Short \cup Both

Taps ==
    [j \in AllJourneys |-> CASE j = {"home"} -> 1
                             [] j = {"detail"} -> 2
                             [] j = {"messages", "schedule"} -> 4
                             [] OTHER -> 5]

\* what the pages plan with
PageKinds == (calendar :> "slots") @@ (settings :> "programs")
FewSpans == {<<None, None>>, <<0, 5>>, <<6, 8>>}
PlanActs == [m \in PlanModes |-> IF m = "overlap" THEN 4 ELSE 3]

ASSUME PartsAssumptions == ClientsAssumptions

\* the ids that no behaviour tells apart
Alike == Permutations({x1, x2}) \cup Permutations({r1, r2})

----------------------------------------------------------------------------
\* A part that stands still is in one of few initial states.
MCInit ==
    /\ ClientsInit
    /\ part # "profile" => mode = "alone"
    /\ IF part = "app"
       THEN /\ appMode = "lossy" => journey \notin Long
            /\ appMode = "reliable" => journey \notin Short
       ELSE journey = {"home"} /\ appMode = "reliable" /\ cases[1].status = "none"
    /\ part # "plan" =>
           planMode = "alone" /\ opened = {calendar} /\ windows = None
    /\ planMode = "overlap" /\ windows # None => windows.application_start = None

MCNext ==
    /\ ClientsNext
    /\ calls'[ana] < 4 \/ calls'[ben] = 0                  \* a bound

MCSpec == MCInit /\ [][MCNext]_clientsVars

=============================================================================
