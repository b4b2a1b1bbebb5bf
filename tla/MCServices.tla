----------------------------- MODULE MCServices -----------------------------
(***************************************************************************)
(* Small instances of the parts of Services, and the bounds of a run.      *)
(***************************************************************************)
EXTENDS Services, TLC

CONSTANTS
    x1, x2, x3,         \* ids of rows: beneficiaries, cases, bookings
    r1, r2,             \* requests, chats, tabs, and what forms are answered with
    l1, l2, l3,         \* ids of links, and of face checks
    ana, rev, appr,     \* the portal's users
    aics, slp,          \* programs
    k1, t1, t2, tpl, app

\* a workflow template with two steps, and an empty one
TwoTemplates ==
    (t1 :> {[key |-> "screening", type |-> "evaluation"],
            [key |-> "release", type |-> "disbursement"]}) @@ (t2 :> {})

\* one user for each role, and the steps of the seeded workflow
OneRoleEach == (ana :> {"applicant"}) @@ (rev :> {"reviewer"}) @@ (appr :> {"approver"})
Seeded      == <<"form", "verify", "review", "disbursement">>

\* the citizen's questions of every kind without the service; with it, two at
\* a time, or one that may end in an error
EveryKind == {"status", "slots", "details", "dates", "eligible", "navigation",
              "offtopic"}
KindsAsked == ("mock" :> EveryKind) @@ ("live" :> {"eligible"})
              @@ ("strict" :> {"status"})
AiAsked  == ("mock" :> 1) @@ ("live" :> 2) @@ ("strict" :> 1)
AiEvents == ("mock" :> 4) @@ ("live" :> 1) @@ ("strict" :> 1)

\* three citizens, one of whose profiles lacks the number
FiledMost  == ("mock" :> 2) @@ ("static" :> 2) @@ ("code" :> 1) @@ ("lossy" :> 2)
LoadsMost  == ("mock" :> 2) @@ ("static" :> 1) @@ ("code" :> 2) @@ ("lossy" :> 1)
LastMinute == ("mock" :> 0) @@ ("static" :> 3) @@ ("code" :> 3) @@ ("lossy" :> 0)

\* two windows, two claims; through the camera it takes most steps
DeskOps == ("alone" :> 8) @@ ("lossy" :> 6) @@ ("back" :> 7) @@ ("overlap" :> 6)

ASSUME PartsAssumptions == ServicesAssumptions

\* the ids that no behaviour tells apart
Ids == Permutations({x1, x2}) \cup Permutations({r1, r2})

----------------------------------------------------------------------------
\* A part that stands still is in one of few initial states.
MCInit ==
    /\ ServicesInit
    /\ part # "links" => mode = "alone"
    /\ part # "setup" => setupMode = "alone"
    /\ IF part = "assistant"
       THEN /\ aiMode = "live" => seats = {aics, slp}
            /\ aiMode = "mock" => slp \in seats
       ELSE aiMode = "mock" /\ seats = {}
    /\ part # "reports" => reportMode = "mock"
    /\ part # "desk" => deskMode = "alone"

MCNext ==
    /\ ServicesNext
    /\ setupMode = "overlap" => setupOps' <= 3       \* a bound

MCSpec == MCInit /\ [][MCNext]_servicesVars

=============================================================================
