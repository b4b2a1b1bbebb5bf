----------------------------- MODULE ClaimDesk -----------------------------
(***************************************************************************)
(* The cash windows of an office: the page that scans a claim code, sends  *)
(* the beneficiary to a face check on the same device, and comes back with *)
(* its token to complete the claim (DisbursementValidateClient and         *)
(* ClaimQrScanner), and the three endpoints it calls.                      *)
(*                                                                         *)
(* Between the page and the page that comes back the claim waits in one    *)
(* slot of the tab's storage.  Answers are lost, the page is loaded again, *)
(* the browser goes back from the face check, and two windows serve the    *)
(* same claim.  The statements a validation writes are one step here;      *)
(* DisbursementBooking takes them apart.                                   *)
(***************************************************************************)
EXTENDS Naturals, FiniteSets

CONSTANTS
    Desks,      \* tabs with the page open
    Bookings,   \* bookings at the window's office, each with its claim code
    Sessions,   \* ids of face checks
    MaxOps,     \* bound, by mode: what staff and beneficiaries do
    Modes,      \* "alone": a request at a time; "lossy": and answers are lost;
                \* "back": and staff leave a face check with the back button;
                \* "overlap": requests overlap
    None

\* what is assumed of the constants
Assumptions ==
    /\ None \notin Bookings \cup Sessions
    /\ Modes \subseteq {"alone", "lossy", "back", "overlap"}
    /\ MaxOps \in [Modes -> Nat]

VARIABLES
    status,     \* bookings
    claim,      \* the face check of a booking's claim record, or None
    session,    \* face checks: whose claim it was started for, and its result
    desk,       \* the tabs
    released,   \* history: how often a window showed that the claim is done now
    ops, mode

vars == <<status, claim, session, desk, released, ops, mode>>

Calls == [kind : {"preview", "start", "validate"}, booking : Bookings,
          session : Sessions \cup {None},
          step : {"sent", "checked", "error", "ready", "done", "first"}]

Cards == [booking : Bookings, first : BOOLEAN]

\* A tab: where it is, the ?token= of the page and of the one left for the face
\* check, the check, ehelp_claim_pending, the page's state, and its requests.
Tab == [at : {"page", "face"}, token : Sessions \cup {None},
        back : Sessions \cup {None}, face : Sessions \cup {None},
        pending : Bookings \cup {None}, field : Bookings \cup {None},
        preview : Bookings \cup {None}, result : Cards \cup {None},
        camera : BOOLEAN, calls : SUBSET Calls]

TypeOK ==
    /\ status \in [Bookings -> {"booked", "claimed", "moved"}]
    /\ claim \in [Bookings -> Sessions \cup {None}]
    /\ session \in [Sessions -> [booking : Bookings \cup {None},
                                 result : {"pending", "passed", "failed"}]]
    /\ desk \in [Desks -> Tab]
    /\ released \in [Bookings -> Nat]
    /\ ops \in 0..MaxOps[mode] /\ mode \in Modes

\* the tab when the page is opened
EmptyPage == [at |-> "page", token |-> None, back |-> None, face |-> None,
              pending |-> None, field |-> None, preview |-> None, result |-> None,
              camera |-> FALSE, calls |-> {}]

Init ==
    /\ status = [b \in Bookings |-> "booked"]
    /\ claim = [b \in Bookings |-> None]
    /\ session = [s \in Sessions |-> [booking |-> None, result |-> "pending"]]
    /\ desk = [d \in Desks |-> EmptyPage]
    /\ released = [b \in Bookings |-> 0]
    /\ ops = 0
    /\ mode \in Modes

Server == <<status, claim, session>>

Does ==
    /\ ops < MaxOps[mode]
    /\ ops' = ops + 1
    /\ UNCHANGED mode

\* Without overlap a request is answered before anybody does anything else.
Quiet(D) == mode = "overlap" \/ \A d \in D : desk[d].calls = {}

Call(kind, b, s) == [kind |-> kind, booking |-> b, session |-> s, step |-> "sent"]

----------------------------------------------------------------------------
(* The page *)

busy(d) == desk[d].calls # {}
OnPage(d) == desk[d].at = "page"

\* The page is loaded with a token, or without one: a token is taken to the
\* server at once, for the claim that is pending.
Mounted(pending, s) ==
    [EmptyPage EXCEPT
        !.token = s, !.pending = pending,
        !.calls = IF s # None /\ pending # None
                  THEN {Call("validate", pending, s)} ELSE {}]

Type(d, b) ==
    /\ OnPage(d) /\ ~busy(d) /\ desk[d].field # b /\ Quiet(Desks)
    /\ desk' = [desk EXCEPT ![d].field = b]
    /\ Does /\ UNCHANGED <<Server, released>>

OpenCamera(d) ==
    /\ OnPage(d) /\ ~busy(d) /\ ~desk[d].camera /\ Quiet(Desks)
    /\ desk' = [desk EXCEPT ![d].camera = TRUE]
    /\ Does /\ UNCHANGED <<Server, released>>

LooksUp(d, b) ==
    [desk[d] EXCEPT !.field = b, !.result = None, !.preview = None,
                    !.calls = @ \cup {Call("preview", b, None)}]

\* The camera hands over one code and is closed, whatever is under way.
Scan(d, b) ==
    /\ OnPage(d) /\ desk[d].camera /\ Quiet(Desks)
    /\ desk' = [desk EXCEPT ![d] = [LooksUp(d, b) EXCEPT !.camera = FALSE]]
    /\ UNCHANGED <<Server, released, ops, mode>>

lookupClaim(d) ==
    /\ OnPage(d) /\ ~busy(d) /\ desk[d].field # None /\ Quiet(Desks)
    /\ desk' = [desk EXCEPT ![d] = LooksUp(d, desk[d].field)]
    /\ Does /\ UNCHANGED <<Server, released>>

\* startFaceLiveness of the card `Claimant ready', for the claim in the field
startFaceLiveness(d) ==
    /\ OnPage(d) /\ ~busy(d) /\ Quiet(Desks)
    /\ desk[d].preview # None /\ desk[d].result = None /\ desk[d].field # None
    /\ desk' = [desk EXCEPT
                  ![d].calls = @ \cup {Call("start", desk[d].field, None)}]
    /\ Does /\ UNCHANGED <<Server, released>>

Reload(d) ==
    /\ OnPage(d) /\ \A c \in desk[d].calls : c.step # "checked"
    /\ Quiet(IF mode = "lossy" THEN Desks \ {d} ELSE Desks)
    /\ desk' = [desk EXCEPT ![d] = Mounted(desk[d].pending, desk[d].token)]
    /\ Does /\ UNCHANGED <<Server, released>>

\* The face check is done, and its page redirects back with the token.
FaceDone(d, result) ==
    LET s == desk[d].face IN
    /\ desk[d].at = "face" /\ Quiet(Desks)
    /\ session' = [session EXCEPT ![s].result = result]
    /\ desk' = [desk EXCEPT ![d] = Mounted(desk[d].pending, s)]
    /\ Does /\ UNCHANGED <<status, claim, released>>

\* The face check is left for the page it was started on.
Back(d) ==
    /\ mode = "back" /\ desk[d].at = "face" /\ Quiet(Desks)
    /\ desk' = [desk EXCEPT ![d] = Mounted(desk[d].pending, desk[d].back)]
    /\ Does /\ UNCHANGED <<Server, released>>

----------------------------------------------------------------------------
(* The server *)

Becomes(d, c, step) ==
    desk' = [desk EXCEPT ![d].calls = (@ \ {c}) \cup {[c EXCEPT !.step = step]}]

isClaimDone(b) == status[b] = "claimed"

\* loadClaimBooking: a booking is found by its code, which a booking that is
\* moved to another slot has no longer.
Recognized(b) == status[b] # "moved"

\* assertClaimReadyToComplete
Ready(b) == status[b] = "booked"

\* previewDisbursementClaim
Preview(d, c) ==
    /\ c.kind = "preview" /\ c.step = "sent"
    /\ Becomes(d, c, CASE ~Recognized(c.booking) -> "error"
                       [] isClaimDone(c.booking) -> "done"
                       [] Ready(c.booking)       -> "ready")
    /\ UNCHANGED <<Server, released, ops, mode>>

Unused == {s \in Sessions : session[s].booking = None}

\* startClaimLivenessSession: the session is stored with the claim
StartSession(d, c) ==
    /\ c.kind = "start" /\ c.step = "sent"
    /\ \/ /\ ~Ready(c.booking)
          /\ Becomes(d, c, IF isClaimDone(c.booking) THEN "done" ELSE "error")
          /\ UNCHANGED session
       \/ /\ Ready(c.booking)
          /\ \E s \in Unused :
                /\ session' = [session EXCEPT ![s].booking = c.booking]
                /\ desk' = [desk EXCEPT ![d].calls =
                     (@ \ {c}) \cup {[c EXCEPT !.step = "ready", !.session = s]}]
    /\ UNCHANGED <<status, claim, released, ops, mode>>

\* The fault: any result of the face check will do.
Answered(s) == session[s].result # "pending"

Passed(s) == session[s].result = "passed"

\* validateDisbursementClaim: a claim that is done is only shown; a face check
\* that did not pass is refused; then booking, case and record are written.
Validate(d, c) ==
    /\ c.kind = "validate" /\ c.step = "sent"
    /\ Becomes(d, c, CASE ~Recognized(c.booking)                 -> "error"
                       [] isClaimDone(c.booking)                -> "done"
                       [] Ready(c.booking) /\ Passed(c.session) -> "checked"
                       [] OTHER                                 -> "error")
    /\ UNCHANGED <<Server, released, ops, mode>>

WriteClaim(d, c) ==
    /\ c.step = "checked"
    /\ status' = [status EXCEPT ![c.booking] = "claimed"]
    /\ claim' = [claim EXCEPT ![c.booking] = c.session]
    /\ Becomes(d, c, "first")
    /\ UNCHANGED <<session, released, ops, mode>>

\* The citizen moves the booking to another slot, and it gets a code that is
\* not followed here.
Rebook(b) ==
    /\ status[b] = "booked"
    /\ \A d \in Desks : desk[d].calls = {}
    /\ status' = [status EXCEPT ![b] = "moved"]
    /\ Does /\ UNCHANGED <<claim, session, desk, released>>

----------------------------------------------------------------------------
(* The answers *)

Without(d, c) == [desk[d] EXCEPT !.calls = @ \ {c}]

Card(b, first) == [booking |-> b, first |-> first]

Failed(d, c) ==
    /\ c.step = "error" \/ (mode = "lossy" /\ c.step # "checked")
    /\ desk' = [desk EXCEPT ![d] = Without(d, c)]
    /\ UNCHANGED <<Server, released, ops, mode>>

Previewed(d, c) ==
    /\ c.kind = "preview" /\ c.step \in {"ready", "done"}
    /\ desk' = [desk EXCEPT ![d] =
         IF c.step = "ready" THEN [Without(d, c) EXCEPT !.preview = c.booking]
         ELSE [Without(d, c) EXCEPT !.result = Card(c.booking, FALSE)]]
    /\ UNCHANGED <<Server, released, ops, mode>>

\* The claim waits in the tab's storage, and the tab goes to the face check.
Started(d, c) ==
    /\ c.kind = "start" /\ c.step \in {"ready", "done"}
    /\ desk' = [desk EXCEPT ![d] =
         IF c.step = "done" THEN [Without(d, c) EXCEPT !.result = Card(c.booking, FALSE)]
         ELSE [EmptyPage EXCEPT !.at = "face", !.face = c.session,
                                !.back = desk[d].token,
                                !.pending = c.booking]]
    /\ UNCHANGED <<Server, released, ops, mode>>

\* finish: the card, the storage and the page's address are cleared
Finished(d, c) ==
    /\ c.kind = "validate" /\ c.step \in {"first", "done"}
    /\ desk' = [desk EXCEPT ![d] =
         [Without(d, c) EXCEPT !.result = Card(c.booking, c.step = "first"),
                               !.pending = None, !.preview = None, !.field = None,
                               !.token = None]]
    /\ released' = [released EXCEPT ![c.booking] = IF c.step = "first" THEN @ + 1 ELSE @]
    /\ UNCHANGED <<Server, ops, mode>>

Next ==
    \/ \E d \in Desks :
        \/ \E b \in Bookings : Type(d, b) \/ Scan(d, b)
        \/ OpenCamera(d) \/ lookupClaim(d) \/ startFaceLiveness(d) \/ Reload(d)
        \/ \E result \in {"passed", "failed"} : FaceDone(d, result)
        \/ Back(d)
        \/ \E c \in desk[d].calls :
            \/ Preview(d, c) \/ StartSession(d, c) \/ Validate(d, c)
            \/ WriteClaim(d, c)
            \/ Failed(d, c) \/ Previewed(d, c) \/ Started(d, c) \/ Finished(d, c)
    \/ \E b \in Bookings : Rebook(b)

Spec == Init /\ [][Next]_vars

----------------------------------------------------------------------------
\* A card that says `claimed' is of a booking that is, with a record of a face
\* check that was passed.
ShownIsRecorded ==
    \A d \in Desks :
        desk[d].result # None =>
            LET b == desk[d].result.booking
            IN  /\ status[b] = "claimed" /\ claim[b] # None
                /\ session[claim[b]].result = "passed"

\* Unless requests overlap, one window at most is told that the claim is done
\* now and the cash is to be released, however often staff try again.
ReleasedOnce == mode # "overlap" => \A b \in Bookings : released[b] <= 1

\* The face check on record was started for that claim: the claim that is
\* pending in the tab is that of the token it comes back with.
FaceOfClaimant ==
    \A b \in Bookings : claim[b] # None => session[claim[b]].booking = b

\* What is handed out at a window.  A tab that left a face check with the back
\* button brings an old token to a newer pending claim.
DeskSound ==
    ShownIsRecorded /\ ReleasedOnce /\ (mode # "back" => FaceOfClaimant)

=============================================================================
