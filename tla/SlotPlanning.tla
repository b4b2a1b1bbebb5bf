---------------------------- MODULE SlotPlanning ----------------------------
(***************************************************************************)
(* When a program may be applied for, reviewed and paid out                *)
(* (period-windows.ts), the slots it is paid out in, and the two pages     *)
(* that plan them: the disbursement schedule, which edits the              *)
(* disbursement window and the slots, and the programs page, which edits   *)
(* all windows.  Either page sends the whole set of windows, from what it  *)
(* has loaded.  Seats and queues are DisbursementBooking's, races between  *)
(* two saves of a program are ProgramSetup's: a request is one step here.  *)
(***************************************************************************)
EXTENDS Integers, FiniteSets, FiniteSetsExt

CONSTANTS
    Slots,
    Pages, KindOf,  \* open pages, each of the kind "slots" or "programs"
    LastDay,        \* bound: the last day of the calendar
    LastToday,      \* bound: the last day that dawns
    Spans,          \* <<start, end>>: what users put into a form
    Modes,          \* "alone", "overlap" and "lossy", see Init
    MaxOps,         \* bound: what users do on the pages, in a mode
    None

\* A slot takes its day, from the first of two instants to the second.
LeadDays   == 2
Days       == 0..LastDay
Morning(d) == 2 * d
Evening(d) == 2 * d + 1
DayOf(t)   == t \div 2
Instants   == 0..Evening(LastDay)

\* what is assumed of the constants
Assumptions ==
    /\ KindOf \in [Pages -> {"slots", "programs"}]
    /\ LastDay \in Nat /\ LastToday \in Days /\ MaxOps \in [Modes -> Nat]
    /\ LeadDays \in Days /\ None \notin Instants \cup Slots
    /\ Spans \subseteq (Instants \cup {None}) \X (Instants \cup {None})
    /\ Modes \subseteq {"alone", "overlap", "lossy"}

VARIABLES
    windows,    \* disbursement_rules.period_windows of the program
    slots,      \* disbursement_slots
    booking,    \* the slot that an approved citizen has booked
    today,
    page,       \* what the pages show
    call,       \* the request that a page waits for
    load,       \* the reload of a page that is in flight
    opened, ops, mode

vars == <<windows, slots, booking, today, page, call, load, opened, ops, mode>>

Moment == Instants \cup {None}

Windows == [application_start : Moment, application_end : Moment,
            review_start : Moment, review_end : Moment,
            disbursement_start : Moment, disbursement_end : Moment]

Row == [status : {"none", "open", "closed", "cancelled"}, day : Days, booked : 0..1]

\* a page; a page of programs has no use for what follows `windows'
Page == [windows : Windows \cup {None}, form : Windows \cup {None},
         slots : [Slots -> Row], input : Moment \X Moment, day : Days,
         editing : Slots \cup {None}]

Call == [op : {"window", "create", "update", "cancel"}, slot : Slots \cup {None},
         day : Days, windows : Windows \cup {None},
         stage : {"sent", "done", "failed", "reload"}]

Load == [read : BOOLEAN, windows : Windows \cup {None}, slots : [Slots -> Row]]

Now == Morning(today)
NoSlot == [status |-> "none", day |-> 0, booked |-> 0]

----------------------------------------------------------------------------
(* period-windows.ts *)

\* what a program without windows has in a form
Unset == [application_start |-> None, application_end |-> None,
          review_start |-> None, review_end |-> None,
          disbursement_start |-> None, disbursement_end |-> None]

Or(a, b) == IF a = None THEN b ELSE a

\* The fault: reviews start with the disbursement.
NormalizeLate(w) == [w EXCEPT !.review_start = w.disbursement_start]

Normalize(w) == [w EXCEPT !.review_start = Or(@, w.application_start)]

After(t, start) == start # None => t >= start
Before(t, end)  == end # None => t <= end

InRange(t, start, end) == After(t, start) /\ Before(t, end)

\* assertApplicationPeriodOpen, assertReviewPeriodOpen, and
\* assertDisbursementPeriodOpen, which lets citizens book ahead
ApplicationOpen ==
    windows # None =>
        LET w == Normalize(windows) IN
        InRange(Now, w.application_start, w.application_end)

ReviewStart(w) == Or(w.review_start, w.application_start)
ReviewEnd(w)   == Or(w.review_end, w.application_end)

ReviewOpen ==
    windows # None =>
        LET w == Normalize(windows) IN InRange(Now, ReviewStart(w), ReviewEnd(w))

HasWindow(w) == w.disbursement_start # None \/ w.disbursement_end # None

DisbursementOpen ==
    windows # None =>
        LET w == Normalize(windows) IN
        HasWindow(w) /\ Before(Now, w.disbursement_end)

\* assertSlotWithinDisbursementWindow, assertSlotMeetsLeadTime and
\* assertRebookAllowed, of a slot on the day d
WithinWindow(d) ==
    /\ windows # None
    /\ LET w == Normalize(windows) IN
       /\ HasWindow(w)
       /\ After(Morning(d), w.disbursement_start)
       /\ Before(Evening(d), w.disbursement_end)

MeetsLead(d) == Morning(d) >= Morning(today + LeadDays)

RebookAllowed(d) == Now < Morning(d - LeadDays)

\* describePeriodPhase, and what the assistant is told of the three windows
Phase(start, end) ==
    IF start = None /\ end = None THEN "unset"
    ELSE IF ~After(Now, start) THEN "not_started"
    ELSE IF ~Before(Now, end) THEN "closed" ELSE "open"

Summary ==
    IF windows = None
    THEN [application |-> "unset", review |-> "unset", disbursement |-> "unset"]
    ELSE LET w == Normalize(windows) IN
         [application  |-> Phase(w.application_start, w.application_end),
          review       |-> Phase(ReviewStart(w), ReviewEnd(w)),
          disbursement |-> Phase(w.disbursement_start, w.disbursement_end)]

----------------------------------------------------------------------------
(* The citizen: listBookableSlots and bookDisbursementSlot *)

\* the list reads the windows as they are stored
Listed(s) ==
    LET d == slots[s].day IN
    /\ DisbursementOpen
    /\ slots[s].status = "open" /\ slots[s].booked = 0
    /\ Morning(d) >= Morning(today + LeadDays)
    /\ windows # None =>
           /\ After(Morning(d), windows.disbursement_start)
           /\ Before(Evening(d), windows.disbursement_end)

\* listOpenSlotsForAi: what the assistant tells of, whatever the period
Told(s) ==
    LET d == slots[s].day
        w == IF windows = None THEN Unset ELSE Normalize(windows) IN
    /\ slots[s].status = "open" /\ slots[s].booked = 0
    /\ Morning(d) >= Morning(today + LeadDays)
    /\ After(Morning(d), w.disbursement_start)
    /\ Before(Evening(d), w.disbursement_end)

\* a citizen without a booking may book the slot
Bookable(s) ==
    LET d == slots[s].day IN
    /\ DisbursementOpen
    /\ slots[s].status = "open" /\ Morning(d) > Now /\ slots[s].booked = 0
    /\ MeetsLead(d) /\ WithinWindow(d)

Book(s) ==
    /\ Bookable(s)
    /\ booking # None => booking # s /\ RebookAllowed(slots[booking].day)
    /\ booking' = s
    /\ slots' = [t \in Slots |->
          IF t = s THEN [slots[t] EXCEPT !.booked = 1, !.status = "closed"]
          ELSE IF t = booking
          THEN [slots[t] EXCEPT !.booked = 0,
                                !.status = IF @ = "closed" THEN "open" ELSE @]
          ELSE slots[t]]
    /\ UNCHANGED <<windows, today, page, call, load, opened, ops, mode>>

Dawn ==
    /\ today < LastToday
    /\ today' = today + 1
    /\ UNCHANGED <<windows, slots, booking, page, call, load, opened, ops, mode>>

----------------------------------------------------------------------------
(* Loading a page *)

Calendar(p) == KindOf[p] = "slots"
Known(p)    == page[p].windows # None
Busy(p)     == call[p] # None

\* `earliestSlotDay' is computed when the page opens, on the first day.
Floor == LeadDays

Asked == [read |-> FALSE, windows |-> None, slots |-> [s \in Slots |-> NoSlot]]

AskLoad(p) == load[p] = None /\ load' = [load EXCEPT ![p] = Asked]

Sent(p) == load[p] # None /\ ~load[p].read

\* what is listed: cancelled slots are not
ReadLists(p) ==
    /\ Sent(p)
    /\ load' = [load EXCEPT ![p] =
          [read |-> TRUE,
           windows |-> IF windows = None THEN Unset ELSE Normalize(windows),
           slots |-> [s \in Slots |-> IF slots[s].status = "cancelled"
                                      THEN NoSlot ELSE slots[s]]]]
    /\ UNCHANGED <<windows, slots, booking, today, page, call, opened, ops, mode>>

Start(w) == IF w = None THEN None ELSE w.disbursement_start
End(w)   == IF w = None THEN None ELSE w.disbursement_end

\* The calendar jumps to the window: on the first load, and whenever the
\* loaded window has a start, which is a new Date each time.
Jumps(p, w) == Start(w) # None \/ Start(page[p].windows) # None

Anchor(w) == IF Start(w) = None THEN Floor ELSE Max({Floor, DayOf(Start(w))})

EndLoad(p) ==
    /\ load' = [load EXCEPT ![p] = None]
    /\ call' = IF Busy(p) /\ call[p].stage = "reload"
               THEN [call EXCEPT ![p] = None] ELSE call
    /\ UNCHANGED <<windows, slots, booking, today, opened, ops, mode>>

FinishLoad(p) ==
    /\ load[p] # None /\ load[p].read
    /\ page' = [page EXCEPT ![p] =
          IF Calendar(p)
          THEN [@ EXCEPT !.windows = load[p].windows, !.slots = load[p].slots,
                         !.input = <<Start(load[p].windows), End(load[p].windows)>>,
                         !.day = IF Jumps(p, load[p].windows)
                                 THEN Anchor(load[p].windows) ELSE page[p].day]
          ELSE [@ EXCEPT !.windows = load[p].windows]]
    /\ EndLoad(p)

\* The schedule keeps its programs and shows no slot; the programs page
\* shows no program.
LoseLoad(p) ==
    /\ mode = "lossy" /\ Sent(p)
    /\ page' = [page EXCEPT ![p] =
          IF Calendar(p) THEN [@ EXCEPT !.slots = [s \in Slots |-> NoSlot]]
          ELSE [@ EXCEPT !.windows = None]]
    /\ EndLoad(p)

----------------------------------------------------------------------------
(* What users do on the pages *)

UserActs(p) ==
    /\ p \in opened /\ ops < MaxOps[mode]
    /\ ops' = ops + 1
    /\ UNCHANGED <<windows, slots, booking, today, opened, mode>>

Send(p, op, s, d, w) ==
    /\ ~Busy(p)
    /\ call' = [call EXCEPT ![p] = [op |-> op, slot |-> s, day |-> d,
                                    windows |-> w, stage |-> "sent"]]
    /\ UNCHANGED <<page, load>>

Refresh(p) ==
    /\ UserActs(p) /\ Calendar(p)
    /\ AskLoad(p)
    /\ UNCHANGED <<page, call>>

Shown(p, s) == page[p].slots[s].status # "none" /\ page[p].slots[s].day = page[p].day

\* dayAllowed: a day with slots, or one from the floor on that the window has
DayAllowed(p, d) ==
    LET w == page[p].windows IN
    \/ \E s \in Slots : page[p].slots[s].status # "none" /\ page[p].slots[s].day = d
    \/ /\ d >= Floor
       /\ Start(w) # None \/ End(w) # None
       /\ After(Evening(d), Start(w)) /\ Before(Morning(d), End(w))

PickDay(p) ==
    /\ UserActs(p) /\ Calendar(p)
    /\ \E d \in Days \ {page[p].day} :
           /\ DayAllowed(p, d)
           /\ page' = [page EXCEPT ![p].day = d]
    /\ UNCHANGED <<call, load>>

PickWindow(p) ==
    /\ UserActs(p) /\ Calendar(p)
    /\ \E span \in Spans \ {page[p].input} :
           page' = [page EXCEPT ![p].input = span]
    /\ UNCHANGED <<call, load>>

\* suggestWindowFromSlots: from the first slot to the last, or for 30 days
Suggested(p) ==
    LET days == {page[p].slots[s].day :
                    s \in {s \in Slots : page[p].slots[s].status # "none"}} IN
    IF days # {} THEN <<Morning(Min(days)), Evening(Max(days))>>
    ELSE <<Morning(Floor), Evening(LastDay)>>

SuggestWindow(p) ==
    /\ UserActs(p) /\ Calendar(p) /\ Known(p) /\ ~Busy(p)
    /\ page' = [page EXCEPT ![p].input = Suggested(p)]
    /\ UNCHANGED <<call, load>>

\* saveDisbursementWindow: the other windows as they were loaded
SentWindows(p) ==
    [page[p].windows EXCEPT
        !.review_start = Or(@, page[p].windows.application_start),
        !.disbursement_start = page[p].input[1], !.disbursement_end = page[p].input[2]]

SaveWindow(p) ==
    /\ UserActs(p) /\ Calendar(p) /\ Known(p)
    /\ None \notin {page[p].input[1], page[p].input[2]}
    /\ page[p].input[1] < page[p].input[2]
    /\ Send(p, "window", None, 0, SentWindows(p))

BeginEdit(p) ==
    /\ UserActs(p) /\ Calendar(p) /\ ~Busy(p)
    /\ \E s \in Slots :
           Shown(p, s) /\ page' = [page EXCEPT ![p].editing = s]
    /\ UNCHANGED <<call, load>>

StopEdit(p) ==
    /\ UserActs(p) /\ Calendar(p) /\ ~Busy(p)
    /\ page[p].editing # None
    /\ page' = [page EXCEPT ![p].editing = None]
    /\ UNCHANGED <<call, load>>

\* saveSlot: createSlot, or updateSlot of the slot in the form
SaveSlot(p) ==
    /\ UserActs(p) /\ Calendar(p) /\ Known(p)
    /\ DayAllowed(p, page[p].day)
    /\ IF page[p].editing # None
       THEN Send(p, "update", page[p].editing, page[p].day, None)
       ELSE /\ HasWindow(page[p].windows)
            /\ Send(p, "create", None, page[p].day, None)

CancelSlot(p) ==
    /\ UserActs(p) /\ Calendar(p)
    /\ \E s \in Slots :
           /\ Shown(p, s) /\ page[p].slots[s].booked = 0
           /\ Send(p, "cancel", s, 0, None)

\* startEdit of the programs page, a change of one span, and submit, with
\* which reviews start when applications do
StartEdit(p) ==
    /\ UserActs(p) /\ ~Calendar(p) /\ Known(p)
    /\ page' = [page EXCEPT ![p].form = page[p].windows]
    /\ UNCHANGED <<call, load>>

ChangeForm(p) ==
    /\ UserActs(p) /\ ~Calendar(p) /\ page[p].form # None
    /\ \E span \in Spans :
           page' \in
               {[page EXCEPT ![p].form.application_start = span[1],
                             ![p].form.application_end = span[2]],
                [page EXCEPT ![p].form.disbursement_start = span[1],
                             ![p].form.disbursement_end = span[2]],
                [page EXCEPT ![p].form.review_end = span[2]]}
    /\ UNCHANGED <<call, load>>

CloseForm(p) ==
    /\ UserActs(p) /\ ~Calendar(p) /\ page[p].form # None
    /\ page' = [page EXCEPT ![p].form = None]
    /\ UNCHANGED <<call, load>>

Submit(p) ==
    /\ UserActs(p) /\ ~Calendar(p) /\ page[p].form # None
    /\ Send(p, "window", None, 0,
            [page[p].form EXCEPT !.review_start = page[p].form.application_start])

----------------------------------------------------------------------------
(* The server's answers *)

Answer(p, ok) ==
    /\ \E lost \in {FALSE, mode = "lossy"} :
           call' = [call EXCEPT ![p].stage =
                       IF ok /\ ~lost THEN "done" ELSE "failed"]
    /\ UNCHANGED <<booking, today, page, load, opened, ops, mode>>

Serves(p, op) == Busy(p) /\ call[p].stage = "sent" /\ call[p].op = op

PatchWindows(p) ==
    /\ Serves(p, "window")
    /\ windows' = Normalize(call[p].windows)
    /\ Answer(p, TRUE)
    /\ UNCHANGED slots

\* the checks of createDisbursementSlot and updateDisbursementSlot
DayFits(p) == MeetsLead(call[p].day) /\ WithinWindow(call[p].day)

CreateSlot(p) ==
    /\ Serves(p, "create") /\ DayFits(p)
    /\ \E s \in Slots :
           /\ slots[s].status = "none"
           /\ slots' = [slots EXCEPT ![s] = [status |-> "open", day |-> call[p].day,
                                             booked |-> 0]]
    /\ Answer(p, TRUE)
    /\ UNCHANGED windows

UpdateSlot(p) ==
    /\ Serves(p, "update") /\ DayFits(p)
    /\ slots[call[p].slot].status # "cancelled"
    /\ slots' = [slots EXCEPT ![call[p].slot].day = call[p].day]
    /\ Answer(p, TRUE)
    /\ UNCHANGED windows

\* cancelling what is cancelled is no error
Cancel(p) ==
    /\ Serves(p, "cancel") /\ slots[call[p].slot].booked = 0
    /\ slots' = [slots EXCEPT ![call[p].slot].status = "cancelled"]
    /\ Answer(p, TRUE)
    /\ UNCHANGED windows

Refused(p) ==
    \/ Serves(p, "create") /\ ~DayFits(p)
    \/ Serves(p, "update") /\ (~DayFits(p) \/ slots[call[p].slot].status = "cancelled")
    \/ Serves(p, "cancel") /\ slots[call[p].slot].booked > 0

Refuse(p) ==
    /\ Refused(p)
    /\ Answer(p, FALSE)
    /\ UNCHANGED <<windows, slots>>

\* What was saved is loaded anew; an edit ends with the save, or with the
\* cancellation of its slot, and the programs page closes its form.
FinishCall(p) ==
    /\ Busy(p) /\ call[p].stage = "done"
    /\ AskLoad(p)
    /\ call' = [call EXCEPT ![p].stage = "reload"]
    /\ page' = [page EXCEPT
          ![p].editing = IF call[p].op \in {"update", "cancel"} /\ call[p].slot = @
                         THEN None ELSE @,
          ![p].form = None]
    /\ UNCHANGED <<windows, slots, booking, today, opened, ops, mode>>

FailCall(p) ==
    /\ Busy(p) /\ call[p].stage = "failed"
    /\ call' = [call EXCEPT ![p] = None]
    /\ UNCHANGED <<windows, slots, booking, today, page, load, opened, ops, mode>>

----------------------------------------------------------------------------
Blank == [windows |-> None, form |-> None, slots |-> [s \in Slots |-> NoSlot],
          input |-> <<None, None>>, day |-> Floor, editing |-> None]

\* The program has some windows, normalized as every save leaves them, or
\* none at all.  Two pages are open in the mode "overlap", and requests get
\* lost in the mode "lossy".
Init ==
    /\ mode \in Modes
    /\ opened \in SUBSET Pages
    /\ Cardinality(opened) = IF mode = "overlap" THEN 2 ELSE 1
    /\ windows \in {None} \cup
          {[application_start |-> a[1], application_end |-> a[2],
            review_start |-> a[1], review_end |-> None,
            disbursement_start |-> d[1], disbursement_end |-> d[2]] :
              a \in Spans, d \in Spans}
    /\ slots = [s \in Slots |-> NoSlot]
    /\ booking = None
    /\ today = 0
    /\ page = [p \in Pages |-> Blank]
    /\ call = [p \in Pages |-> None]
    /\ load = [p \in Pages |-> IF p \in opened THEN Asked ELSE None]
    /\ ops = 0

Next ==
    \/ Dawn
    \/ \E s \in Slots : Book(s)
    \/ \E p \in Pages :
          \/ Refresh(p) \/ ReadLists(p) \/ FinishLoad(p) \/ LoseLoad(p)
          \/ PickDay(p) \/ PickWindow(p) \/ SuggestWindow(p) \/ SaveWindow(p)
          \/ BeginEdit(p) \/ StopEdit(p) \/ SaveSlot(p) \/ CancelSlot(p)
          \/ StartEdit(p) \/ ChangeForm(p) \/ CloseForm(p) \/ Submit(p)
          \/ PatchWindows(p) \/ CreateSlot(p) \/ UpdateSlot(p) \/ Cancel(p)
          \/ Refuse(p) \/ FinishCall(p) \/ FailCall(p)

Spec == Init /\ [][Next]_vars

----------------------------------------------------------------------------
TypeOK ==
    /\ windows \in Windows \cup {None}
    /\ slots \in [Slots -> Row]
    /\ booking \in Slots \cup {None}
    /\ today \in 0..LastToday
    /\ \A p \in Pages :
           /\ page[p] \in Page
           /\ call[p] \in Call \cup {None}
           /\ load[p] \in Load \cup {None}
    /\ opened \subseteq Pages /\ ops \in 0..MaxOps[mode] /\ mode \in Modes

\* Whatever two pages save over each other, and whenever: a citizen who may
\* apply is one whose case may be reviewed, unless reviews were closed
\* explicitly, and what the assistant says of both windows is what the gates
\* do.
ReviewFollowsApplication ==
    windows # None /\ ApplicationOpen /\ Before(Now, windows.review_end) => ReviewOpen

SummaryAgrees ==
    /\ ApplicationOpen <=> Summary.application \in {"unset", "open"}
    /\ ReviewOpen <=> Summary.review \in {"unset", "open"}
    /\ Summary.disbursement = "open" => DisbursementOpen

\* The slots that a citizen is shown, and those that the assistant tells of,
\* are those that can be booked: the lists filter with queries and
\* comparisons of their own.
ListedIsBookable ==
    windows # None =>
        \A s \in Slots :
            /\ Listed(s) <=> Bookable(s)
            /\ HasWindow(windows) => (Told(s) <=> Bookable(s))

GatesAgree == ReviewFollowsApplication /\ SummaryAgrees /\ ListedIsBookable

\* `Jump calendar into the program disbursement window when program changes'
\* (disbursement-slots/page.tsx); the code jumps on every load.
CalendarStays ==
    [][\A p \in Pages :
          Known(p) /\ page'[p].day # page[p].day => PickDay(p)]_vars

=============================================================================
