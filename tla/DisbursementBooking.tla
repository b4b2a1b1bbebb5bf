------------------------ MODULE DisbursementBooking ------------------------
(***************************************************************************)
(* Disbursement slots, their bookings and the validation of claims:        *)
(* backend/src/domain/office-ops.service.ts.                               *)
(*                                                                         *)
(* Booking runs in one READ COMMITTED transaction with row locks; editing  *)
(* and cancelling a slot, and validating a claim, are sequences of         *)
(* awaited statements outside any transaction.  A request is a process     *)
(* with a program counter and what it holds in memory, as in CaseWorkflow. *)
(* A booking transaction writes only after it has its last lock, so its    *)
(* writes and its commit are one step and a rollback undoes nothing; the   *)
(* locks it holds follow from its program counter.                         *)
(*                                                                         *)
(* Abstractions.  One organization, office and program; every case is      *)
(* approved and belongs to another beneficiary, so the unique index on     *)
(* (slot, beneficiary) never refuses.  Dates, permissions and the provider *)
(* of the liveness check may refuse any request before its first write:    *)
(* such a request changes nothing and is no step.  A claim token is a      *)
(* count of the bookings of its case; the service finds a booking by its   *)
(* current token only.  No code writes the booking statuses cancelled,     *)
(* completed or no_show, nor the case status disbursed.                    *)
(***************************************************************************)
EXTENDS Naturals, FiniteSets

CONSTANTS
  Slots,        \* ids the disbursement_slots table may hold
  Applications, \* approved cases
  Requests,     \* requests in flight at once, over all replicas
  Endpoints,    \* the endpoints clients call in this instance
  Capacities,   \* capacities an administrator asks for
  Overlap,      \* may two requests work on one slot or one case at once?
  MaxMoves,     \* bound: rebookings of a case before the next one begins
  Crashes,      \* may a request die between two steps?
  None

AllEndpoints == {"book", "edit", "cancel", "validate"}

ASSUME FiniteTables == IsFiniteSet(Applications)

ASSUME NoneIsNoSlot == None \notin Slots \union Applications

ASSUME BookingConfiguration ==
  /\ Endpoints \subseteq AllEndpoints
  /\ Capacities \subseteq Nat \ {0}
  /\ Overlap \in BOOLEAN /\ Crashes \in BOOLEAN
  /\ MaxMoves \in Nat

VARIABLES
  slots,     \* disbursement_slots
  bookings,  \* disbursement_bookings, by case (UNIQUE application_id)
  cases,     \* applications.status
  claims,    \* disbursement_claims: the booking as the validation had read it
  pc,        \* next await of each request
  call,      \* what the request holds in memory
  payouts    \* history: validations that told the office to hand out the money

tables == <<slots, bookings, cases, claims>>
memory == <<pc, call>>
vars   == <<tables, memory, payouts>>

(***************************************************************************)
(* Rows                                                                    *)
(***************************************************************************)

Slot == [status : {"none", "open", "closed", "cancelled"},
         capacity : Nat, booked : Nat]

NoSlot == [status |-> "none", capacity |-> 0, booked |-> 0]

Booking == [status : {"none", "booked", "claimed"},
            slot : Slots \union {None}, queue : Nat, token : Nat]

NoBooking == [status |-> "none", slot |-> None, queue |-> 0, token |-> 0]

\* The seat of a case that moves away; a closed slot opens again.
Freed(row) ==
  [row EXCEPT !.booked = IF @ > 0 THEN @ - 1 ELSE 0,
              !.status = IF @ = "closed" /\ row.booked <= row.capacity
                         THEN "open" ELSE @]

\* One more seat; the last one closes the slot.
Filled(row) ==
  [row EXCEPT !.booked = @ + 1,
              !.status = IF row.booked + 1 >= row.capacity THEN "closed" ELSE @]

(***************************************************************************)
(* Requests in memory and the locks they hold                              *)
(***************************************************************************)

Call == [ep : AllEndpoints \union {None},
         app : Applications \union {None},
         slot : Slots \union {None},
         prior : Slots \union {None},              \* slot of the booking found
         seen : Booking,                           \* booking a validation read
         capacity : Nat,                           \* what an edit will write
         status : {"none", "open", "closed"}]

NoCall == [ep |-> None, app |-> None, slot |-> None, prior |-> None,
           seen |-> NoBooking, capacity |-> 0, status |-> "none"]

Labels == {"idle", "lockSlot", "findBooking", "lockBooking", "move", "insert",
           "writeEdit", "writeCancel", "loadClaim", "claimBooking",
           "claimCase", "recordClaim"}

\* A booking transaction holds the row of its slot from its first statement
\* on, and its booking's row once it has found and locked it.
InTransaction(r) == pc[r] \in {"findBooking", "lockBooking", "move", "insert"}

HoldsSlot(r, s)    == InTransaction(r) /\ call[r].slot = s
HoldsBooking(r, a) == pc[r] = "move" /\ call[r].app = a

SlotFree(s)    == \A q \in Requests : ~HoldsSlot(q, s)
BookingFree(a) == \A q \in Requests : ~HoldsBooking(q, a)

\* The slots a request on slot s and case a works on.
Touched(a, s) == {s} \union (IF a = None THEN {} ELSE {bookings[a].slot})

Apart(r, a, s) ==
  \A q \in Requests \ {r} : pc[q] # "idle" =>
    /\ a # None => call[q].app # a
    /\ Touched(a, s) \intersect Touched(call[q].app, call[q].slot) \subseteq {None}

MayBegin(r, ep, a, s) ==
  /\ pc[r] = "idle"
  /\ ep \in Endpoints
  /\ Overlap \/ Apart(r, a, s)

Begin(r, label, c) ==
  /\ pc' = [pc EXCEPT ![r] = label]
  /\ call' = [call EXCEPT ![r] = c]

Answer(r) == Begin(r, "idle", NoCall)

Goto(r, label) == Begin(r, label, call[r])

(***************************************************************************)
(* Slots                                                                   *)
(***************************************************************************)

\* createDisbursementSlot: one insert, of a row nobody knows yet.
CreateSlot(s, n) ==
  /\ slots[s].status = "none"
  /\ slots' = [slots EXCEPT ![s] = [status |-> "open", capacity |-> n, booked |-> 0]]
  /\ UNCHANGED <<bookings, cases, claims, memory, payouts>>

\* The status an edit will write, from the row it read (open or closed).
NextStatus(row, n) == IF n <= row.booked THEN "closed" ELSE "open"

\* Fault: cancelled slots can be edited.
BeginEditCancelled(r, s, n) ==
  /\ MayBegin(r, "edit", None, s)
  /\ slots[s].status # "none"
  /\ n >= slots[s].booked
  /\ Begin(r, "writeEdit", [NoCall EXCEPT !.ep = "edit", !.slot = s, !.capacity = n,
                                          !.status = NextStatus(slots[s], n)])
  /\ UNCHANGED <<tables, payouts>>

\* updateDisbursementSlot reads the row without a lock and decides by it.  An
\* edit that names no capacity asks for the one it read.
BeginEdit(r, s, n) ==
  /\ MayBegin(r, "edit", None, s)
  /\ slots[s].status \in {"open", "closed"}
  /\ n >= slots[s].booked
  /\ Begin(r, "writeEdit", [NoCall EXCEPT !.ep = "edit", !.slot = s, !.capacity = n,
                                          !.status = NextStatus(slots[s], n)])
  /\ UNCHANGED <<tables, payouts>>

\* The UPDATE waits for the row's lock; CHECK (booked_count <= capacity) may
\* refuse what the edit decided on a row it read earlier.
WriteEdit(r) ==
  LET s == call[r].slot IN
  /\ pc[r] = "writeEdit"
  /\ SlotFree(s)
  /\ IF slots[s].booked <= call[r].capacity
     THEN slots' = [slots EXCEPT ![s].capacity = call[r].capacity,
                                 ![s].status = call[r].status]
     ELSE UNCHANGED slots
  /\ Answer(r)
  /\ UNCHANGED <<bookings, cases, claims, payouts>>

\* Fault: slots with bookings can be cancelled.
BeginCancelBooked(r, s) ==
  /\ MayBegin(r, "cancel", None, s)
  /\ slots[s].status \in {"open", "closed"}
  /\ Begin(r, "writeCancel", [NoCall EXCEPT !.ep = "cancel", !.slot = s])
  /\ UNCHANGED <<tables, payouts>>

\* cancelDisbursementSlot reads the row without a lock.
BeginCancel(r, s) ==
  /\ MayBegin(r, "cancel", None, s)
  /\ slots[s].status \in {"open", "closed"}
  /\ slots[s].booked = 0
  /\ Begin(r, "writeCancel", [NoCall EXCEPT !.ep = "cancel", !.slot = s])
  /\ UNCHANGED <<tables, payouts>>

WriteCancel(r) ==
  /\ pc[r] = "writeCancel"
  /\ SlotFree(call[r].slot)
  /\ slots' = [slots EXCEPT ![call[r].slot].status = "cancelled"]
  /\ Answer(r)
  /\ UNCHANGED <<bookings, cases, claims, payouts>>

(***************************************************************************)
(* POST /disbursement-bookings                                             *)
(***************************************************************************)

\* The case is read, and must be approved, before the transaction starts.
BeginBook(r, a, s) ==
  /\ MayBegin(r, "book", a, s)
  /\ cases[a] = "approved"
  /\ slots[s].status # "none"
  /\ bookings[a].token <= MaxMoves
  /\ Begin(r, "lockSlot", [NoCall EXCEPT !.ep = "book", !.app = a, !.slot = s])
  /\ UNCHANGED <<tables, payouts>>

\* SELECT ... FROM disbursement_slots FOR UPDATE, and the checks of the row.
LockSlot(r) ==
  LET row == slots[call[r].slot] IN
  /\ pc[r] = "lockSlot"
  /\ SlotFree(call[r].slot)
  /\ IF row.status = "open" /\ row.booked < row.capacity
     THEN Goto(r, "findBooking")
     ELSE Answer(r)
  /\ UNCHANGED <<tables, payouts>>

\* SELECT ... FROM disbursement_bookings b JOIN disbursement_slots FOR UPDATE OF b,
\* in two steps: the rows of the statement's snapshot, then their locks.
FindBooking(r) ==
  LET b == bookings[call[r].app] IN
  /\ pc[r] = "findBooking"
  /\ IF b.status = "none"
     THEN Goto(r, "insert")
     ELSE Begin(r, "lockBooking", [call[r] EXCEPT !.prior = b.slot])
  /\ UNCHANGED <<tables, payouts>>

\* Fault: the booking is read without FOR UPDATE OF b.
LockBookingUnlocked(r) ==
  /\ pc[r] = "lockBooking"
  /\ IF call[r].prior # call[r].slot THEN Goto(r, "move") ELSE Answer(r)
  /\ UNCHANGED <<tables, payouts>>

\* Fault: a claimed booking is moved like any other.
LockBookingClaimed(r) ==
  LET b == bookings[call[r].app] IN
  /\ pc[r] = "lockBooking"
  /\ BookingFree(call[r].app)
  /\ IF b.slot = call[r].prior /\ b.slot # call[r].slot
     THEN Goto(r, "move")
     ELSE Answer(r)
  /\ UNCHANGED <<tables, payouts>>

\* The lock may come after the row has changed.  A booking claimed meanwhile is
\* refused, like the seat the case already has.  One that moved no longer joins
\* the slot of the snapshot, so the query returns nothing; the INSERT that
\* follows violates UNIQUE (application_id) and the transaction is rolled back.
LockBooking(r) ==
  LET b == bookings[call[r].app] IN
  /\ pc[r] = "lockBooking"
  /\ BookingFree(call[r].app)
  /\ IF b.status = "booked" /\ b.slot = call[r].prior /\ b.slot # call[r].slot
     THEN Goto(r, "move")
     ELSE Answer(r)
  /\ UNCHANGED <<tables, payouts>>

NewBooking(r) == [status |-> "booked", slot |-> call[r].slot,
                  queue |-> slots[call[r].slot].booked + 1,
                  token |-> bookings[call[r].app].token + 1]

\* Fault: the seat left behind is not freed.
MoveBookingKeepingSeat(r) ==
  /\ pc[r] = "move"
  /\ SlotFree(call[r].prior)
  /\ slots' = [slots EXCEPT ![call[r].slot] = Filled(@)]
  /\ bookings' = [bookings EXCEPT ![call[r].app] = NewBooking(r)]
  /\ Answer(r)
  /\ UNCHANGED <<cases, claims, payouts>>

\* Frees the old seat (the transaction's last lock), moves the booking, takes
\* the new seat, commits.
MoveBooking(r) ==
  /\ pc[r] = "move"
  /\ SlotFree(call[r].prior)
  /\ slots' = [slots EXCEPT ![call[r].prior] = Freed(@),
                            ![call[r].slot] = Filled(@)]
  /\ bookings' = [bookings EXCEPT ![call[r].app] = NewBooking(r)]
  /\ Answer(r)
  /\ UNCHANGED <<cases, claims, payouts>>

\* Fault: a unique violation is retried instead of reported.
InsertBookingRetrying(r) ==
  /\ pc[r] = "insert"
  /\ IF bookings[call[r].app].status = "none"
     THEN /\ slots' = [slots EXCEPT ![call[r].slot] = Filled(@)]
          /\ bookings' = [bookings EXCEPT ![call[r].app] = NewBooking(r)]
          /\ Answer(r)
     ELSE /\ UNCHANGED <<slots, bookings, pc, call>>
  /\ UNCHANGED <<cases, claims, payouts>>

\* A first booking, unless another request made it since: UNIQUE (application_id).
InsertBooking(r) ==
  /\ pc[r] = "insert"
  /\ IF bookings[call[r].app].status = "none"
     THEN /\ slots' = [slots EXCEPT ![call[r].slot] = Filled(@)]
          /\ bookings' = [bookings EXCEPT ![call[r].app] = NewBooking(r)]
     ELSE UNCHANGED <<slots, bookings>>
  /\ Answer(r)
  /\ UNCHANGED <<cases, claims, payouts>>

(***************************************************************************)
(* POST /admin/disbursement-claims/validate                                *)
(***************************************************************************)

\* Fault: a claim that is done is made again.
BeginValidateAgain(r, a) ==
  /\ MayBegin(r, "validate", a, None)
  /\ bookings[a].status # "none"
  /\ Begin(r, "claimBooking", [NoCall EXCEPT !.ep = "validate", !.app = a,
                                             !.seen = [bookings[a] EXCEPT !.status = "booked"]])
  /\ UNCHANGED <<tables, payouts>>

\* loadClaimBooking: the QR's token finds the booking; a claim that is done is
\* only looked up.  The liveness of the claimant is verified in between.
BeginValidate(r, a) ==
  LET b == bookings[a] IN
  /\ MayBegin(r, "validate", a, None)
  /\ b.status # "none"
  /\ Begin(r, IF b.status = "claimed" THEN "loadClaim" ELSE "claimBooking",
           [NoCall EXCEPT !.ep = "validate", !.app = a, !.seen = b])
  /\ UNCHANGED <<tables, payouts>>

\* "This aid was already claimed and recorded as completed."
AnswerClaimed(r) ==
  /\ pc[r] = "loadClaim"
  /\ Answer(r)
  /\ UNCHANGED <<tables, payouts>>

\* Fault: the status written is the one used before migration 026.
ClaimBookingCompleted(r) ==
  /\ pc[r] = "claimBooking"
  /\ BookingFree(call[r].app)
  /\ bookings' = [bookings EXCEPT ![call[r].app].status = "completed"]
  /\ Goto(r, "claimCase")
  /\ UNCHANGED <<slots, cases, claims, payouts>>

ClaimBooking(r) ==
  /\ pc[r] = "claimBooking"
  /\ BookingFree(call[r].app)
  /\ bookings' = [bookings EXCEPT ![call[r].app].status = "claimed"]
  /\ Goto(r, "claimCase")
  /\ UNCHANGED <<slots, cases, claims, payouts>>

\* UPDATE ... WHERE status IN ('approved', 'disbursed').
ClaimCase(r) ==
  /\ pc[r] = "claimCase"
  /\ cases' = [cases EXCEPT ![call[r].app] = "claimed"]
  /\ Goto(r, "recordClaim")
  /\ UNCHANGED <<slots, bookings, claims, payouts>>

\* INSERT ... ON CONFLICT (booking_id): a record that exists keeps the booking's
\* columns.  The answer says that the claim was recorded now.
RecordClaim(r) ==
  LET a == call[r].app IN
  /\ pc[r] = "recordClaim"
  /\ claims' = [claims EXCEPT ![a] = IF @ = NoBooking THEN call[r].seen ELSE @]
  /\ payouts' = [payouts EXCEPT ![a] = @ + 1]
  /\ Answer(r)
  /\ UNCHANGED <<slots, bookings, cases>>

(***************************************************************************)
(* Deadlocks, crashes                                                      *)
(***************************************************************************)

\* The requests whose lock r waits for; at most one.
Blocking(r) ==
  {q \in Requests :
     \/ pc[r] = "lockSlot" /\ HoldsSlot(q, call[r].slot)
     \/ pc[r] = "lockBooking" /\ HoldsBooking(q, call[r].app)
     \/ pc[r] = "move" /\ HoldsSlot(q, call[r].prior)}

\* r is on a cycle of waiting transactions.
Deadlocked(r) ==
  \E C \in SUBSET Requests :
    /\ r \in C
    /\ \A q \in C : Blocking(q) # {}
    /\ UNION {Blocking(q) : q \in C} = C

\* PostgreSQL rolls one of them back; the client gets an error.
AbortDeadlocked(r) ==
  /\ Deadlocked(r)
  /\ Answer(r)
  /\ UNCHANGED <<tables, payouts>>

\* A request dies between two awaits; an open transaction is rolled back.
Drop(r) ==
  /\ Crashes
  /\ pc[r] # "idle"
  /\ Answer(r)
  /\ UNCHANGED <<tables, payouts>>

(***************************************************************************)
(* Specification                                                           *)
(***************************************************************************)

Init ==
  /\ slots = [s \in Slots |-> NoSlot]
  /\ bookings = [a \in Applications |-> NoBooking]
  /\ cases = [a \in Applications |-> "approved"]
  /\ claims = [a \in Applications |-> NoBooking]
  /\ pc = [r \in Requests |-> "idle"]
  /\ call = [r \in Requests |-> NoCall]
  /\ payouts = [a \in Applications |-> 0]

Continue(r) ==
  \/ WriteEdit(r) \/ WriteCancel(r)
  \/ LockSlot(r) \/ FindBooking(r) \/ LockBooking(r)
  \/ MoveBooking(r) \/ InsertBooking(r)
  \/ AnswerClaimed(r) \/ ClaimBooking(r) \/ ClaimCase(r) \/ RecordClaim(r)

Arrive(r) ==
  \/ \E s \in Slots : \E n \in Capacities : BeginEdit(r, s, n)
  \/ \E s \in Slots : BeginCancel(r, s)
  \/ \E a \in Applications : \E s \in Slots : BeginBook(r, a, s)
  \/ \E a \in Applications : BeginValidate(r, a)

Next ==
  \/ \E s \in Slots : \E n \in Capacities : CreateSlot(s, n)
  \/ \E r \in Requests : Arrive(r) \/ Continue(r) \/ AbortDeadlocked(r) \/ Drop(r)

Spec == Init /\ [][Next]_vars

\* An accepted request runs on; a lock that is released again and again is
\* granted to every waiter in the end (PostgreSQL queues them); and PostgreSQL
\* looks for deadlocks.
Fairness ==
  /\ \A r \in Requests : SF_vars(Continue(r))
  /\ \A r \in Requests : WF_vars(AbortDeadlocked(r))

FairSpec == Spec /\ Fairness

(***************************************************************************)
(* Properties                                                              *)
(***************************************************************************)

\* Every row and every request in flight has its columns' types.
TypeOK ==
  /\ slots \in [Slots -> Slot]
  /\ bookings \in [Applications -> Booking]
  /\ cases \in [Applications -> {"approved", "claimed"}]
  /\ claims \in [Applications -> Booking]
  /\ pc \in [Requests -> Labels]
  /\ call \in [Requests -> Call]
  /\ payouts \in [Applications -> Nat]

Seated(s) == {a \in Applications : bookings[a].slot = s}

\* The seats a slot counts are the bookings on it, and not more than it has:
\* neither rebookings that cross nor edits in between lose or double a seat.
SeatsCount ==
  \A s \in Slots : /\ slots[s].booked = Cardinality(Seated(s))
                   /\ slots[s].booked <= slots[s].capacity

\* A booking whose claim was validated is never moved, renumbered or reopened
\* by a rebooking that had found it before ("cannot be rebooked").
ClaimedIsFinal ==
  [][\A a \in Applications : bookings[a].status = "claimed" => bookings'[a] = bookings[a]]_vars

\* The handlers implement the seat map.
Ledger == INSTANCE SeatLedger WITH
  seat <- [a \in Applications |-> bookings[a].slot],
  capacity <- [s \in Slots |-> slots[s].capacity],
  paid <- {a \in Applications : bookings[a].status = "claimed"}

ImplementsLedger == Ledger!Spec

\* Nobody is booked on a slot that was cancelled ("Cannot cancel a slot that
\* already has bookings"), and a slot is open exactly while it has a free seat.
SlotStatusTrue ==
  /\ \A a \in Applications : bookings[a].status = "booked" =>
       slots[bookings[a].slot].status # "cancelled"
  /\ \A s \in Slots : slots[s].status \in {"open", "closed"} =>
       (slots[s].status = "open" <=> slots[s].booked < slots[s].capacity)

\* A slot that is cancelled stays so ("Cancelled slots cannot be edited").
CancelledIsFinal ==
  [][\A s \in Slots : slots[s].status = "cancelled" => slots'[s].status = "cancelled"]_vars

\* Only one validation of a case tells the office to hand out the money ("Claim
\* tokens are single-use"), and the record of the claim shows the slot, queue
\* number and token of the booking that was claimed.
PaidAsRecorded ==
  \A a \in Applications :
    /\ payouts[a] <= 1
    /\ claims[a].status # "none" => claims[a] = [bookings[a] EXCEPT !.status = "booked"]

\* Whoever is told that a claim was recorded finds the record.
AnsweredMeansRecorded ==
  [][\A r \in Requests : AnswerClaimed(r) => claims[call[r].app].status # "none"]_vars

\* Every request is answered: crossing rebookings deadlock, but not for ever.
\* And a claimed booking gets its claimed case and its claim record, if no
\* request dies in between.
EverythingCompletes ==
  /\ \A r \in Requests : pc[r] # "idle" ~> pc[r] = "idle"
  /\ \A a \in Applications : bookings[a].status = "claimed" ~>
       cases[a] = "claimed" /\ claims[a].status # "none"
=============================================================================
