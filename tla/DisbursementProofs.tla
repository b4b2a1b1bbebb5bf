--------------------- MODULE DisbursementProofs ---------------------
(***************************************************************************)
(* What is proved of booking and of claims at the server                   *)
(* (DisbursementBooking).                                                  *)
(***************************************************************************)
EXTENDS DisbursementBooking, FiniteSetTheorems, TLAPS

(***************************************************************************)
(* Booking keeps count of its seats and implements the seat map, for any   *)
(* number of slots, cases and requests, whatever edits, cancellations,     *)
(* deadlocks and crashes come in between.  Where no two requests work on   *)
(* one slot or case at once, crashes included, a slot's status, its        *)
(* cancellation and the record of a claim are right as well.               *)
(***************************************************************************)

BookLabels  == {"lockSlot", "findBooking", "lockBooking", "move", "insert"}
ClaimLabels == {"claimBooking", "claimCase", "recordClaim"}

\* What a request's label says of its memory.
Memory(r) ==
  /\ pc[r] \in BookLabels \union {"writeEdit", "writeCancel"} => call[r].slot \in Slots
  /\ pc[r] \in BookLabels \union ClaimLabels => call[r].app \in Applications
  /\ pc[r] \in {"lockBooking", "move"} => call[r].prior \in Slots
  /\ pc[r] = "writeEdit" => /\ call[r].capacity \in Capacities
                            /\ call[r].status \in {"open", "closed"}

\* What a request relies on because of the locks it holds, or because no
\* booking is ever deleted.
Held(r) ==
  /\ InTransaction(r) => slots[call[r].slot].booked < slots[call[r].slot].capacity
  /\ pc[r] = "move" => /\ call[r].prior # call[r].slot
                       /\ bookings[call[r].app].status = "booked"
                       /\ bookings[call[r].app].slot = call[r].prior
  /\ pc[r] \in ClaimLabels => bookings[call[r].app].status # "none"

\* No two transactions hold one row.
Excludes(q, r) ==
  /\ InTransaction(q) /\ InTransaction(r) => call[q].slot # call[r].slot
  /\ pc[q] = "move" /\ pc[r] = "move" => call[q].app # call[r].app

Requested == \A r \in Requests : Memory(r) /\ Held(r)
Exclusive == \A q \in Requests : \A r \in Requests : q # r => Excludes(q, r)

\* A slot that does not exist has no seats; a booking has a slot.
Rows ==
  /\ \A s \in Slots : slots[s].status = "none" => slots[s].booked = 0 /\ slots[s].capacity = 0
  /\ \A a \in Applications : IF bookings[a].status = "none"
                             THEN bookings[a].slot = None
                             ELSE bookings[a].slot \in Slots

Inv == TypeOK /\ Requested /\ Exclusive /\ Rows /\ SeatsCount

(***************************************************************************)
(* Operators                                                               *)
(***************************************************************************)

LEMMA NothingTyped == NoBooking \in Booking /\ NoCall \in Call
  <1>1. NoBooking \in Booking
    BY DEF NoBooking, Booking
  <1> QED
    BY <1>1 DEF NoCall, Call

\* Filling takes one seat of a slot with a free one.
LEMMA FilledFacts ==
  ASSUME NEW row \in Slot, row.booked < row.capacity
  PROVE  /\ Filled(row) \in Slot
         /\ Filled(row).booked = row.booked + 1
         /\ Filled(row).capacity = row.capacity
         /\ Filled(row).booked <= row.capacity
         /\ row.status # "none" => Filled(row).status # "none"
  <1>1. row.booked \in Nat /\ row.capacity \in Nat /\ row.booked + 1 \in Nat
    BY DEF Slot
  <1>2. /\ Filled(row).booked = row.booked + 1
        /\ Filled(row).capacity = row.capacity
        /\ Filled(row).status = IF row.booked + 1 >= row.capacity THEN "closed"
                                ELSE row.status
    BY DEF Filled, Slot
  <1>3. Filled(row) \in Slot
    BY <1>1 DEF Filled, Slot
  <1> QED
    BY <1>1, <1>2, <1>3

\* Freeing gives back the one seat it counted.
LEMMA FreedFacts ==
  ASSUME NEW row \in Slot, row.booked > 0, row.booked <= row.capacity
  PROVE  /\ Freed(row) \in Slot
         /\ Freed(row).booked = row.booked - 1
         /\ Freed(row).capacity = row.capacity
         /\ Freed(row).booked <= row.capacity
         /\ row.status # "none" => Freed(row).status # "none"
  <1>1. row.booked \in Nat /\ row.capacity \in Nat /\ row.booked - 1 \in Nat
    BY DEF Slot
  <1>2. /\ Freed(row).booked = row.booked - 1
        /\ Freed(row).capacity = row.capacity
        /\ Freed(row).status = IF row.status = "closed" THEN "open" ELSE row.status
    BY DEF Freed, Slot
  <1>3. Freed(row) \in Slot
    BY <1>1 DEF Freed, Slot
  <1> QED
    BY <1>1, <1>2, <1>3

LEMMA BeginFacts ==
  ASSUME TypeOK, NEW r \in Requests, NEW l \in Labels, NEW c \in Call, Begin(r, l, c)
  PROVE  /\ pc' \in [Requests -> Labels] /\ call' \in [Requests -> Call]
         /\ pc'[r] = l /\ call'[r] = c
         /\ \A q \in Requests \ {r} : pc'[q] = pc[q] /\ call'[q] = call[q]
  BY DEF TypeOK, Begin

LEMMA SeatedFinite ==
  \A s : IsFiniteSet(Seated(s)) /\ Cardinality(Seated(s)) \in Nat
  <1> TAKE s
  <1>1. Seated(s) \subseteq Applications
    BY DEF Seated
  <1>2. IsFiniteSet(Seated(s))
    BY <1>1, FiniteTables, FS_Subset
  <1> QED
    BY <1>2, FS_CardinalityType

(***************************************************************************)
(* Steps that write no slot and no booking                                 *)
(***************************************************************************)

\* The step of a request that only changes its own memory, cases, claims or
\* payouts keeps the invariant if its own new memory is sound.
LEMMA QuietStep ==
  ASSUME Inv, NEW r \in Requests, NEW l \in Labels, NEW c \in Call, Begin(r, l, c),
         UNCHANGED <<slots, bookings>>,
         cases' \in [Applications -> {"approved", "claimed"}],
         claims' \in [Applications -> Booking],
         payouts' \in [Applications -> Nat],
         Memory(r)', Held(r)',
         \A q \in Requests \ {r} : Excludes(q, r)'
  PROVE  Inv'
  <1>1. /\ pc' \in [Requests -> Labels] /\ call' \in [Requests -> Call]
        /\ \A q \in Requests \ {r} : pc'[q] = pc[q] /\ call'[q] = call[q]
    BY BeginFacts DEF Inv
  <1>2. TypeOK'
    BY <1>1 DEF Inv, TypeOK
  <1>3. Requested'
    <2> SUFFICES ASSUME NEW q \in Requests, q # r PROVE Memory(q)' /\ Held(q)'
      BY DEF Requested
    <2>1. Memory(q) /\ Held(q)
      BY DEF Inv, Requested
    <2> QED
      BY <1>1, <2>1 DEF Memory, Held, InTransaction
  <1>4. Exclusive'
    <2> SUFFICES ASSUME NEW p \in Requests, NEW q \in Requests, p # q PROVE Excludes(p, q)'
      BY DEF Exclusive
    <2>1. CASE p # r /\ q # r
      <3>1. Excludes(p, q)
        BY DEF Inv, Exclusive
      <3> QED
        BY <1>1, <2>1, <3>1 DEF Excludes, InTransaction
    <2>2. CASE p = r
      BY <2>2 DEF Excludes
    <2>3. CASE q = r
      BY <2>3
    <2> QED
      BY <2>1, <2>2, <2>3
  <1>5. Rows' /\ SeatsCount'
    BY DEF Inv, Rows, SeatsCount, Seated
  <1> QED
    BY <1>2, <1>3, <1>4, <1>5 DEF Inv

\* In particular the step that ends a request.
LEMMA AnswerStep ==
  ASSUME Inv, NEW r \in Requests, Answer(r), UNCHANGED <<slots, bookings>>,
         cases' \in [Applications -> {"approved", "claimed"}],
         claims' \in [Applications -> Booking],
         payouts' \in [Applications -> Nat]
  PROVE  Inv'
  <1>1. "idle" \in Labels /\ NoCall \in Call
    BY NothingTyped DEF Labels
  <1>2. Begin(r, "idle", NoCall)
    BY DEF Answer
  <1>3. pc'[r] = "idle"
    BY <1>1, <1>2, BeginFacts DEF Inv
  <1>4. Memory(r)' /\ Held(r)' /\ \A q \in Requests \ {r} : Excludes(q, r)'
    BY <1>3 DEF Memory, Held, Excludes, InTransaction, BookLabels, ClaimLabels
  <1> QED
    BY <1>1, <1>2, <1>4, QuietStep

\* The requests that begin.
LEMMA ArriveStep ==
  ASSUME Inv, NEW r \in Requests, Arrive(r)
  PROVE  Inv'
  <1> USE DEF tables
  <1>a. /\ cases \in [Applications -> {"approved", "claimed"}]
        /\ claims \in [Applications -> Booking]
        /\ payouts \in [Applications -> Nat]
        /\ bookings \in [Applications -> Booking]
    BY DEF Inv, TypeOK
  <1>1. ASSUME NEW s \in Slots, NEW n \in Capacities, BeginEdit(r, s, n)
        PROVE  Inv'
    <2> DEFINE st == NextStatus(slots[s], n)
               c == [NoCall EXCEPT !.ep = "edit", !.slot = s, !.capacity = n, !.status = st]
    <2>1. st \in {"open", "closed"} /\ n \in Nat
      BY BookingConfiguration DEF NextStatus
    <2>2. /\ c \in Call /\ c.slot = s /\ c.capacity = n /\ c.status = st
      BY <2>1, NothingTyped DEF Call, NoCall, AllEndpoints
    <2>3. "writeEdit" \in Labels /\ Begin(r, "writeEdit", c)
      BY <1>1 DEF BeginEdit, Labels
    <2> HIDE DEF st, c
    <2>4. pc'[r] = "writeEdit" /\ call'[r] = c
      BY <2>2, <2>3, BeginFacts DEF Inv
    <2>5. Memory(r)' /\ Held(r)' /\ ~InTransaction(r)'
      BY <2>1, <2>2, <2>4 DEF Memory, Held, InTransaction, BookLabels, ClaimLabels
    <2>6. \A q \in Requests \ {r} : Excludes(q, r)'
      BY <2>5 DEF Excludes, InTransaction
    <2> QED
      BY <1>1, <1>a, <2>2, <2>3, <2>5, <2>6, QuietStep DEF BeginEdit
  <1>2. ASSUME NEW s \in Slots, BeginCancel(r, s) PROVE Inv'
    <2> DEFINE c == [NoCall EXCEPT !.ep = "cancel", !.slot = s]
    <2>1. c \in Call /\ c.slot = s
      BY NothingTyped DEF Call, NoCall, AllEndpoints
    <2>2. "writeCancel" \in Labels /\ Begin(r, "writeCancel", c)
      BY <1>2 DEF BeginCancel, Labels
    <2> HIDE DEF c
    <2>3. pc'[r] = "writeCancel" /\ call'[r] = c
      BY <2>1, <2>2, BeginFacts DEF Inv
    <2>4. Memory(r)' /\ Held(r)' /\ ~InTransaction(r)'
      BY <2>1, <2>3 DEF Memory, Held, InTransaction, BookLabels, ClaimLabels
    <2>5. \A q \in Requests \ {r} : Excludes(q, r)'
      BY <2>4 DEF Excludes, InTransaction
    <2> QED
      BY <1>2, <1>a, <2>1, <2>2, <2>4, <2>5, QuietStep DEF BeginCancel
  <1>3. ASSUME NEW a \in Applications, NEW s \in Slots, BeginBook(r, a, s) PROVE Inv'
    <2> DEFINE c == [NoCall EXCEPT !.ep = "book", !.app = a, !.slot = s]
    <2>1. c \in Call /\ c.slot = s /\ c.app = a
      BY NothingTyped DEF Call, NoCall, AllEndpoints
    <2>2. "lockSlot" \in Labels /\ Begin(r, "lockSlot", c)
      BY <1>3 DEF BeginBook, Labels
    <2> HIDE DEF c
    <2>3. pc'[r] = "lockSlot" /\ call'[r] = c
      BY <2>1, <2>2, BeginFacts DEF Inv
    <2>4. Memory(r)' /\ Held(r)' /\ ~InTransaction(r)'
      BY <2>1, <2>3 DEF Memory, Held, InTransaction, BookLabels, ClaimLabels
    <2>5. \A q \in Requests \ {r} : Excludes(q, r)'
      BY <2>4 DEF Excludes, InTransaction
    <2> QED
      BY <1>3, <1>a, <2>1, <2>2, <2>4, <2>5, QuietStep DEF BeginBook
  <1>4. ASSUME NEW a \in Applications, BeginValidate(r, a) PROVE Inv'
    <2> DEFINE b == bookings[a]
               l == IF b.status = "claimed" THEN "loadClaim" ELSE "claimBooking"
               c == [NoCall EXCEPT !.ep = "validate", !.app = a, !.seen = b]
    <2>1. c \in Call /\ c.app = a
      BY <1>a, NothingTyped DEF Call, NoCall, AllEndpoints
    <2>2. l \in {"loadClaim", "claimBooking"} /\ l \in Labels /\ Begin(r, l, c)
      BY <1>4 DEF BeginValidate, Labels
    <2>3. bookings'[a].status # "none"
      BY <1>4 DEF BeginValidate
    <2> HIDE DEF c, l, b
    <2>4. pc'[r] = l /\ call'[r] = c
      BY <2>1, <2>2, BeginFacts DEF Inv
    <2>5. Memory(r)' /\ Held(r)' /\ ~InTransaction(r)'
      BY <2>1, <2>2, <2>3, <2>4 DEF Memory, Held, InTransaction, BookLabels, ClaimLabels
    <2>6. \A q \in Requests \ {r} : Excludes(q, r)'
      BY <2>5 DEF Excludes, InTransaction
    <2> QED
      BY <1>4, <1>a, <2>1, <2>2, <2>5, <2>6, QuietStep DEF BeginValidate
  <1> QED
    BY <1>1, <1>2, <1>3, <1>4 DEF Arrive

\* The statements of a booking transaction that only read and lock.
LEMMA LockingStep ==
  ASSUME Inv, NEW r \in Requests, LockSlot(r) \/ FindBooking(r) \/ LockBooking(r)
  PROVE  Inv'
  <1> USE DEF tables
  <1>a. /\ cases \in [Applications -> {"approved", "claimed"}]
        /\ claims \in [Applications -> Booking]
        /\ payouts \in [Applications -> Nat]
        /\ slots \in [Slots -> Slot]
        /\ bookings \in [Applications -> Booking]
        /\ call[r] \in Call
    BY DEF Inv, TypeOK
  <1>b. /\ Memory(r) /\ Held(r)
        /\ \A q \in Requests \ {r} : Excludes(q, r)
    BY DEF Inv, Requested, Exclusive
  <1>c. UNCHANGED <<slots, bookings, cases, claims, payouts>>
    BY DEF LockSlot, FindBooking, LockBooking
  <1>d. SUFFICES ASSUME ~Answer(r) PROVE Inv'
    BY <1>a, <1>c, AnswerStep
  <1>1. CASE LockSlot(r)
    <2>1. "findBooking" \in Labels /\ Begin(r, "findBooking", call[r])
      BY <1>1, <1>d DEF LockSlot, Goto, Labels
    <2>2. pc'[r] = "findBooking" /\ call'[r] = call[r]
      BY <1>a, <2>1, BeginFacts DEF Inv
    <2>3. slots[call[r].slot].booked < slots[call[r].slot].capacity
      BY <1>1, <1>d DEF LockSlot
    <2>4. Memory(r)' /\ Held(r)'
      BY <1>1, <1>b, <1>c, <2>2, <2>3
      DEF Memory, Held, InTransaction, BookLabels, ClaimLabels, LockSlot
    <2>5. \A q \in Requests \ {r} : pc'[q] = pc[q] /\ call'[q] = call[q]
      BY <1>a, <2>1, BeginFacts DEF Inv
    <2>6. \A q \in Requests \ {r} : Excludes(q, r)'
      BY <1>1, <2>2, <2>5 DEF LockSlot, SlotFree, HoldsSlot, Excludes, InTransaction
    <2> QED
      BY <1>a, <1>c, <2>1, <2>4, <2>6, QuietStep
  <1>2. CASE FindBooking(r)
    <2>1. PICK l \in {"insert", "lockBooking"}, c \in Call :
            /\ Begin(r, l, c) /\ c.slot = call[r].slot /\ c.app = call[r].app
            /\ l = "lockBooking" => c.prior \in Slots
      <3> DEFINE b == bookings[call[r].app]
                 d == [call[r] EXCEPT !.prior = b.slot]
      <3>1. CASE b.status = "none"
        BY <1>2, <1>a, <3>1 DEF FindBooking, Goto
      <3>2. CASE b.status # "none"
        <4>1. b.slot \in Slots
          BY <1>2, <1>b, <3>2 DEF FindBooking, Memory, BookLabels, Inv, Rows
        <4>2. d \in Call /\ d.slot = call[r].slot /\ d.app = call[r].app /\ d.prior = b.slot
          BY <1>a, <4>1 DEF Call
        <4>3. Begin(r, "lockBooking", d)
          BY <1>2, <3>2 DEF FindBooking
        <4> HIDE DEF d
        <4> QED
          BY <4>1, <4>2, <4>3
      <3> QED
        BY <3>1, <3>2
    <2>2. l \in Labels
      BY DEF Labels
    <2>3. /\ pc'[r] = l /\ call'[r] = c
          /\ \A q \in Requests \ {r} : pc'[q] = pc[q] /\ call'[q] = call[q]
      BY <2>1, <2>2, BeginFacts DEF Inv
    <2>4. pc[r] = "findBooking"
      BY <1>2 DEF FindBooking
    <2>5. Memory(r)' /\ Held(r)'
      BY <1>b, <1>c, <2>1, <2>3, <2>4
      DEF Memory, Held, InTransaction, BookLabels, ClaimLabels
    <2>6. \A q \in Requests \ {r} : Excludes(q, r)'
      BY <1>b, <2>1, <2>3, <2>4 DEF Excludes, InTransaction
    <2> QED
      BY <1>a, <1>c, <2>1, <2>2, <2>5, <2>6, QuietStep
  <1>3. CASE LockBooking(r)
    <2>1. "move" \in Labels /\ Begin(r, "move", call[r])
      BY <1>3, <1>d DEF LockBooking, Goto, Labels
    <2>2. /\ pc'[r] = "move" /\ call'[r] = call[r]
          /\ \A q \in Requests \ {r} : pc'[q] = pc[q] /\ call'[q] = call[q]
      BY <1>a, <2>1, BeginFacts DEF Inv
    <2>3. /\ pc[r] = "lockBooking"
          /\ call[r].prior # call[r].slot
          /\ bookings[call[r].app].status = "booked"
          /\ bookings[call[r].app].slot = call[r].prior
      BY <1>3, <1>d DEF LockBooking
    <2>4. Memory(r)' /\ Held(r)'
      BY <1>b, <1>c, <2>2, <2>3
      DEF Memory, Held, InTransaction, BookLabels, ClaimLabels
    <2>5. \A q \in Requests \ {r} : Excludes(q, r)'
      BY <1>3, <1>b, <2>2, <2>3
      DEF LockBooking, BookingFree, HoldsBooking, Excludes, InTransaction
    <2> QED
      BY <1>a, <1>c, <2>1, <2>4, <2>5, QuietStep
  <1> QED
    BY <1>1, <1>2, <1>3

\* The last statements of a validation, and the steps that end a request.
LEMMA EndingStep ==
  ASSUME Inv, NEW r \in Requests,
         \/ AnswerClaimed(r) \/ ClaimCase(r) \/ RecordClaim(r)
         \/ AbortDeadlocked(r) \/ Drop(r)
  PROVE  Inv'
  <1> USE DEF tables
  <1>a. /\ cases \in [Applications -> {"approved", "claimed"}]
        /\ claims \in [Applications -> Booking]
        /\ payouts \in [Applications -> Nat]
        /\ call[r] \in Call
        /\ Memory(r) /\ Held(r)
    BY DEF Inv, TypeOK, Requested
  <1>1. CASE AnswerClaimed(r) \/ AbortDeadlocked(r) \/ Drop(r)
    <2>1. Answer(r) /\ UNCHANGED <<slots, bookings, cases, claims, payouts>>
      BY <1>1 DEF AnswerClaimed, AbortDeadlocked, Drop
    <2> QED
      BY <1>a, <2>1, AnswerStep
  <1>2. CASE ClaimCase(r)
    <2>1. "recordClaim" \in Labels /\ Begin(r, "recordClaim", call[r])
      BY <1>2 DEF ClaimCase, Goto, Labels
    <2>2. pc'[r] = "recordClaim" /\ call'[r] = call[r]
      BY <1>a, <2>1, BeginFacts DEF Inv
    <2>3. Memory(r)' /\ Held(r)' /\ ~InTransaction(r)'
      BY <1>2, <1>a, <2>2
      DEF Memory, Held, InTransaction, BookLabels, ClaimLabels, ClaimCase
    <2>4. \A q \in Requests \ {r} : Excludes(q, r)'
      BY <2>3 DEF Excludes, InTransaction
    <2>5. cases' \in [Applications -> {"approved", "claimed"}]
      BY <1>2, <1>a DEF ClaimCase
    <2> QED
      BY <1>2, <1>a, <2>1, <2>3, <2>4, <2>5, QuietStep DEF ClaimCase
  <1>3. CASE RecordClaim(r)
    <2>1. call[r].seen \in Booking
      BY <1>a DEF Call
    <2>2. PICK a \in Applications : a = call[r].app
      BY <1>3, <1>a DEF RecordClaim, Memory, ClaimLabels
    <2>3. PICK b \in Booking : claims' = [claims EXCEPT ![a] = b]
      BY <1>3, <1>a, <2>1, <2>2 DEF RecordClaim
    <2>4. claims' \in [Applications -> Booking]
      BY <1>a, <2>3
    <2>5. payouts' = [payouts EXCEPT ![a] = payouts[a] + 1]
      BY <1>3, <2>2 DEF RecordClaim
    <2>6. payouts' \in [Applications -> Nat]
      BY <1>a, <2>5
    <2> QED
      BY <1>3, <1>a, <2>4, <2>6, AnswerStep DEF RecordClaim
  <1> QED
    BY <1>1, <1>2, <1>3

(***************************************************************************)
(* Steps that write slots or bookings                                      *)
(***************************************************************************)

\* A write keeps the invariant if it leaves the rows others hold, unmakes no
\* booking, and the seats still count.
LEMMA WriteStep ==
  ASSUME Inv, NEW r \in Requests, NEW l \in Labels, NEW c \in Call, Begin(r, l, c),
         ~InTransaction(r)',
         slots' \in [Slots -> Slot], bookings' \in [Applications -> Booking],
         UNCHANGED <<cases, claims, payouts>>,
         \A q \in Requests \ {r} :
           /\ InTransaction(q) => slots'[call[q].slot] = slots[call[q].slot]
           /\ pc[q] = "move" => bookings'[call[q].app] = bookings[call[q].app],
         \A a \in Applications : bookings[a].status # "none" => bookings'[a].status # "none",
         Memory(r)', Held(r)', Rows', SeatsCount'
  PROVE  Inv'
  <1>1. /\ pc' \in [Requests -> Labels] /\ call' \in [Requests -> Call]
        /\ \A q \in Requests \ {r} : pc'[q] = pc[q] /\ call'[q] = call[q]
    BY BeginFacts DEF Inv
  <1>2. TypeOK'
    BY <1>1 DEF Inv, TypeOK
  <1>3. Requested'
    <2> SUFFICES ASSUME NEW q \in Requests, q # r PROVE Memory(q)' /\ Held(q)'
      BY DEF Requested
    <2>1. Memory(q) /\ Held(q)
      BY DEF Inv, Requested
    <2>2. Memory(q)'
      BY <1>1, <2>1 DEF Memory
    <2>3. Held(q)'
      BY <1>1, <2>1 DEF Held, Memory, InTransaction, BookLabels, ClaimLabels
    <2> QED
      BY <2>2, <2>3
  <1>4. Exclusive'
    <2> SUFFICES ASSUME NEW p \in Requests, NEW q \in Requests, p # q PROVE Excludes(p, q)'
      BY DEF Exclusive
    <2>1. CASE p # r /\ q # r
      <3>1. Excludes(p, q)
        BY DEF Inv, Exclusive
      <3> QED
        BY <1>1, <2>1, <3>1 DEF Excludes, InTransaction
    <2>2. CASE p = r \/ q = r
      BY <2>2 DEF Excludes, InTransaction
    <2> QED
      BY <2>1, <2>2
  <1> QED
    BY <1>2, <1>3, <1>4 DEF Inv

\* The step after which a request is idle leaves nothing to show of it.
LEMMA IdleFacts ==
  ASSUME TypeOK, NEW r \in Requests, Answer(r)
  PROVE  /\ "idle" \in Labels /\ NoCall \in Call /\ Begin(r, "idle", NoCall)
         /\ Memory(r)' /\ Held(r)' /\ ~InTransaction(r)'
  <1>1. "idle" \in Labels /\ NoCall \in Call /\ Begin(r, "idle", NoCall)
    BY NothingTyped DEF Labels, Answer
  <1>2. pc'[r] = "idle"
    BY <1>1, BeginFacts
  <1> QED
    BY <1>1, <1>2 DEF Memory, Held, InTransaction, BookLabels, ClaimLabels

\* Edits and cancellations leave the seats and every locked row alone.
LEMMA SlotWriteStep ==
  ASSUME Inv, NEW r \in Requests, WriteEdit(r) \/ WriteCancel(r)
  PROVE  Inv'
  <1>1. PICK s \in Slots : s = call[r].slot
    BY DEF Inv, Requested, Memory, WriteEdit, WriteCancel
  <1>2. /\ slots \in [Slots -> Slot] /\ bookings \in [Applications -> Booking]
        /\ SlotFree(s) /\ Answer(r) /\ UNCHANGED <<bookings, cases, claims, payouts>>
    BY <1>1 DEF Inv, TypeOK, WriteEdit, WriteCancel
  <1>3. PICK row \in Slot :
          /\ slots' = [slots EXCEPT ![s] = row]
          /\ row.booked = slots[s].booked
          /\ row.booked <= row.capacity
          /\ row.status # "none" \/ row = slots[s]
    <2>1. slots[s] \in Slot /\ slots[s].booked <= slots[s].capacity
      BY <1>2 DEF Inv, SeatsCount
    <2>2. CASE WriteEdit(r)
      <3>1. /\ call[r].capacity \in Nat /\ call[r].status \in {"open", "closed"}
        BY <2>2, BookingConfiguration DEF WriteEdit, Inv, Requested, Memory
      <3>2. CASE slots[s].booked <= call[r].capacity
        <4> DEFINE row == [slots[s] EXCEPT !.capacity = call[r].capacity,
                                           !.status = call[r].status]
        <4>1. slots' = [slots EXCEPT ![s] = row]
          BY <1>1, <1>2, <2>2, <3>2 DEF WriteEdit
        <4>2. /\ row \in Slot /\ row.booked = slots[s].booked
              /\ row.capacity = call[r].capacity /\ row.status # "none"
          BY <2>1, <3>1 DEF Slot
        <4> HIDE DEF row
        <4> QED
          BY <3>2, <4>1, <4>2
      <3>3. CASE ~(slots[s].booked <= call[r].capacity)
        <4>1. slots' = [slots EXCEPT ![s] = slots[s]]
          BY <1>1, <1>2, <2>2, <3>3 DEF WriteEdit
        <4> QED
          BY <2>1, <4>1
      <3> QED
        BY <3>2, <3>3
    <2>3. CASE WriteCancel(r)
      <3> DEFINE row == [slots[s] EXCEPT !.status = "cancelled"]
      <3>1. slots' = [slots EXCEPT ![s] = row]
        BY <1>1, <1>2, <2>3 DEF WriteCancel
      <3>2. /\ row \in Slot /\ row.booked = slots[s].booked
            /\ row.capacity = slots[s].capacity /\ row.status # "none"
        BY <2>1 DEF Slot
      <3> HIDE DEF row
      <3> QED
        BY <2>1, <3>1, <3>2
    <2> QED
      BY <2>2, <2>3
  <1>4. /\ slots' \in [Slots -> Slot]
        /\ slots'[s] = row
        /\ \A t \in Slots \ {s} : slots'[t] = slots[t]
    BY <1>2, <1>3
  <1>5. \A q \in Requests \ {r} : InTransaction(q) => slots'[call[q].slot] = slots[call[q].slot]
    <2> SUFFICES ASSUME NEW q \in Requests, InTransaction(q)
                 PROVE  slots'[call[q].slot] = slots[call[q].slot]
      OBVIOUS
    <2>1. call[q].slot \in Slots
      BY DEF Inv, Requested, Memory, InTransaction, BookLabels
    <2>2. call[q].slot # s
      BY <1>2 DEF SlotFree, HoldsSlot
    <2> QED
      BY <1>4, <2>1, <2>2
  <1>6. Rows'
    BY <1>2, <1>3, <1>4 DEF Inv, Rows
  <1>7. SeatsCount'
    BY <1>2, <1>3, <1>4 DEF Inv, SeatsCount, Seated
  <1>8. TypeOK
    BY DEF Inv
  <1> QED
    BY <1>2, <1>4, <1>5, <1>6, <1>7, <1>8, IdleFacts, WriteStep

TakersIn(f, s) == {a \in Applications : f[a].slot = s}

Moved(f, g, a, s) ==
  /\ f[a].slot # s
  /\ \A b \in Applications : g[b].slot = IF b = a THEN s ELSE f[b].slot

\* One seat moves: the slot it leaves counts one less, the other one more.
LEMMA SeatsMove ==
  ASSUME NEW f, NEW g, NEW a \in Applications, NEW s, NEW t, Moved(f, g, a, s)
  PROVE  Cardinality(TakersIn(g, t)) =
           IF t = s THEN Cardinality(TakersIn(f, t)) + 1
           ELSE IF t = f[a].slot THEN Cardinality(TakersIn(f, t)) - 1
           ELSE Cardinality(TakersIn(f, t))
  <1>1. IsFiniteSet(TakersIn(f, t))
    <2>1. TakersIn(f, t) \subseteq Applications
      BY DEF TakersIn
    <2> QED
      BY <2>1, FiniteTables, FS_Subset
  <1>2. CASE t = s
    <2>1. TakersIn(g, t) = TakersIn(f, t) \union {a} /\ a \notin TakersIn(f, t)
      BY <1>2 DEF TakersIn, Moved
    <2> QED
      BY <1>1, <1>2, <2>1, FS_AddElement
  <1>3. CASE t = f[a].slot
    <2>1. TakersIn(g, t) = TakersIn(f, t) \ {a} /\ a \in TakersIn(f, t) /\ t # s
      BY <1>3 DEF TakersIn, Moved
    <2> QED
      BY <1>1, <1>3, <2>1, FS_RemoveElement
  <1>4. CASE t # s /\ t # f[a].slot
    <2>1. TakersIn(g, t) = TakersIn(f, t)
      BY <1>4 DEF TakersIn, Moved
    <2> QED
      BY <1>4, <2>1
  <1> QED
    BY <1>2, <1>3, <1>4

LEMMA NewBookingFacts ==
  ASSUME Inv, NEW r \in Requests, pc[r] \in {"move", "insert"}
  PROVE  /\ NewBooking(r) \in Booking
         /\ NewBooking(r).slot = call[r].slot /\ NewBooking(r).status = "booked"
  <1>1. call[r].slot \in Slots /\ call[r].app \in Applications
    BY DEF Inv, Requested, Memory, BookLabels
  <1>2. slots[call[r].slot] \in Slot /\ bookings[call[r].app] \in Booking
    BY <1>1 DEF Inv, TypeOK
  <1>3. slots[call[r].slot].booked + 1 \in Nat /\ bookings[call[r].app].token + 1 \in Nat
    BY <1>2 DEF Slot, Booking
  <1> QED
    BY <1>1, <1>3 DEF NewBooking, Booking

LEMMA MoveStep ==
  ASSUME Inv, NEW r \in Requests, MoveBooking(r)
  PROVE  Inv'
  <1>1. PICK a \in Applications, s \in Slots, p \in Slots :
          a = call[r].app /\ s = call[r].slot /\ p = call[r].prior
    BY DEF Inv, Requested, Memory, MoveBooking, BookLabels
  <1>2. /\ slots \in [Slots -> Slot] /\ bookings \in [Applications -> Booking]
        /\ SlotFree(p) /\ Answer(r) /\ UNCHANGED <<cases, claims, payouts>>
        /\ pc[r] = "move" /\ TypeOK
        /\ \A t \in Slots : /\ slots[t].booked = Cardinality(Seated(t))
                            /\ slots[t].booked <= slots[t].capacity
    BY <1>1 DEF Inv, TypeOK, SeatsCount, MoveBooking
  <1>3. /\ slots[s].booked < slots[s].capacity
        /\ p # s /\ bookings[a].status = "booked" /\ bookings[a].slot = p
    BY <1>1, <1>2 DEF Inv, Requested, Held, InTransaction
  <1>4. slots[p].booked > 0
    <2>1. a \in Seated(p)
      BY <1>3 DEF Seated
    <2>2. Cardinality(Seated(p)) # 0 /\ Cardinality(Seated(p)) \in Nat
      BY <2>1, SeatedFinite, FS_EmptySet
    <2> QED
      BY <1>2, <2>2
  <1>5. /\ slots' \in [Slots -> Slot]
        /\ slots'[p] = Freed(slots[p]) /\ slots'[s] = Filled(slots[s])
        /\ \A t \in Slots \ {s, p} : slots'[t] = slots[t]
    <2>1. slots' = [slots EXCEPT ![p] = Freed(slots[p]), ![s] = Filled(slots[s])]
      BY <1>1, <1>2, <1>3 DEF MoveBooking
    <2>2. Freed(slots[p]) \in Slot /\ Filled(slots[s]) \in Slot
      BY <1>2, <1>3, <1>4, FreedFacts, FilledFacts
    <2> QED
      BY <1>2, <1>3, <2>1, <2>2
  <1>6. /\ NewBooking(r) \in Booking
        /\ NewBooking(r).slot = s /\ NewBooking(r).status = "booked"
        /\ bookings' = [bookings EXCEPT ![a] = NewBooking(r)]
    BY <1>1, <1>2, NewBookingFacts DEF MoveBooking
  <1>7. /\ bookings' \in [Applications -> Booking] /\ bookings'[a] = NewBooking(r)
        /\ \A b \in Applications \ {a} : bookings'[b] = bookings[b]
    BY <1>2, <1>6
  <1>8. ASSUME NEW q \in Requests, q # r
        PROVE  /\ InTransaction(q) => slots'[call[q].slot] = slots[call[q].slot]
               /\ pc[q] = "move" => bookings'[call[q].app] = bookings[call[q].app]
    <2>1. Memory(q) /\ Excludes(q, r)
      BY <1>8 DEF Inv, Requested, Exclusive
    <2>2. InTransaction(q) => call[q].slot \in Slots \ {s, p}
      BY <1>1, <1>2, <2>1 DEF Excludes, InTransaction, SlotFree, HoldsSlot, Memory, BookLabels
    <2>3. pc[q] = "move" => call[q].app \in Applications \ {a}
      BY <1>1, <1>2, <2>1 DEF Excludes, Memory, BookLabels
    <2> QED
      BY <1>5, <1>7, <2>2, <2>3
  <1>9. Rows'
    <2>1. \A t \in Slots : slots'[t].status = "none" =>
                              slots'[t].booked = 0 /\ slots'[t].capacity = 0
      <3>1. /\ slots[s] \in Slot /\ slots[s].booked \in Nat /\ slots[s].capacity \in Nat
            /\ slots[p] \in Slot /\ slots[p].booked \in Nat
        BY <1>2 DEF Slot
      <3>2. slots[s].status # "none" /\ slots[p].status # "none"
        BY <1>3, <1>4, <3>1 DEF Inv, Rows
      <3>3. slots'[s].status # "none"
        BY <1>3, <1>5, <3>1, <3>2, FilledFacts
      <3>4. slots'[p].status # "none"
        BY <1>2, <1>4, <1>5, <3>1, <3>2, FreedFacts
      <3> QED
        BY <1>5, <3>3, <3>4 DEF Inv, Rows
    <2>2. \A b \in Applications : IF bookings'[b].status = "none"
                                  THEN bookings'[b].slot = None
                                  ELSE bookings'[b].slot \in Slots
      BY <1>6, <1>7 DEF Inv, Rows
    <2> QED
      BY <2>1, <2>2 DEF Rows
  <1>10. SeatsCount'
    <2> SUFFICES ASSUME NEW t \in Slots
                 PROVE  /\ slots'[t].booked = Cardinality(Seated(t)')
                        /\ slots'[t].booked <= slots'[t].capacity
      BY DEF SeatsCount
    <2>1. Cardinality(Seated(t)') =
            IF t = s THEN Cardinality(Seated(t)) + 1
            ELSE IF t = p THEN Cardinality(Seated(t)) - 1 ELSE Cardinality(Seated(t))
      <3>1. Moved(bookings, bookings', a, s)
        BY <1>3, <1>6, <1>7 DEF Moved
      <3>2. Seated(t) = TakersIn(bookings, t) /\ Seated(t)' = TakersIn(bookings', t)
        BY DEF Seated, TakersIn
      <3>3. Cardinality(TakersIn(bookings', t)) =
              IF t = s THEN Cardinality(TakersIn(bookings, t)) + 1
              ELSE IF t = bookings[a].slot THEN Cardinality(TakersIn(bookings, t)) - 1
              ELSE Cardinality(TakersIn(bookings, t))
        BY <3>1, SeatsMove
      <3> QED
        BY <1>3, <3>2, <3>3
    <2>2. CASE t = s
      BY <1>2, <1>3, <1>5, <2>1, <2>2, FilledFacts
    <2>3. CASE t = p
      BY <1>2, <1>3, <1>4, <1>5, <2>1, <2>3, FreedFacts
    <2>4. CASE t \notin {s, p}
      BY <1>2, <1>5, <2>1, <2>4
    <2> QED
      BY <2>2, <2>3, <2>4
  <1>11. \A b \in Applications : bookings[b].status # "none" => bookings'[b].status # "none"
    BY <1>6, <1>7
  <1> QED
    BY <1>2, <1>5, <1>7, <1>8, <1>9, <1>10, <1>11, IdleFacts, WriteStep

LEMMA InsertStep ==
  ASSUME Inv, NEW r \in Requests, InsertBooking(r)
  PROVE  Inv'
  <1>1. PICK a \in Applications, s \in Slots : a = call[r].app /\ s = call[r].slot
    BY DEF Inv, Requested, Memory, InsertBooking, BookLabels
  <1>2. /\ slots \in [Slots -> Slot] /\ bookings \in [Applications -> Booking]
        /\ cases \in [Applications -> {"approved", "claimed"}]
        /\ claims \in [Applications -> Booking] /\ payouts \in [Applications -> Nat]
        /\ Answer(r) /\ UNCHANGED <<cases, claims, payouts>>
        /\ pc[r] = "insert" /\ TypeOK
        /\ \A t \in Slots : /\ slots[t].booked = Cardinality(Seated(t))
                            /\ slots[t].booked <= slots[t].capacity
    BY <1>1 DEF Inv, TypeOK, SeatsCount, InsertBooking
  <1>3. SUFFICES ASSUME bookings[a].status = "none" PROVE Inv'
    BY <1>1, <1>2, AnswerStep DEF InsertBooking
  <1>4. slots[s].booked < slots[s].capacity /\ bookings[a].slot = None /\ s # None
    BY <1>1, <1>2, <1>3, NoneIsNoSlot DEF Inv, Requested, Held, InTransaction, Rows
  <1>5. /\ slots' \in [Slots -> Slot]
        /\ slots'[s] = Filled(slots[s])
        /\ \A t \in Slots \ {s} : slots'[t] = slots[t]
    BY <1>1, <1>2, <1>3, <1>4, FilledFacts DEF InsertBooking
  <1>6. /\ NewBooking(r) \in Booking
        /\ NewBooking(r).slot = s /\ NewBooking(r).status = "booked"
        /\ bookings' = [bookings EXCEPT ![a] = NewBooking(r)]
    BY <1>1, <1>2, <1>3, NewBookingFacts DEF InsertBooking
  <1>7. /\ bookings' \in [Applications -> Booking] /\ bookings'[a] = NewBooking(r)
        /\ \A b \in Applications \ {a} : bookings'[b] = bookings[b]
    BY <1>2, <1>6
  <1>8. ASSUME NEW q \in Requests, q # r
        PROVE  /\ InTransaction(q) => slots'[call[q].slot] = slots[call[q].slot]
               /\ pc[q] = "move" => bookings'[call[q].app] = bookings[call[q].app]
    <2>1. Memory(q) /\ Held(q) /\ Excludes(q, r)
      BY <1>8 DEF Inv, Requested, Exclusive
    <2>2. InTransaction(q) => call[q].slot \in Slots \ {s}
      BY <1>1, <1>2, <2>1 DEF Excludes, InTransaction, Memory, BookLabels
    <2>3. pc[q] = "move" => call[q].app \in Applications \ {a}
      BY <1>3, <2>1 DEF Held, Memory, BookLabels
    <2> QED
      BY <1>5, <1>7, <2>2, <2>3
  <1>9. Rows'
    <2>1. slots[s] \in Slot /\ slots[s].booked \in Nat /\ slots[s].capacity \in Nat
      BY <1>2 DEF Slot
    <2>2. slots[s].status # "none"
      BY <1>4, <2>1 DEF Inv, Rows
    <2>3. slots'[s].status # "none"
      BY <1>4, <1>5, <2>1, <2>2, FilledFacts
    <2>4. \A b \in Applications : IF bookings'[b].status = "none"
                                  THEN bookings'[b].slot = None
                                  ELSE bookings'[b].slot \in Slots
      BY <1>6, <1>7 DEF Inv, Rows
    <2> QED
      BY <1>5, <2>3, <2>4 DEF Inv, Rows
  <1>10. SeatsCount'
    <2> SUFFICES ASSUME NEW t \in Slots
                 PROVE  /\ slots'[t].booked = Cardinality(Seated(t)')
                        /\ slots'[t].booked <= slots'[t].capacity
      BY DEF SeatsCount
    <2>1. Cardinality(Seated(t)') =
            IF t = s THEN Cardinality(Seated(t)) + 1
            ELSE IF t = None THEN Cardinality(Seated(t)) - 1 ELSE Cardinality(Seated(t))
      <3>1. Moved(bookings, bookings', a, s)
        BY <1>4, <1>6, <1>7 DEF Moved
      <3>2. Seated(t) = TakersIn(bookings, t) /\ Seated(t)' = TakersIn(bookings', t)
        BY DEF Seated, TakersIn
      <3>3. Cardinality(TakersIn(bookings', t)) =
              IF t = s THEN Cardinality(TakersIn(bookings, t)) + 1
              ELSE IF t = bookings[a].slot THEN Cardinality(TakersIn(bookings, t)) - 1
              ELSE Cardinality(TakersIn(bookings, t))
        BY <3>1, SeatsMove
      <3> QED
        BY <1>4, <3>2, <3>3
    <2>2. t # None
      BY NoneIsNoSlot
    <2>3. CASE t = s
      BY <1>2, <1>4, <1>5, <2>1, <2>3, FilledFacts
    <2>4. CASE t # s
      BY <1>2, <1>5, <2>1, <2>2, <2>4
    <2> QED
      BY <2>3, <2>4
  <1>11. \A b \in Applications : bookings[b].status # "none" => bookings'[b].status # "none"
    BY <1>6, <1>7
  <1> QED
    BY <1>2, <1>5, <1>7, <1>8, <1>9, <1>10, <1>11, IdleFacts, WriteStep

LEMMA ClaimStep ==
  ASSUME Inv, NEW r \in Requests, ClaimBooking(r)
  PROVE  Inv'
  <1>1. PICK a \in Applications : a = call[r].app
    BY DEF Inv, Requested, Memory, ClaimBooking, ClaimLabels
  <1>2. /\ slots \in [Slots -> Slot] /\ bookings \in [Applications -> Booking]
        /\ call[r] \in Call /\ TypeOK
        /\ BookingFree(a) /\ UNCHANGED <<slots, cases, claims, payouts>>
        /\ pc[r] = "claimBooking" /\ bookings[a].status # "none"
    BY <1>1 DEF Inv, TypeOK, Requested, Held, ClaimBooking, ClaimLabels
  <1>3. PICK b \in Booking :
          /\ bookings' = [bookings EXCEPT ![a] = b]
          /\ b.slot = bookings[a].slot /\ b.status = "claimed"
    <2> DEFINE b == [bookings[a] EXCEPT !.status = "claimed"]
    <2>1. bookings' = [bookings EXCEPT ![a] = b]
      BY <1>1, <1>2 DEF ClaimBooking
    <2>2. b \in Booking /\ b.slot = bookings[a].slot /\ b.status = "claimed"
      BY <1>2 DEF Booking
    <2> HIDE DEF b
    <2> QED
      BY <2>1, <2>2
  <1>4. /\ bookings' \in [Applications -> Booking] /\ bookings'[a] = b
        /\ \A d \in Applications \ {a} : bookings'[d] = bookings[d]
    BY <1>2, <1>3
  <1>5. "claimCase" \in Labels /\ Begin(r, "claimCase", call[r])
    BY DEF ClaimBooking, Goto, Labels
  <1>6. pc'[r] = "claimCase" /\ call'[r] = call[r]
    BY <1>2, <1>5, BeginFacts
  <1>7. Memory(r)' /\ Held(r)' /\ ~InTransaction(r)'
    BY <1>1, <1>3, <1>4, <1>6 DEF Memory, Held, InTransaction, BookLabels, ClaimLabels
  <1>8. ASSUME NEW q \in Requests, pc[q] = "move"
        PROVE  bookings'[call[q].app] = bookings[call[q].app]
    <2>1. call[q].app \in Applications \ {a}
      BY <1>2, <1>8 DEF BookingFree, HoldsBooking, Inv, Requested, Memory, BookLabels
    <2> QED
      BY <1>4, <2>1
  <1>9. Rows'
    BY <1>2, <1>3, <1>4 DEF Inv, Rows
  <1>10. SeatsCount'
    <2>1. \A t : Seated(t)' = Seated(t)
      BY <1>3, <1>4 DEF Seated
    <2> QED
      BY <1>2, <2>1 DEF Inv, SeatsCount
  <1>11. \A d \in Applications : bookings[d].status # "none" => bookings'[d].status # "none"
    BY <1>3, <1>4
  <1> QED
    BY <1>2, <1>4, <1>5, <1>7, <1>8, <1>9, <1>10, <1>11, WriteStep

LEMMA CreateStep ==
  ASSUME Inv, NEW s \in Slots, NEW n \in Capacities, CreateSlot(s, n)
  PROVE  Inv'
  <1> DEFINE row == [status |-> "open", capacity |-> n, booked |-> 0]
  <1>1. n \in Nat /\ n > 0 /\ row \in Slot
        /\ row.booked = 0 /\ row.capacity = n /\ row.status = "open"
    BY BookingConfiguration DEF Slot
  <1>2. /\ slots \in [Slots -> Slot] /\ slots' = [slots EXCEPT ![s] = row]
        /\ UNCHANGED <<bookings, cases, claims, pc, call, payouts>>
    BY DEF Inv, TypeOK, CreateSlot, memory
  <1>3. slots[s].status = "none" /\ slots[s].booked = 0
    BY DEF CreateSlot, Inv, Rows
  <1> HIDE DEF row
  <1>4. /\ slots' \in [Slots -> Slot] /\ slots'[s] = row
        /\ \A t \in Slots \ {s} : slots'[t] = slots[t]
    BY <1>1, <1>2
  <1>5. TypeOK'
    BY <1>2, <1>4 DEF Inv, TypeOK
  <1>6. Requested' /\ Exclusive'
    <2>1. ASSUME NEW r \in Requests PROVE Memory(r)' /\ Held(r)'
      <3>1. Memory(r) /\ Held(r)
        BY DEF Inv, Requested
      <3>2. InTransaction(r) => call[r].slot \in Slots
        BY <3>1 DEF Memory, InTransaction, BookLabels
      <3> QED
        BY <1>1, <1>2, <1>4, <3>1, <3>2 DEF Memory, Held, InTransaction
    <2>2. Exclusive'
      BY <1>2 DEF Inv, Exclusive, Excludes, InTransaction
    <2> QED
      BY <2>1, <2>2 DEF Requested
  <1>7. Rows'
    BY <1>1, <1>2, <1>4 DEF Inv, Rows
  <1>8. SeatsCount'
    <2>1. \A t : Seated(t)' = Seated(t)
      BY <1>2 DEF Seated
    <2> QED
      BY <1>1, <1>3, <1>4, <2>1 DEF Inv, SeatsCount
  <1> QED
    BY <1>5, <1>6, <1>7, <1>8 DEF Inv

(***************************************************************************)
(* The invariant                                                           *)
(***************************************************************************)

LEMMA InvInit == Init => Inv
  <1> SUFFICES ASSUME Init PROVE Inv
    OBVIOUS
  <1>1. TypeOK
    <2>1. NoSlot \in Slot
      BY DEF NoSlot, Slot
    <2> QED
      BY <2>1, NothingTyped DEF Init, TypeOK, Labels
  <1>2. Requested
    BY DEF Init, Requested, Memory, Held, InTransaction, BookLabels, ClaimLabels
  <1>3. Exclusive
    BY DEF Init, Exclusive, Excludes, InTransaction
  <1>4. Rows
    BY DEF Init, Rows, NoSlot, NoBooking
  <1>5. SeatsCount
    <2>1. \A s \in Slots : Seated(s) = {}
      BY NoneIsNoSlot DEF Init, Seated, NoBooking
    <2> QED
      BY <2>1, FS_EmptySet DEF Init, SeatsCount, NoSlot
  <1> QED
    BY <1>1, <1>2, <1>3, <1>4, <1>5 DEF Inv

LEMMA InvStep == Inv /\ [Next]_vars => Inv'
  <1> SUFFICES ASSUME Inv, [Next]_vars PROVE Inv'
    OBVIOUS
  <1>1. ASSUME NEW s \in Slots, NEW n \in Capacities, CreateSlot(s, n) PROVE Inv'
    BY <1>1, CreateStep
  <1>2. ASSUME NEW r \in Requests, Arrive(r) PROVE Inv'
    BY <1>2, ArriveStep
  <1>3. ASSUME NEW r \in Requests, Continue(r) PROVE Inv'
    BY <1>3, SlotWriteStep, LockingStep, MoveStep, InsertStep, ClaimStep, EndingStep
    DEF Continue
  <1>4. ASSUME NEW r \in Requests, AbortDeadlocked(r) \/ Drop(r) PROVE Inv'
    BY <1>4, EndingStep
  <1>5. CASE UNCHANGED vars
    <2>1. UNCHANGED <<slots, bookings, cases, claims, pc, call, payouts>>
      BY <1>5 DEF vars, tables, memory
    <2>2. TypeOK' /\ Rows'
      BY <2>1 DEF Inv, TypeOK, Rows
    <2>3. SeatsCount'
      BY <2>1 DEF Inv, SeatsCount, Seated
    <2>4. Requested' /\ Exclusive'
      BY <2>1 DEF Inv, Requested, Exclusive, Memory, Held, Excludes, InTransaction
    <2> QED
      BY <2>2, <2>3, <2>4 DEF Inv
  <1> QED
    BY <1>1, <1>2, <1>3, <1>4, <1>5 DEF Next

\* Rows, transactions, locks, seats and accounts stay as Inv describes them
\* after every step of every request (disbursement.service.ts, office-ops.service.ts).
THEOREM Invariance == Spec => []Inv
  BY InvInit, InvStep, PTL DEF Spec

\* Rows and requests keep their types.
THEOREM TypeCorrect == Spec => []TypeOK
  <1>1. Inv => TypeOK
    BY DEF Inv
  <1> QED
    BY <1>1, Invariance, PTL

\* The seats a slot counts are the bookings on it, and never more than it has:
\* the row locks of bookDisbursementSlot suffice, whatever else runs.
THEOREM SeatsCountHolds == Spec => []SeatsCount
  <1>1. Inv => SeatsCount
    BY DEF Inv
  <1> QED
    BY <1>1, Invariance, PTL

(***************************************************************************)
(* Claimed bookings and the seat map                                       *)
(***************************************************************************)

\* A step leaves the bookings alone, or gives a seat to a case whose booking is
\* not claimed, or claims a booking.
Seats(a, s) ==
  /\ bookings[a].status # "claimed" /\ bookings[a].slot # s
  /\ slots[s].booked < slots[s].capacity
  /\ \E b \in Booking : /\ b.slot = s /\ b.status = "booked"
                        /\ bookings' = [bookings EXCEPT ![a] = b]
  /\ \A t \in Slots : slots'[t].capacity = slots[t].capacity

Claims(a) ==
  /\ bookings[a].status # "none"
  /\ bookings' = [bookings EXCEPT ![a].status = "claimed"]
  /\ UNCHANGED slots

Resizes(s, n) ==
  /\ slots[s].booked <= n
  /\ \A t \in Slots : slots'[t].capacity = IF t = s THEN n ELSE slots[t].capacity
  /\ UNCHANGED bookings

Rests ==
  /\ \A t \in Slots : slots'[t].capacity = slots[t].capacity
  /\ UNCHANGED bookings

LEMMA Effects ==
  ASSUME Inv, [Next]_vars
  PROVE  \/ \E a \in Applications : \E s \in Slots : Seats(a, s)
         \/ \E a \in Applications : Claims(a)
         \/ \E s \in Slots : \E n \in Capacities : Resizes(s, n)
         \/ Rests
  <1>a. slots \in [Slots -> Slot] /\ bookings \in [Applications -> Booking]
    BY DEF Inv, TypeOK
  <1>1. ASSUME NEW s \in Slots, NEW n \in Capacities, CreateSlot(s, n) PROVE Resizes(s, n)
    <2>1. slots[s].booked = 0 /\ n \in Nat
      BY <1>1, BookingConfiguration DEF CreateSlot, Inv, Rows
    <2> QED
      BY <1>1, <1>a, <2>1 DEF CreateSlot, Resizes
  <1>2. ASSUME NEW r \in Requests, Arrive(r) PROVE Rests
    BY <1>2 DEF Arrive, BeginEdit, BeginCancel, BeginBook, BeginValidate, tables, Rests
  <1>3. ASSUME NEW r \in Requests,
               \/ LockSlot(r) \/ FindBooking(r) \/ LockBooking(r) \/ AnswerClaimed(r)
               \/ ClaimCase(r) \/ RecordClaim(r) \/ AbortDeadlocked(r) \/ Drop(r)
        PROVE  Rests
    BY <1>3 DEF LockSlot, FindBooking, LockBooking, AnswerClaimed, ClaimCase, RecordClaim,
                AbortDeadlocked, Drop, tables, Rests
  <1>4. ASSUME NEW r \in Requests, WriteEdit(r)
        PROVE  Rests \/ \E s \in Slots : \E n \in Capacities : Resizes(s, n)
    <2>1. PICK s \in Slots, n \in Capacities : s = call[r].slot /\ n = call[r].capacity
      BY <1>4 DEF WriteEdit, Inv, Requested, Memory
    <2>2. CASE slots[s].booked <= n
      <3>1. Resizes(s, n)
        <4>1. slots' = [slots EXCEPT ![s].capacity = n, ![s].status = call[r].status]
          BY <1>4, <2>1, <2>2 DEF WriteEdit
        <4>2. slots'[s].capacity = n /\ \A t \in Slots \ {s} : slots'[t] = slots[t]
          BY <1>a, <4>1 DEF Slot
        <4> QED
          BY <1>4, <2>2, <4>2 DEF Resizes, WriteEdit
      <3> QED
        BY <3>1
    <2>3. CASE ~(slots[s].booked <= n)
      BY <1>4, <2>1, <2>3 DEF WriteEdit, Rests
    <2> QED
      BY <2>2, <2>3
  <1>5. ASSUME NEW r \in Requests, WriteCancel(r) PROVE Rests
    <2>1. PICK s \in Slots : s = call[r].slot
      BY <1>5 DEF WriteCancel, Inv, Requested, Memory
    <2>2. slots' = [slots EXCEPT ![s].status = "cancelled"]
      BY <1>5, <2>1 DEF WriteCancel
    <2>3. \A t \in Slots : slots'[t].capacity = slots[t].capacity
      BY <1>a, <2>2 DEF Slot
    <2> QED
      BY <1>5, <2>3 DEF WriteCancel, Rests
  <1>6. ASSUME NEW r \in Requests, MoveBooking(r)
        PROVE  \E a \in Applications : \E s \in Slots : Seats(a, s)
    <2>1. PICK a \in Applications, s \in Slots, p \in Slots :
            a = call[r].app /\ s = call[r].slot /\ p = call[r].prior
      BY <1>6 DEF Inv, Requested, Memory, MoveBooking, BookLabels
    <2>2. /\ slots[s].booked < slots[s].capacity
          /\ p # s /\ bookings[a].status = "booked" /\ bookings[a].slot = p
      BY <1>6, <2>1 DEF Inv, Requested, Held, InTransaction, MoveBooking
    <2>3. slots' = [slots EXCEPT ![p] = Freed(slots[p]), ![s] = Filled(slots[s])]
      BY <1>6, <1>a, <2>1, <2>2 DEF MoveBooking
    <2>4. \A row \in Slot : Freed(row).capacity = row.capacity
                            /\ Filled(row).capacity = row.capacity
      BY DEF Freed, Filled, Slot
    <2>5. \A t \in Slots : slots'[t].capacity = slots[t].capacity
      BY <1>a, <2>2, <2>3, <2>4
    <2>6. /\ NewBooking(r) \in Booking
          /\ NewBooking(r).slot = s /\ NewBooking(r).status = "booked"
          /\ bookings' = [bookings EXCEPT ![a] = NewBooking(r)]
      BY <1>6, <2>1, NewBookingFacts DEF MoveBooking
    <2> QED
      BY <2>2, <2>5, <2>6 DEF Seats
  <1>7. ASSUME NEW r \in Requests, InsertBooking(r)
        PROVE  Rests \/ \E a \in Applications : \E s \in Slots : Seats(a, s)
    <2>1. PICK a \in Applications, s \in Slots : a = call[r].app /\ s = call[r].slot
      BY <1>7 DEF Inv, Requested, Memory, InsertBooking, BookLabels
    <2>2. CASE bookings[a].status = "none"
      <3>1. slots[s].booked < slots[s].capacity /\ bookings[a].slot = None /\ s # None
        BY <1>7, <2>1, <2>2, NoneIsNoSlot
        DEF Inv, Requested, Held, InTransaction, Rows, InsertBooking
      <3>2. slots' = [slots EXCEPT ![s] = Filled(slots[s])]
        BY <1>7, <2>1, <2>2 DEF InsertBooking
      <3>3. \A row \in Slot : Filled(row).capacity = row.capacity
        BY DEF Filled, Slot
      <3>4. \A t \in Slots : slots'[t].capacity = slots[t].capacity
        BY <1>a, <3>2, <3>3
      <3>5. /\ NewBooking(r) \in Booking
            /\ NewBooking(r).slot = s /\ NewBooking(r).status = "booked"
            /\ bookings' = [bookings EXCEPT ![a] = NewBooking(r)]
        BY <1>7, <2>1, <2>2, NewBookingFacts DEF InsertBooking
      <3> QED
        BY <2>2, <3>1, <3>4, <3>5 DEF Seats
    <2>3. CASE bookings[a].status # "none"
      BY <1>7, <2>1, <2>3 DEF InsertBooking, Rests
    <2> QED
      BY <2>2, <2>3
  <1>8. ASSUME NEW r \in Requests, ClaimBooking(r) PROVE \E a \in Applications : Claims(a)
    <2>1. PICK a \in Applications : a = call[r].app
      BY <1>8 DEF Inv, Requested, Memory, ClaimBooking, ClaimLabels
    <2>2. bookings[a].status # "none"
      BY <1>8, <2>1 DEF Inv, Requested, Held, ClaimBooking, ClaimLabels
    <2> QED
      BY <1>8, <2>1, <2>2 DEF ClaimBooking, Claims
  <1>9. CASE UNCHANGED vars
    BY <1>9 DEF vars, tables, Rests
  <1> QED
    BY <1>1, <1>2, <1>3, <1>4, <1>5, <1>6, <1>7, <1>8, <1>9 DEF Next, Continue

\* A validated claim is never moved by a rebooking that had found the booking
\* before: the lock of its row makes the rebooking look again.
THEOREM ClaimedIsFinalHolds == Spec => ClaimedIsFinal
  <1>1. Inv /\ [Next]_vars =>
          [\A a \in Applications : bookings[a].status = "claimed" => bookings'[a] = bookings[a]]_vars
    <2> SUFFICES ASSUME Inv, [Next]_vars,
                        NEW a \in Applications, bookings[a].status = "claimed"
                 PROVE  bookings'[a] = bookings[a]
      OBVIOUS
    <2>a. bookings \in [Applications -> Booking]
      BY DEF Inv, TypeOK
    <2>1. ASSUME NEW d \in Applications, NEW s \in Slots, Seats(d, s)
          PROVE  bookings'[a] = bookings[a]
      BY <2>a, <2>1 DEF Seats
    <2>2. ASSUME NEW d \in Applications, Claims(d) PROVE bookings'[a] = bookings[a]
      <3>1. [bookings[a] EXCEPT !.status = "claimed"] = bookings[a]
        BY <2>a DEF Booking
      <3> QED
        BY <2>a, <2>2, <3>1 DEF Claims
    <2> QED
      BY <2>1, <2>2, Effects DEF Resizes, Rests
  <1> QED
    BY <1>1, Invariance, PTL DEF Spec, ClaimedIsFinal

(***************************************************************************)
(* Booking implements the seat map                                         *)
(***************************************************************************)

LEMMA LedgerInit == Init => Ledger!Init
  BY DEF Init, Ledger!Init, NoSlot, NoBooking

LEMMA LedgerStep == Inv /\ [Next]_vars => [Ledger!Next]_(Ledger!ledger)
  <1> SUFFICES ASSUME Inv, [Next]_vars PROVE Ledger!Next \/ UNCHANGED Ledger!ledger
    OBVIOUS
  <1> DEFINE seat     == [a \in Applications |-> bookings[a].slot]
             capacity == [s \in Slots |-> slots[s].capacity]
             paid     == {a \in Applications : bookings[a].status = "claimed"}
  <1>a. slots \in [Slots -> Slot] /\ bookings \in [Applications -> Booking] /\ Rows /\ SeatsCount
    BY DEF Inv, TypeOK
  <1>b. \A s \in Slots : Ledger!Takers(s) = Seated(s)
    BY DEF Ledger!Takers, Seated
  <1>c. \A S : Ledger!Cardinality(S) = Cardinality(S)
    BY Zenon DEF Ledger!Cardinality, Cardinality
  <1>d. \A s \in Slots : Ledger!Cardinality(Ledger!Takers(s)) = slots[s].booked
    BY <1>a, <1>b, <1>c DEF SeatsCount
  <1>1. ASSUME NEW a \in Applications, NEW s \in Slots, Seats(a, s) PROVE Ledger!Sit(a, s)
    <2>1. PICK b \in Booking : /\ b.slot = s /\ b.status = "booked"
                               /\ bookings' = [bookings EXCEPT ![a] = b]
      BY <1>1 DEF Seats
    <2>2. /\ a \notin paid /\ seat[a] # s
          /\ Ledger!Cardinality(Ledger!Takers(s)) < capacity[s]
      BY <1>1, <1>d DEF Seats
    <2>3. seat' = [seat EXCEPT ![a] = s]
      BY <1>a, <2>1
    <2>4. capacity' = capacity
      BY <1>1 DEF Seats
    <2>5. paid' = paid
      <3>1. \A d \in Applications :
              bookings'[d].status = "claimed" <=> bookings[d].status = "claimed"
        BY <1>1, <1>a, <2>1 DEF Seats
      <3> QED
        BY <3>1
    <2> QED
      BY <2>2, <2>3, <2>4, <2>5 DEF Ledger!Sit
  <1>2. ASSUME NEW a \in Applications, Claims(a) PROVE Ledger!Pay(a)
    <2>1. \A d \in Applications : /\ bookings'[d].slot = bookings[d].slot
                                  /\ bookings'[d].status = IF d = a THEN "claimed"
                                                           ELSE bookings[d].status
      BY <1>2, <1>a DEF Claims, Booking
    <2>2. seat[a] # None
      BY <1>2, <1>a, NoneIsNoSlot DEF Claims, Rows
    <2>3. seat' = seat
      BY <2>1
    <2>4. capacity' = capacity
      BY <1>2 DEF Claims
    <2>5. paid' = paid \union {a}
      BY <2>1
    <2> QED
      BY <2>2, <2>3, <2>4, <2>5 DEF Ledger!Pay
  <1>3. ASSUME NEW s \in Slots, NEW n \in Capacities, Resizes(s, n) PROVE Ledger!Resize(s, n)
    <2>1. Ledger!Cardinality(Ledger!Takers(s)) <= n
      BY <1>3, <1>d DEF Resizes
    <2>2. capacity' = [capacity EXCEPT ![s] = n]
      BY <1>3 DEF Resizes
    <2>3. seat' = seat /\ paid' = paid
      BY <1>3 DEF Resizes
    <2> QED
      BY <2>1, <2>2, <2>3 DEF Ledger!Resize
  <1>4. CASE Rests
    <2>1. seat' = seat /\ paid' = paid /\ capacity' = capacity
      BY <1>4 DEF Rests
    <2> QED
      BY <2>1 DEF Ledger!ledger
  <1> HIDE DEF seat, capacity, paid
  <1> QED
    BY <1>1, <1>2, <1>3, <1>4, Effects DEF Ledger!Next

\* bookDisbursementSlot, the edits of slots and validateDisbursementClaim
\* implement the seat map: they never seat a case twice or beyond a slot's
\* capacity, and never move a case that was paid.
THEOREM LedgerImplemented == Spec => ImplementsLedger
  BY LedgerInit, LedgerStep, Invariance, PTL DEF Spec, ImplementsLedger, Ledger!Spec

(***************************************************************************)
(* Deployments in which no two requests work on one slot or case at once   *)
(* (~Overlap): what a request read stays true until it writes, so the      *)
(* statuses of the slots and the records of the claims are right too.      *)
(***************************************************************************)
Tracks(r) == Touched(call[r].app, call[r].slot)

Separate ==
  \A q, r \in Requests :
    q # r /\ pc[q] # "idle" /\ pc[r] # "idle" =>
      /\ call[q].app # None => call[q].app # call[r].app
      /\ Tracks(q) \intersect Tracks(r) \subseteq {None}

SoundRow(s) ==
  /\ slots[s].status \in {"open", "closed"} =>
       /\ slots[s].capacity > 0
       /\ slots[s].status = "open" <=> slots[s].booked < slots[s].capacity
  /\ slots[s].status = "cancelled" => slots[s].booked = 0

SoundClaim(a) ==
  /\ bookings[a].status # "claimed" => payouts[a] = 0 /\ claims[a] = NoBooking
  /\ payouts[a] <= 1
  /\ claims[a] \in {NoBooking, [bookings[a] EXCEPT !.status = "booked"]}

\* What a request read before is still so.
Sound(r) ==
  LET c == call[r]
      row == slots[call[r].slot]
      b == bookings[call[r].app]
  IN
  /\ pc[r] = "writeEdit" =>
       /\ row.status \in {"open", "closed"} /\ row.booked <= c.capacity
       /\ c.status = NextStatus(row, c.capacity)
  /\ pc[r] = "writeCancel" => row.status \in {"open", "closed"} /\ row.booked = 0
  /\ InTransaction(r) => row.status = "open"
  /\ pc[r] = "claimBooking" => b.status = "booked" /\ c.seen = b
  /\ pc[r] \in {"claimCase", "recordClaim"} =>
       /\ b.status = "claimed" /\ c.seen = [b EXCEPT !.status = "booked"]
       /\ payouts[c.app] = 0 /\ claims[c.app] = NoBooking

Alone ==
  /\ Separate
  /\ \A s \in Slots : SoundRow(s)
  /\ \A a \in Applications : SoundClaim(a)
  /\ \A r \in Requests : Sound(r)

SameClaim(a) ==
  bookings'[a] = bookings[a] /\ claims'[a] = claims[a] /\ payouts'[a] = payouts[a]

\* Who works on other rows notices nothing.
LEMMA OthersSound ==
  ASSUME Inv, Alone, NEW q \in Requests, pc'[q] = pc[q], call'[q] = call[q],
         pc[q] # "idle" => \A s \in Slots : s \in Tracks(q) => slots'[s] = slots[s],
         pc[q] # "idle" => \A a \in Applications : a = call[q].app => SameClaim(a)
  PROVE  Sound(q)' /\ (pc[q] # "idle" => Tracks(q)' = Tracks(q))
  <1>1. CASE pc[q] = "idle"
    BY <1>1 DEF Sound, InTransaction
  <1>2. CASE pc[q] # "idle"
    <2>1. Memory(q) /\ call[q].app \in Applications \union {None} /\ Sound(q)
      BY DEF Inv, Requested, TypeOK, Call, Alone
    <2>2. Tracks(q)' = Tracks(q)
      BY <1>2, <2>1 DEF Tracks, Touched, SameClaim
    <2>3. call[q].slot \in Slots => slots'[call[q].slot] = slots[call[q].slot]
      BY <1>2 DEF Tracks, Touched
    <2>4. call[q].app \in Applications => SameClaim(call[q].app)
      BY <1>2
    <2>5. ASSUME pc[q] \in {"writeEdit", "writeCancel"} PROVE Sound(q)'
      BY <2>1, <2>3, <2>5 DEF Sound, Memory, InTransaction, NextStatus
    <2>6. ASSUME InTransaction(q) PROVE Sound(q)'
      BY <2>1, <2>3, <2>6 DEF Sound, Memory, InTransaction, BookLabels
    <2>7. ASSUME pc[q] \in ClaimLabels PROVE Sound(q)'
      BY <2>1, <2>4, <2>7 DEF Sound, Memory, InTransaction, ClaimLabels, SameClaim
    <2>8. ASSUME ~ (pc[q] \in {"writeEdit", "writeCancel"} \/ InTransaction(q) \/ pc[q] \in ClaimLabels)
          PROVE  Sound(q)'
      BY <2>8 DEF Sound, InTransaction, ClaimLabels
    <2> QED
      BY <2>2, <2>5, <2>6, <2>7, <2>8
  <1> QED
    BY <1>1, <1>2

\* A step of r on case x and the slots T, which nobody else works on.
LEMMA AloneFrame ==
  ASSUME Inv, Alone, NEW r \in Requests, NEW x, NEW T,
         \A q \in Requests \ {r} :
           /\ pc'[q] = pc[q] /\ call'[q] = call[q]
           /\ pc[q] # "idle" =>
                /\ call[q].app # None => call[q].app # x
                /\ Tracks(q) \intersect T \subseteq {None},
         \A s \in Slots : slots'[s] = slots[s] \/ (s \in T /\ SoundRow(s)'),
         \A a \in Applications : SameClaim(a) \/ (a = x /\ SoundClaim(a)'),
         pc'[r] # "idle" => call'[r].app = x /\ Tracks(r)' \subseteq T,
         Sound(r)'
  PROVE  Alone'
  <1>a. None \notin Slots /\ None \notin Applications
    BY NoneIsNoSlot
  <1>1. ASSUME NEW q \in Requests \ {r}
        PROVE  Sound(q)' /\ (pc[q] # "idle" => Tracks(q)' = Tracks(q))
    <2>1. pc[q] # "idle" => \A s \in Slots : s \in Tracks(q) => slots'[s] = slots[s]
      BY <1>a, <1>1
    <2>2. pc[q] # "idle" => \A a \in Applications : a = call[q].app => SameClaim(a)
      BY <1>a, <1>1
    <2> QED
      BY <1>1, <2>1, <2>2, OthersSound
  <1>2. Separate'
    <2> SUFFICES ASSUME NEW p \in Requests, NEW q \in Requests, p # q, pc'[p] # "idle", pc'[q] # "idle"
                 PROVE  /\ call'[p].app # None => call'[p].app # call'[q].app
                        /\ Tracks(p)' \intersect Tracks(q)' \subseteq {None}
      BY DEF Separate
    <2>1. CASE p # r /\ q # r
      BY <1>1, <2>1 DEF Alone, Separate
    <2>2. CASE p = r /\ q # r
      BY <1>1, <2>2
    <2>3. CASE p # r /\ q = r
      BY <1>1, <2>3
    <2> QED
      BY <2>1, <2>2, <2>3
  <1>3. \A s \in Slots : SoundRow(s)'
    BY DEF Alone, SoundRow
  <1>4. \A a \in Applications : SoundClaim(a)'
    BY DEF Alone, SoundClaim, SameClaim
  <1> QED
    BY <1>1, <1>2, <1>3, <1>4 DEF Alone

LEMMA AloneFilled ==
  ASSUME NEW row \in Slot, row.booked < row.capacity, row.status = "open"
  PROVE  /\ Filled(row).status \in {"open", "closed"}
         /\ Filled(row).status = "open" <=> Filled(row).booked < Filled(row).capacity
         /\ Filled(row).capacity > 0
  <1>1. row.booked \in Nat /\ row.capacity \in Nat
    BY DEF Slot
  <1>2. /\ Filled(row).booked = row.booked + 1
        /\ Filled(row).capacity = row.capacity
        /\ Filled(row).status = IF row.booked + 1 >= row.capacity THEN "closed" ELSE "open"
    BY DEF Filled, Slot
  <1> QED
    BY <1>1, <1>2

LEMMA AloneFreed ==
  ASSUME NEW row \in Slot, row.booked <= row.capacity,
         row.status \in {"open", "closed"} =>
           row.capacity > 0 /\ (row.status = "open" <=> row.booked < row.capacity),
         row.status = "cancelled" => row.booked = 0
  PROVE  /\ Freed(row).status \in {"open", "closed"} =>
              /\ Freed(row).capacity > 0
              /\ Freed(row).status = "open" <=> Freed(row).booked < Freed(row).capacity
         /\ Freed(row).status = "cancelled" => Freed(row).booked = 0
         /\ row.status = "cancelled" => Freed(row).status = "cancelled"
  <1>1. row.booked \in Nat /\ row.capacity \in Nat
    BY DEF Slot
  <1>2. /\ Freed(row).booked = IF row.booked > 0 THEN row.booked - 1 ELSE 0
        /\ Freed(row).capacity = row.capacity
        /\ Freed(row).status = IF row.status = "closed" THEN "open" ELSE row.status
    BY DEF Freed, Slot
  <1> QED
    BY <1>1, <1>2

\* The next await of a request.
LEMMA AloneInFlight ==
  ASSUME Inv, Alone, NEW r \in Requests, Continue(r)
  PROVE  Alone'
  <1>0. PICK x, z, T : x = call[r].app /\ z = call[r].slot /\ T = Tracks(r)
    OBVIOUS
  <1>a. /\ slots \in [Slots -> Slot] /\ bookings \in [Applications -> Booking]
        /\ claims \in [Applications -> Booking] /\ payouts \in [Applications -> Nat]
        /\ pc \in [Requests -> Labels] /\ call \in [Requests -> Call] /\ call[r] \in Call
        /\ Memory(r) /\ Held(r) /\ Sound(r) /\ NoCall \in Call
        /\ \A s \in Slots : SoundRow(s) /\ slots[s].booked <= slots[s].capacity
        /\ \A a \in Applications : SoundClaim(a)
    BY NothingTyped DEF Inv, TypeOK, Requested, Alone, SeatsCount
  <1>b. pc[r] # "idle"
    BY DEF Continue, WriteEdit, WriteCancel, LockSlot, FindBooking, LockBooking, MoveBooking,
       InsertBooking, AnswerClaimed, ClaimBooking, ClaimCase, RecordClaim
  <1>c. ASSUME NEW l \in Labels, NEW c \in Call, Begin(r, l, c)
        PROVE  /\ pc'[r] = l /\ call'[r] = c
               /\ \A q \in Requests \ {r} : pc'[q] = pc[q] /\ call'[q] = call[q]
    BY <1>a, <1>c DEF Begin
  <1>d. \A q \in Requests \ {r} :
          pc[q] # "idle" => /\ call[q].app # None => call[q].app # x
                            /\ Tracks(q) \intersect T \subseteq {None}
    BY <1>0, <1>b DEF Alone, Separate
  <1>e. ASSUME NEW l \in Labels, NEW c \in Call, Begin(r, l, c),
               \A s \in Slots : slots'[s] = slots[s] \/ (s \in T /\ SoundRow(s)'),
               \A a \in Applications : SameClaim(a) \/ (a = x /\ SoundClaim(a)'),
               l # "idle" => c.app = x /\ c.slot = z /\ Touched(x, z)' = T,
               Sound(r)'
        PROVE  Alone'
    <2>1. /\ pc'[r] = l /\ call'[r] = c
          /\ \A q \in Requests \ {r} : pc'[q] = pc[q] /\ call'[q] = call[q]
      BY <1>c, <1>e
    <2>2. pc'[r] # "idle" => call'[r].app = x /\ Tracks(r)' \subseteq T
      BY <1>e, <2>1 DEF Tracks, Touched
    <2> QED
      BY <1>d, <1>e, <2>1, <2>2, AloneFrame
  <1>f. ASSUME Answer(r),
               \A s \in Slots : slots'[s] = slots[s] \/ (s \in T /\ SoundRow(s)'),
               \A a \in Applications : SameClaim(a) \/ (a = x /\ SoundClaim(a)')
        PROVE  Alone'
    <2>1. "idle" \in Labels /\ Begin(r, "idle", NoCall)
      BY <1>f DEF Labels, Answer
    <2>2. Sound(r)'
      BY <1>a, <2>1, <1>c DEF Sound, InTransaction
    <2> QED
      BY <1>a, <1>e, <1>f, <2>1, <2>2
  <1>g. z \in T /\ (x # None => bookings[x].slot \in T)
    BY <1>0 DEF Tracks, Touched
  <1>h. bookings' = bookings => Touched(x, z)' = T
    BY <1>0 DEF Tracks, Touched
  <1>i. UNCHANGED <<slots, bookings, claims, payouts>> =>
          /\ \A s \in Slots : slots'[s] = slots[s]
          /\ \A a \in Applications : SameClaim(a)
    BY DEF SameClaim
  <1>1. CASE WriteEdit(r)
    <2>1. PICK s \in Slots, n \in Capacities : s = call[r].slot /\ n = call[r].capacity
      BY <1>1, <1>a DEF WriteEdit, Memory
    <2>2. slots[s].booked <= n /\ call[r].status = NextStatus(slots[s], n)
      BY <1>1, <1>a, <2>1 DEF WriteEdit, Sound
    <2>3. slots' = [slots EXCEPT ![s].capacity = n, ![s].status = call[r].status]
      BY <1>1, <2>1, <2>2 DEF WriteEdit
    <2>4. /\ slots'[s].capacity = n /\ slots'[s].status = NextStatus(slots[s], n)
          /\ slots'[s].booked = slots[s].booked
          /\ \A t \in Slots \ {s} : slots'[t] = slots[t]
      BY <1>a, <2>2, <2>3 DEF Slot
    <2>5. slots[s].booked \in Nat /\ n \in Nat /\ n > 0
      BY <1>a, BookingConfiguration DEF Slot
    <2>6. SoundRow(s)'
      BY <2>4, <2>5 DEF SoundRow, NextStatus
    <2>7. Answer(r) /\ \A a \in Applications : SameClaim(a)
      BY <1>1 DEF WriteEdit, SameClaim
    <2> QED
      BY <1>0, <1>f, <1>g, <2>1, <2>4, <2>6, <2>7
  <1>2. CASE WriteCancel(r)
    <2>1. PICK s \in Slots : s = call[r].slot
      BY <1>2, <1>a DEF WriteCancel, Memory
    <2>2. slots' = [slots EXCEPT ![s].status = "cancelled"] /\ slots[s].booked = 0
      BY <1>2, <1>a, <2>1 DEF WriteCancel, Sound
    <2>3. /\ slots'[s].status = "cancelled" /\ slots'[s].booked = 0
          /\ \A t \in Slots \ {s} : slots'[t] = slots[t]
      BY <1>a, <2>2 DEF Slot
    <2>4. SoundRow(s)'
      BY <2>3 DEF SoundRow
    <2>5. Answer(r) /\ \A a \in Applications : SameClaim(a)
      BY <1>2 DEF WriteCancel, SameClaim
    <2> QED
      BY <1>0, <1>f, <1>g, <2>1, <2>3, <2>4, <2>5
  <1>3. CASE LockSlot(r)
    <2>1. UNCHANGED <<slots, bookings, claims, payouts>>
      BY <1>3 DEF LockSlot, tables
    <2>2. CASE Answer(r)
      BY <1>f, <1>i, <2>1, <2>2
    <2>3. CASE Goto(r, "findBooking") /\ slots[call[r].slot].status = "open"
      <3>1. "findBooking" \in Labels /\ Begin(r, "findBooking", call[r])
        BY <2>3 DEF Goto, Labels
      <3>2. Sound(r)'
        BY <1>a, <1>c, <2>1, <2>3, <3>1 DEF Sound, InTransaction
      <3> QED
        BY <1>0, <1>a, <1>e, <1>h, <1>i, <2>1, <3>1, <3>2
    <2> QED
      BY <1>3, <2>2, <2>3 DEF LockSlot
  <1>4. CASE FindBooking(r)
    <2>1. UNCHANGED <<slots, bookings, claims, payouts>>
      BY <1>4 DEF FindBooking, tables
    <2>2. PICK l \in {"insert", "lockBooking"}, c \in Call :
            Begin(r, l, c) /\ c.slot = call[r].slot /\ c.app = x
      <3> USE <1>0
      <3> DEFINE b == bookings[call[r].app]
                 d == [call[r] EXCEPT !.prior = b.slot]
      <3>1. CASE b.status = "none"
        BY <1>4, <1>a, <3>1 DEF FindBooking, Goto
      <3>2. CASE b.status # "none"
        <4>1. b.slot \in Slots \union {None}
          BY <1>4, <1>a DEF FindBooking, Memory, BookLabels, Booking
        <4>2. d \in Call /\ d.slot = call[r].slot /\ d.app = call[r].app
          BY <1>a, <4>1 DEF Call
        <4>3. Begin(r, "lockBooking", d)
          BY <1>4, <3>2 DEF FindBooking
        <4> HIDE DEF d
        <4> QED
          BY <4>2, <4>3
      <3> QED
        BY <3>1, <3>2
    <2>3. l \in Labels /\ slots[call[r].slot].status = "open"
      BY <1>4, <1>a DEF FindBooking, Sound, InTransaction, Labels
    <2>4. Sound(r)'
      BY <1>c, <2>1, <2>2, <2>3 DEF Sound, InTransaction
    <2> QED
      BY <1>0, <1>e, <1>h, <1>i, <2>1, <2>2, <2>3, <2>4
  <1>5. CASE LockBooking(r)
    <2>1. UNCHANGED <<slots, bookings, claims, payouts>>
      BY <1>5 DEF LockBooking, tables
    <2>2. CASE Answer(r)
      BY <1>f, <1>i, <2>1, <2>2
    <2>3. CASE Goto(r, "move")
      <3>1. "move" \in Labels /\ Begin(r, "move", call[r]) /\ slots[call[r].slot].status = "open"
        BY <1>5, <1>a, <2>3 DEF Goto, Labels, LockBooking, Sound, InTransaction
      <3>2. Sound(r)'
        BY <1>a, <1>c, <2>1, <3>1 DEF Sound, InTransaction
      <3> QED
        BY <1>0, <1>a, <1>e, <1>h, <1>i, <2>1, <3>1, <3>2
    <2> QED
      BY <1>5, <2>2, <2>3 DEF LockBooking
  <1>j. ASSUME NEW a \in Applications, a = x, bookings[a].status # "claimed",
               bookings' = [bookings EXCEPT ![a] = NewBooking(r)], UNCHANGED <<claims, payouts>>
        PROVE  \A d \in Applications : SameClaim(d) \/ (d = x /\ SoundClaim(d)')
    <2>1. bookings'[a].status = "booked" /\ payouts[a] = 0 /\ claims[a] = NoBooking
      BY <1>0, <1>a, <1>j DEF NewBooking, SoundClaim
    <2> QED
      BY <1>a, <1>j, <2>1 DEF SameClaim, SoundClaim
  <1>6. CASE MoveBooking(r)
    <2>1. PICK a \in Applications, s \in Slots, p \in Slots :
            a = x /\ s = call[r].slot /\ p = call[r].prior
      BY <1>0, <1>6, <1>a DEF Memory, MoveBooking, BookLabels
    <2>2. /\ p # s /\ bookings[a].slot = p /\ bookings[a].status = "booked"
          /\ slots[s].status = "open" /\ slots[s].booked < slots[s].capacity
      BY <1>0, <1>6, <1>a, <2>1 DEF Held, Sound, InTransaction, MoveBooking
    <2>3. slots' = [slots EXCEPT ![p] = Freed(slots[p]), ![s] = Filled(slots[s])]
      BY <1>0, <1>6, <1>a, <2>1, <2>2 DEF MoveBooking
    <2>4. /\ slots'[p] = Freed(slots[p]) /\ slots'[s] = Filled(slots[s])
          /\ \A t \in Slots \ {p, s} : slots'[t] = slots[t]
      BY <1>a, <2>2, <2>3
    <2>5. SoundRow(s)'
      BY <1>a, <2>2, <2>4, AloneFilled DEF SoundRow
    <2>6. SoundRow(p)'
      BY <1>a, <2>4, AloneFreed DEF SoundRow
    <2>7. s \in T /\ p \in T
      BY <1>0, <1>g, <2>1, <2>2, NoneIsNoSlot
    <2>8. \A d \in Applications : SameClaim(d) \/ (d = x /\ SoundClaim(d)')
      BY <1>0, <1>6, <1>j, <2>1, <2>2 DEF MoveBooking
    <2>9. Answer(r)
      BY <1>6 DEF MoveBooking
    <2> QED
      BY <1>f, <2>4, <2>5, <2>6, <2>7, <2>8, <2>9
  <1>7. CASE InsertBooking(r)
    <2>1. PICK a \in Applications, s \in Slots : a = x /\ s = call[r].slot
      BY <1>0, <1>7, <1>a DEF Memory, InsertBooking, BookLabels
    <2>2. CASE bookings[a].status # "none"
      BY <1>0, <1>7, <1>f, <1>i, <2>1, <2>2 DEF InsertBooking
    <2>3. CASE bookings[a].status = "none"
      <3>1. slots[s].status = "open" /\ slots[s].booked < slots[s].capacity
        BY <1>0, <1>7, <1>a, <2>1 DEF Held, Sound, InTransaction, InsertBooking
      <3>2. slots' = [slots EXCEPT ![s] = Filled(slots[s])]
        BY <1>0, <1>7, <2>1, <2>3 DEF InsertBooking
      <3>3. slots'[s] = Filled(slots[s]) /\ \A t \in Slots \ {s} : slots'[t] = slots[t]
        BY <1>a, <3>2
      <3>4. SoundRow(s)'
        BY <1>a, <3>1, <3>3, AloneFilled DEF SoundRow
      <3>5. \A d \in Applications : SameClaim(d) \/ (d = x /\ SoundClaim(d)')
        BY <1>0, <1>7, <1>j, <2>1, <2>3 DEF InsertBooking
      <3>6. Answer(r)
        BY <1>7 DEF InsertBooking
      <3> QED
        BY <1>0, <1>f, <1>g, <2>1, <3>3, <3>4, <3>5, <3>6
    <2> QED
      BY <2>2, <2>3
  <1>8. CASE AnswerClaimed(r)
    BY <1>8, <1>f, <1>i DEF AnswerClaimed, tables
  <1>9. CASE ClaimBooking(r)
    <2>1. PICK a \in Applications : a = x
      BY <1>0, <1>9, <1>a DEF Memory, ClaimBooking, ClaimLabels
    <2>2. /\ bookings[a].status = "booked" /\ call[r].seen = bookings[a]
          /\ payouts[a] = 0 /\ claims[a] = NoBooking
      BY <1>0, <1>9, <1>a, <2>1 DEF Sound, ClaimBooking, SoundClaim
    <2>3. /\ bookings'[a] = [bookings[a] EXCEPT !.status = "claimed"]
          /\ \A d \in Applications \ {a} : bookings'[d] = bookings[d]
          /\ UNCHANGED <<slots, claims, payouts>>
      BY <1>0, <1>9, <1>a, <2>1 DEF ClaimBooking
    <2>4. /\ bookings'[a].status = "claimed" /\ bookings'[a].slot = bookings[a].slot
          /\ [bookings'[a] EXCEPT !.status = "booked"] = bookings[a]
      BY <1>a, <2>2, <2>3 DEF Booking
    <2>5. SoundClaim(a)'
      BY <2>2, <2>3, <2>4 DEF SoundClaim
    <2>6. "claimCase" \in Labels /\ Begin(r, "claimCase", call[r])
      BY <1>9 DEF ClaimBooking, Goto, Labels
    <2>7. Sound(r)'
      <3>1. pc'[r] = "claimCase" /\ call'[r] = call[r]
        BY <1>a, <1>c, <2>6
      <3>2. /\ call'[r].app = a /\ call'[r].seen = [bookings'[a] EXCEPT !.status = "booked"]
            /\ payouts'[a] = 0 /\ claims'[a] = NoBooking
        BY <1>0, <2>1, <2>2, <2>3, <2>4, <3>1
      <3> QED
        BY <2>4, <3>1, <3>2 DEF Sound, InTransaction
    <2>8. Touched(x, z)' = T
      <3>1. bookings'[a].slot = bookings[a].slot
        BY <2>4
      <3> QED
        BY <1>0, <2>1, <3>1 DEF Tracks, Touched
    <2>9. \A d \in Applications : SameClaim(d) \/ (d = x /\ SoundClaim(d)')
      BY <2>1, <2>3, <2>5 DEF SameClaim
    <2> QED
      BY <1>0, <1>a, <1>e, <2>3, <2>6, <2>7, <2>8, <2>9
  <1>10. CASE ClaimCase(r)
    <2>1. "recordClaim" \in Labels /\ Begin(r, "recordClaim", call[r])
          /\ pc[r] = "claimCase" /\ UNCHANGED <<slots, bookings, claims, payouts>>
      BY <1>10 DEF ClaimCase, Goto, Labels
    <2>2. Sound(r)'
      BY <1>a, <1>c, <2>1 DEF Sound, InTransaction
    <2> QED
      BY <1>0, <1>a, <1>e, <1>h, <1>i, <2>1, <2>2
  <1>11. CASE RecordClaim(r)
    <2>1. PICK a \in Applications : a = x
      BY <1>0, <1>11, <1>a DEF Memory, RecordClaim, ClaimLabels
    <2>2. /\ bookings[a].status = "claimed" /\ call[r].seen = [bookings[a] EXCEPT !.status = "booked"]
          /\ payouts[a] = 0 /\ claims[a] = NoBooking
      BY <1>0, <1>11, <1>a, <2>1 DEF Sound, RecordClaim
    <2>3. /\ claims'[a] = [bookings[a] EXCEPT !.status = "booked"] /\ payouts'[a] = 1
          /\ \A d \in Applications \ {a} : claims'[d] = claims[d] /\ payouts'[d] = payouts[d]
          /\ UNCHANGED <<slots, bookings>> /\ Answer(r)
      BY <1>0, <1>11, <1>a, <2>1, <2>2 DEF RecordClaim
    <2>4. SoundClaim(a)'
      BY <2>2, <2>3 DEF SoundClaim
    <2>5. \A d \in Applications : SameClaim(d) \/ (d = x /\ SoundClaim(d)')
      BY <2>1, <2>3, <2>4 DEF SameClaim
    <2> QED
      BY <1>f, <2>3, <2>5
  <1> QED
    BY <1>1, <1>2, <1>3, <1>4, <1>5, <1>6, <1>7, <1>8, <1>9, <1>10, <1>11 DEF Continue

\* A request that begins touches nothing, and finds its rows free.
LEMMA AloneArrives ==
  ASSUME ~ Overlap, Inv, Alone, NEW r \in Requests, Arrive(r)
  PROVE  Alone'
  <1>a. /\ pc \in [Requests -> Labels] /\ call \in [Requests -> Call]
        /\ bookings \in [Applications -> Booking]
    BY DEF Inv, TypeOK
  <1>b. UNCHANGED <<slots, bookings, claims, payouts>>
    BY DEF Arrive, BeginEdit, BeginCancel, BeginBook, BeginValidate, tables
  <1>c. ASSUME NEW x, NEW z, NEW l, NEW c, c.app = x, c.slot = z, Apart(r, x, z),
               Begin(r, l, c), Sound(r)'
        PROVE  Alone'
    <2>1. /\ pc'[r] = l /\ call'[r] = c
          /\ \A q \in Requests \ {r} : pc'[q] = pc[q] /\ call'[q] = call[q]
      BY <1>a, <1>c DEF Begin
    <2>2. PICK T : T = Touched(x, z)
      OBVIOUS
    <2>3. ASSUME NEW q \in Requests \ {r}, pc[q] # "idle"
          PROVE  (call[q].app # None => call[q].app # x) /\ Tracks(q) \intersect T \subseteq {None}
      BY <1>c, <2>2, <2>3 DEF Apart, Tracks
    <2>4. Tracks(r)' = T
      BY <1>b, <1>c, <2>1, <2>2 DEF Tracks, Touched
    <2>5. \A a \in Applications : SameClaim(a)
      BY <1>b DEF SameClaim
    <2> QED
      BY <1>b, <1>c, <2>1, <2>3, <2>4, <2>5, AloneFrame
  <1>d. ASSUME NEW l, NEW c, Begin(r, l, c) PROVE pc'[r] = l /\ call'[r] = c
    BY <1>a, <1>d DEF Begin
  <1>1. ASSUME NEW s \in Slots, NEW n \in Capacities, BeginEdit(r, s, n) PROVE Alone'
    <2> DEFINE st == NextStatus(slots[s], n)
               c == [NoCall EXCEPT !.ep = "edit", !.slot = s, !.capacity = n, !.status = st]
    <2>1. /\ c.app = None /\ c.slot = s /\ c.capacity = n /\ c.status = st
      BY DEF NoCall
    <2>2. /\ Begin(r, "writeEdit", c) /\ Apart(r, None, s)
          /\ slots[s].status \in {"open", "closed"} /\ n >= slots[s].booked
      BY <1>1 DEF BeginEdit, MayBegin
    <2> HIDE DEF c
    <2>3. pc'[r] = "writeEdit" /\ call'[r] = c
      BY <1>d, <2>2
    <2>4. n \in Nat /\ slots[s].booked \in Nat
      BY BookingConfiguration DEF Inv, TypeOK, Slot
    <2>5. Sound(r)'
      BY <1>b, <2>1, <2>2, <2>3, <2>4 DEF Sound, InTransaction, NextStatus
    <2> HIDE DEF st
    <2> QED
      BY <1>c, <2>1, <2>2, <2>5
  <1>2. ASSUME NEW s \in Slots, BeginCancel(r, s) PROVE Alone'
    <2> DEFINE c == [NoCall EXCEPT !.ep = "cancel", !.slot = s]
    <2>1. c.app = None /\ c.slot = s
      BY DEF NoCall
    <2>2. /\ Begin(r, "writeCancel", c) /\ Apart(r, None, s)
          /\ slots[s].status \in {"open", "closed"} /\ slots[s].booked = 0
      BY <1>2 DEF BeginCancel, MayBegin
    <2> HIDE DEF c
    <2>3. Sound(r)'
      BY <1>b, <1>d, <2>1, <2>2 DEF Sound, InTransaction
    <2> QED
      BY <1>c, <2>1, <2>2, <2>3
  <1>3. ASSUME NEW a \in Applications, NEW s \in Slots, BeginBook(r, a, s) PROVE Alone'
    <2> DEFINE c == [NoCall EXCEPT !.ep = "book", !.app = a, !.slot = s]
    <2>1. c.app = a /\ c.slot = s
      BY DEF NoCall
    <2>2. Begin(r, "lockSlot", c) /\ Apart(r, a, s)
      BY <1>3 DEF BeginBook, MayBegin
    <2> HIDE DEF c
    <2>3. Sound(r)'
      BY <1>d, <2>2 DEF Sound, InTransaction
    <2> QED
      BY <1>c, <2>1, <2>2, <2>3
  <1>4. ASSUME NEW a \in Applications, BeginValidate(r, a) PROVE Alone'
    <2> DEFINE b == bookings[a]
               l == IF b.status = "claimed" THEN "loadClaim" ELSE "claimBooking"
               c == [NoCall EXCEPT !.ep = "validate", !.app = a, !.seen = b]
    <2>1. c.app = a /\ c.slot = None /\ c.seen = bookings[a]
      BY DEF NoCall
    <2>2. /\ Begin(r, l, c) /\ Apart(r, a, None)
          /\ l \in {"loadClaim", "claimBooking"}
          /\ l = "claimBooking" => bookings[a].status = "booked"
      BY <1>4, <1>a DEF BeginValidate, MayBegin, Booking
    <2> HIDE DEF c, l, b
    <2>3. PICK k : k = l
      OBVIOUS
    <2>4. pc'[r] = k /\ call'[r] = c
      BY <1>d, <2>2, <2>3
    <2>5. Sound(r)'
      <3>1. PICK d : d = c
        OBVIOUS
      <3>2. call'[r] = d /\ d.app = a /\ d.seen = bookings'[a]
        BY <1>b, <2>1, <2>4, <3>1
      <3> QED
        BY <1>b, <2>2, <2>3, <2>4, <3>2 DEF Sound, InTransaction
    <2> QED
      BY <1>c, <2>1, <2>2, <2>5
  <1> QED
    BY <1>1, <1>2, <1>3, <1>4 DEF Arrive

LEMMA AloneElsewhere ==
  ASSUME Inv, Alone,
         \/ \E s \in Slots : \E n \in Capacities : CreateSlot(s, n)
         \/ \E r \in Requests : AbortDeadlocked(r) \/ Drop(r)
         \/ UNCHANGED vars
  PROVE  Alone'
  <1>a. /\ pc \in [Requests -> Labels] /\ call \in [Requests -> Call]
        /\ slots \in [Slots -> Slot]
    BY DEF Inv, TypeOK
  <1>1. ASSUME NEW s \in Slots, NEW n \in Capacities, CreateSlot(s, n) PROVE Alone'
    <2>1. /\ slots[s].status = "none"
          /\ slots'[s] = [status |-> "open", capacity |-> n, booked |-> 0]
          /\ \A t \in Slots \ {s} : slots'[t] = slots[t]
          /\ UNCHANGED <<bookings, claims, pc, call, payouts>>
      BY <1>1, <1>a DEF CreateSlot, memory
    <2>2. n \in Nat /\ n > 0
      BY BookingConfiguration
    <2>3. \A t \in Slots : SoundRow(t)'
      BY <2>1, <2>2 DEF Alone, SoundRow
    <2>4. ASSUME NEW q \in Requests PROVE Sound(q)'
      <3>1. Sound(q) /\ Memory(q)
        BY DEF Alone, Inv, Requested
      <3>2. CASE pc[q] \in {"writeEdit", "writeCancel"} \/ InTransaction(q)
        <4>1. call[q].slot \in Slots /\ slots[call[q].slot].status # "none"
          BY <3>1, <3>2 DEF Sound, Memory, InTransaction, BookLabels
        <4>2. slots'[call[q].slot] = slots[call[q].slot]
          BY <2>1, <4>1
        <4> QED
          BY <2>1, <3>1, <4>2 DEF Sound, InTransaction, NextStatus
      <3>3. CASE ~ (pc[q] \in {"writeEdit", "writeCancel"} \/ InTransaction(q))
        BY <2>1, <3>1, <3>3 DEF Sound, InTransaction
      <3> QED
        BY <3>2, <3>3
    <2>5. Separate' /\ \A a \in Applications : SoundClaim(a)'
      BY <2>1 DEF Alone, Separate, Tracks, Touched, SoundClaim
    <2> QED
      BY <2>3, <2>4, <2>5 DEF Alone
  <1>2. ASSUME NEW r \in Requests, AbortDeadlocked(r) \/ Drop(r) PROVE Alone'
    <2>1. Answer(r) /\ UNCHANGED <<slots, bookings, claims, payouts>>
      BY <1>2 DEF AbortDeadlocked, Drop, tables
    <2>2. /\ pc'[r] = "idle" /\ \A q \in Requests \ {r} : pc'[q] = pc[q] /\ call'[q] = call[q]
      BY <1>a, <2>1 DEF Answer, Begin
    <2>3. Sound(r)'
      BY <2>2 DEF Sound, InTransaction
    <2>4. \A a \in Applications : SameClaim(a)
      BY <2>1 DEF SameClaim
    <2>5. \A q \in Requests \ {r} : pc[q] # "idle" =>
            /\ call[q].app # None => call[q].app # None
            /\ Tracks(q) \intersect {} \subseteq {None}
      OBVIOUS
    <2> QED
      BY <2>1, <2>2, <2>3, <2>4, <2>5, AloneFrame
  <1>3. CASE UNCHANGED vars
    BY <1>3 DEF vars, tables, memory, Alone, Separate, Tracks, Touched, SoundRow, SoundClaim,
       Sound, InTransaction
  <1> QED
    BY <1>1, <1>2, <1>3

LEMMA AloneInductive ==
  ASSUME ~ Overlap
  PROVE  Spec => []Alone
  <1>1. Init => Alone
    BY DEF Init, Alone, Separate, SoundRow, SoundClaim, Sound, InTransaction, NoSlot, NoBooking
  <1>2. Inv /\ Alone /\ [Next]_vars => Alone'
    BY AloneInFlight, AloneArrives, AloneElsewhere DEF Next
  <1> QED
    BY <1>1, <1>2, Invariance, PTL DEF Spec

\* Nobody has a seat on a cancelled slot, and a slot is open while it has one to
\* give: where no two requests work on one slot or case at once, dying or not.
THEOREM SlotStatusTrueHolds ==
  ASSUME ~ Overlap
  PROVE  Spec => []SlotStatusTrue
  <1>1. Inv /\ Alone => SlotStatusTrue
    <2> SUFFICES ASSUME Inv, Alone PROVE SlotStatusTrue
      OBVIOUS
    <2>1. ASSUME NEW a \in Applications, bookings[a].status = "booked"
          PROVE  slots[bookings[a].slot].status # "cancelled"
      <3>1. PICK s \in Slots : s = bookings[a].slot
        BY <2>1 DEF Inv, Rows
      <3>2. a \in Seated(s) /\ slots[s].booked = Cardinality(Seated(s))
        BY <3>1 DEF Seated, Inv, SeatsCount
      <3>3. Cardinality(Seated(s)) # 0
        BY <3>2, SeatedFinite, FS_EmptySet
      <3> QED
        BY <3>1, <3>2, <3>3 DEF Alone, SoundRow
    <2> QED
      BY <2>1 DEF SlotStatusTrue, Alone, SoundRow
  <1> QED
    BY <1>1, Invariance, AloneInductive, PTL

\* One validation of a case pays, and the record shows the booking it paid.
THEOREM PaidAsRecordedHolds ==
  ASSUME ~ Overlap
  PROVE  Spec => []PaidAsRecorded
  <1>1. Alone => PaidAsRecorded
    BY DEF Alone, SoundClaim, PaidAsRecorded, NoBooking
  <1> QED
    BY <1>1, AloneInductive, PTL

\* No edit and no booking revives a cancelled slot.
THEOREM CancelledIsFinalHolds ==
  ASSUME ~ Overlap
  PROVE  Spec => CancelledIsFinal
  <1>1. Inv /\ Alone /\ [Next]_vars =>
          [\A s \in Slots : slots[s].status = "cancelled" => slots'[s].status = "cancelled"]_vars
    <2> SUFFICES ASSUME Inv, Alone, [Next]_vars, NEW t \in Slots, slots[t].status = "cancelled"
                 PROVE  slots'[t].status = "cancelled"
      OBVIOUS
    <2>a. slots \in [Slots -> Slot] /\ SoundRow(t) /\ slots[t].booked <= slots[t].capacity
      BY DEF Inv, TypeOK, Alone, SeatsCount
    <2>1. ASSUME NEW s \in Slots, NEW n \in Capacities, CreateSlot(s, n)
          PROVE  slots'[t] = slots[t]
      BY <2>a, <2>1 DEF CreateSlot
    <2>2. ASSUME NEW r \in Requests, Arrive(r) \/ AbortDeadlocked(r) \/ Drop(r)
          PROVE  slots' = slots
      BY <2>2 DEF Arrive, BeginEdit, BeginCancel, BeginBook, BeginValidate, AbortDeadlocked, Drop, tables
    <2>3. ASSUME NEW r \in Requests, Continue(r) PROVE slots'[t].status = "cancelled"
      <3>a. Memory(r) /\ Held(r) /\ Sound(r)
        BY DEF Inv, Requested, Alone
      <3>1. CASE WriteEdit(r)
        <4>1. t # call[r].slot
          BY <3>a, <3>1 DEF WriteEdit, Sound
        <4> QED
          BY <2>a, <3>1, <4>1 DEF WriteEdit
      <3>2. CASE WriteCancel(r)
        BY <2>a, <3>2 DEF WriteCancel, Slot
      <3>3. CASE InsertBooking(r)
        <4>1. t # call[r].slot
          BY <3>a, <3>3 DEF InsertBooking, Sound, InTransaction
        <4> QED
          BY <2>a, <3>3, <4>1 DEF InsertBooking
      <3>4. CASE MoveBooking(r)
        <4>1. t # call[r].slot /\ call[r].prior \in Slots /\ call[r].prior # call[r].slot
          BY <3>a, <3>4 DEF MoveBooking, Sound, InTransaction, Memory, Held
        <4>2. slots'[t] = IF t = call[r].prior THEN Freed(slots[t]) ELSE slots[t]
          BY <2>a, <3>4, <4>1 DEF MoveBooking
        <4>3. Freed(slots[t]).status = "cancelled"
          BY <2>a, AloneFreed DEF SoundRow
        <4> QED
          BY <4>2, <4>3
      <3>5. CASE \/ LockSlot(r) \/ FindBooking(r) \/ LockBooking(r) \/ AnswerClaimed(r)
                 \/ ClaimBooking(r) \/ ClaimCase(r) \/ RecordClaim(r)
        BY <3>5 DEF LockSlot, FindBooking, LockBooking, AnswerClaimed, ClaimBooking, ClaimCase,
           RecordClaim, tables
      <3> QED
        BY <2>3, <3>1, <3>2, <3>3, <3>4, <3>5 DEF Continue
    <2>4. CASE UNCHANGED vars
      BY <2>4 DEF vars, tables
    <2> QED
      BY <2>1, <2>2, <2>3, <2>4 DEF Next
  <1> QED
    BY <1>1, Invariance, AloneInductive, PTL DEF Spec, CancelledIsFinal

=============================================================================
