---------------------------- MODULE SeatLedger ----------------------------
(***************************************************************************)
(* What disbursement booking promises, without requests, rows or locks: a  *)
(* seat map.  A case holds at most one seat, a slot never has more takers  *)
(* than seats, and a case that was paid keeps the seat it was paid on.     *)
(***************************************************************************)
EXTENDS Naturals, FiniteSets

CONSTANTS Slots, Applications, Capacities, None

VARIABLES
  seat,      \* the slot each case has a seat on, or None
  capacity,  \* seats of each slot, 0 before the slot exists
  paid       \* cases whose claim was validated

ledger == <<seat, capacity, paid>>

Takers(s) == {a \in Applications : seat[a] = s}

Init ==
  /\ seat = [a \in Applications |-> None]
  /\ capacity = [s \in Slots |-> 0]
  /\ paid = {}

\* A slot is opened, or its capacity edited: never below its takers.
Resize(s, n) ==
  /\ Cardinality(Takers(s)) <= n
  /\ capacity' = [capacity EXCEPT ![s] = n]
  /\ UNCHANGED <<seat, paid>>

\* A case without a seat takes one, or an unpaid one changes its seat.
Sit(a, s) ==
  /\ a \notin paid
  /\ seat[a] # s
  /\ Cardinality(Takers(s)) < capacity[s]
  /\ seat' = [seat EXCEPT ![a] = s]
  /\ UNCHANGED <<capacity, paid>>

Pay(a) ==
  /\ seat[a] # None
  /\ paid' = paid \union {a}
  /\ UNCHANGED <<seat, capacity>>

Next ==
  \/ \E s \in Slots : \E n \in Capacities : Resize(s, n)
  \/ \E a \in Applications : \E s \in Slots : Sit(a, s)
  \/ \E a \in Applications : Pay(a)

Spec == Init /\ [][Next]_ledger
=============================================================================
