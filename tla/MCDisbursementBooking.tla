----------------------- MODULE MCDisbursementBooking -----------------------
(***************************************************************************)
(* Instances of DisbursementBooking for TLC.                               *)
(***************************************************************************)
EXTENDS DisbursementBooking, TLC

CONSTANTS s1, s2, a1, a2, a3, r1, r2

\* Requests, cases and slots are interchangeable: no property names one.
Anonymous == Permutations(Requests) \union Permutations(Applications)
             \union Permutations(Slots)
=============================================================================
