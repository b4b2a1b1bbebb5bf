-------------------------- MODULE MCCaseWorkflow --------------------------
(***************************************************************************)
(* Instances of CaseWorkflow for TLC.                                      *)
(***************************************************************************)
EXTENDS CaseWorkflow, TLC

CONSTANTS a1, a2, a3, r1, r2, ana, ben, eva, evo, max

\* Two beneficiaries with a case each; one beneficiary with two cases.
TwoOwners == (a1 :> ana) @@ (a2 :> ben)
OneOwner  == (a1 :> ana) @@ (a2 :> ana)
TwoAndOne == OneOwner @@ (a3 :> ben)
JustAna   == (a1 :> ana)

\* Requests are interchangeable: no property names one.
Replicas == Permutations(Requests)
=============================================================================
