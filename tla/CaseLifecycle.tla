---------------------------- MODULE CaseLifecycle ----------------------------
(***************************************************************************)
(* What the platform promises about one beneficiary's case: the stages it  *)
(* goes through and who may move it.  Each step is atomic and the people   *)
(* are known; requests, tasks, offices and answers do not exist here.      *)
(* CaseWorkflow implements this specification as long as no two requests   *)
(* work on the same beneficiary's cases and none dies on the way.          *)
(***************************************************************************)
CONSTANTS Cases, Evaluators, Approvers, None

VARIABLES stage, endorser, decider

vars == <<stage, endorser, decider>>

Stages == {"none", "draft", "filed", "endorsed", "approved", "refused", "paid", "aside"}

Init ==
  /\ stage = [c \in Cases |-> "none"]
  /\ endorser = [c \in Cases |-> None]
  /\ decider = [c \in Cases |-> None]

Move(c, from, to) ==
  /\ stage[c] = from
  /\ stage' = [stage EXCEPT ![c] = to]

\* A beneficiary opens a case as a draft, or files it at once.
Open(c) ==
  /\ Move(c, "none", "draft") \/ Move(c, "none", "filed")
  /\ UNCHANGED <<endorser, decider>>

File(c) ==
  /\ Move(c, "draft", "filed")
  /\ UNCHANGED <<endorser, decider>>

Endorse(c, u) ==
  /\ Move(c, "filed", "endorsed")
  /\ endorser' = [endorser EXCEPT ![c] = u]
  /\ UNCHANGED decider

Decline(c, u) ==
  /\ Move(c, "filed", "refused")
  /\ decider' = [decider EXCEPT ![c] = u]
  /\ UNCHANGED endorser

\* Four eyes: whoever endorsed the case does not decide it.
Decide(c, u) ==
  /\ u # endorser[c]
  /\ Move(c, "endorsed", "approved") \/ Move(c, "endorsed", "refused")
  /\ decider' = [decider EXCEPT ![c] = u]
  /\ UNCHANGED endorser

Pay(c) ==
  /\ Move(c, "approved", "paid")
  /\ UNCHANGED <<endorser, decider>>

\* A client sends the case a status of its choice: it leaves the stages for
\* good, and who endorsed and decided it is no longer told.
SetAside(c) ==
  /\ stage[c] # "none"
  /\ stage' = [stage EXCEPT ![c] = "aside"]
  /\ endorser' = [endorser EXCEPT ![c] = None]
  /\ decider' = [decider EXCEPT ![c] = None]

Next ==
  \E c \in Cases :
    \/ Open(c) \/ File(c) \/ Pay(c) \/ SetAside(c)
    \/ \E u \in Evaluators : Endorse(c, u) \/ Decline(c, u)
    \/ \E u \in Approvers : Decide(c, u)

Spec == Init /\ [][Next]_vars

\* A paid or approved case has an endorser and a decider who are two people.
FourEyes ==
  \A c \in Cases :
    stage[c] \in {"approved", "paid"} =>
      /\ endorser[c] \in Evaluators
      /\ decider[c] \in Approvers
      /\ endorser[c] # decider[c]
=============================================================================
