----------------------------- MODULE Dependents -----------------------------
(***************************************************************************)
(* The links between beneficiaries: registerDependent, approveRelationship *)
(* and its old name validateRelationship (domain.service.ts), and the      *)
(* trigger enforce_max_active_relationships (003_relationships.sql), which *)
(* counts what is committed when the UPDATE runs.  One action per awaited  *)
(* call; the UPDATE and its commit are two.                                *)
(***************************************************************************)
EXTENDS Naturals, FiniteSets

CONSTANTS
    People,     \* beneficiaries
    Kinds,      \* values of relationships.type
    Links,      \* ids for rows of `relationships'
    Requests,   \* requests in flight
    MaxActive,  \* active links per beneficiary; 3 in the trigger
    MaxOps,     \* bound: how many requests are made in all
    Modes,      \* "alone", "overlap" and "crash", see Begin and Drop
    None

ASSUME LinksAssumption == IsFiniteSet(Links)
ASSUME BoundsAssumption == MaxActive \in Nat /\ MaxOps \in Nat
ASSUME ModesAssumption == Modes \subseteq {"alone", "overlap", "crash"}

VARIABLES
    link,       \* the rows, None if absent
    reviews,    \* relationship_reviews: <<link, decision>>
    pc, call, ops, mode

vars == <<link, reviews, pc, call, ops, mode>>

Open == {"requested", "approved"}

Link == [principal : People, dependent : People, kind : Kinds,
         status : Open \cup {"rejected"}, proof : BOOLEAN]

ASSUME NoneIsNoLink == None \notin Links /\ None \notin Link

\* the link, what is asked for it, and the decision on it
Call == [link : Links, row : Link, approve : BOOLEAN]

Made == {l \in Links : link[l] # None}
Busy == {r \in Requests : pc[r] # "idle"}

\* Requests overlap in the mode "overlap" only.
Begin(r, label, l, row, approve) ==
    /\ pc[r] = "idle"
    /\ ops < MaxOps
    /\ mode # "overlap" => Busy = {}
    /\ pc' = [pc EXCEPT ![r] = label]
    /\ call' = [call EXCEPT ![r] = [link |-> l, row |-> row, approve |-> approve]]
    /\ ops' = ops + 1
    /\ UNCHANGED <<link, reviews, mode>>

Goto(r, label) ==
    /\ pc' = [pc EXCEPT ![r] = label]
    /\ call' = IF label = "idle" THEN [call EXCEPT ![r] = None] ELSE call
    /\ UNCHANGED <<ops, mode>>

\* the answer, or an exception
Answer(r) == Goto(r, "idle") /\ UNCHANGED <<link, reviews>>

----------------------------------------------------------------------------
(* registerDependent *)

\* the rows of the pair, of that kind
Alike(row) ==
    {l \in Made : /\ link[l].principal = row.principal
                  /\ link[l].dependent = row.dependent
                  /\ link[l].kind = row.kind}

\* The fault: a link nobody has decided does not count either.
RegistrableUndecided(row) ==
    Alike(row) # {} => \E l \in Alike(row) : link[l].status # "approved"

\* Else `Relationship already exists': findOne asks for no status and no order,
\* so it reads one of the rows, any of them, and a rejected one does not count.
Registrable(row) ==
    Alike(row) # {} => \E l \in Alike(row) : link[l].status \notin Open

\* Both are beneficiaries and two; one of them asks, with some document.
BeginRegister(r) ==
    \E l \in Links \ Made, p, d \in People, k \in Kinds :
        LET row == [principal |-> p, dependent |-> d, kind |-> k,
                    status |-> "requested", proof |-> FALSE] IN
        /\ p # d
        /\ Registrable(row)
        /\ \A q \in Busy : call[q].link # l      \* ids are fresh
        /\ Begin(r, "insert", l, row, FALSE)

InsertLink(r) ==
    /\ pc[r] = "insert"
    /\ link' = [link EXCEPT ![call[r].link] = call[r].row]
    /\ Goto(r, "documents")
    /\ UNCHANGED reviews

InsertDocuments(r) ==
    /\ pc[r] = "documents"
    /\ link' = [link EXCEPT ![call[r].link].proof = TRUE]
    /\ Goto(r, "idle")
    /\ UNCHANGED reviews

----------------------------------------------------------------------------
(* approveRelationship *)

\* `Relationship is not awaiting Office Admin approval'
Awaits(row) == row.status = "requested"

BeginDecide(r) ==
    \E l \in Made, approve \in BOOLEAN :
        Awaits(link[l]) /\ Begin(r, "proof", l, link[l], approve)

\* `Cannot approve a relationship without proof documents'
Proven(l) == link[l].proof

CheckProof(r) ==
    /\ pc[r] = "proof"
    /\ IF Proven(call[r].link)
       THEN Goto(r, "update") /\ UNCHANGED <<link, reviews>>
       ELSE Answer(r)

\* the other active links of the principal
Active(l) ==
    {x \in Made \ {l} : /\ link[x].principal = link[l].principal
                        /\ link[x].status = "approved"}

\* enforce_max_active_relationships
WithinLimit(l) == Cardinality(Active(l)) < MaxActive

\* The UPDATE waits for another one of the row; then the trigger runs.
UpdateLink(r) ==
    LET c == call[r] IN
    /\ pc[r] = "update"
    /\ \A q \in Busy \ {r} : pc[q] = "commit" => call[q].link # c.link
    /\ IF c.approve => WithinLimit(c.link)
       THEN Goto(r, "commit") /\ UNCHANGED <<link, reviews>>
       ELSE Answer(r)

\* The fault: the status is named after the old endpoint.
Validated(c) == IF c.approve THEN "validated" ELSE "rejected"

Verdict(c) == IF c.approve THEN "approved" ELSE "rejected"

CommitLink(r) ==
    LET c == call[r] IN
    /\ pc[r] = "commit"
    /\ link' = [link EXCEPT ![c.link].status = Verdict(c)]
    /\ Goto(r, "review")
    /\ UNCHANGED reviews

InsertReview(r) ==
    /\ pc[r] = "review"
    /\ reviews' = reviews \cup {<<call[r].link, call[r].approve>>}
    /\ Goto(r, "idle")
    /\ UNCHANGED link

\* A replica dies between two awaits.
Drop(r) == mode = "crash" /\ pc[r] # "idle" /\ Answer(r)

Init ==
    /\ link = [l \in Links |-> None]
    /\ reviews = {}
    /\ pc = [r \in Requests |-> "idle"]
    /\ call = [r \in Requests |-> None]
    /\ ops = 0
    /\ mode \in Modes

Next ==
    \E r \in Requests :
        \/ BeginRegister(r) \/ InsertLink(r) \/ InsertDocuments(r)
        \/ BeginDecide(r) \/ CheckProof(r) \/ UpdateLink(r) \/ CommitLink(r)
        \/ InsertReview(r) \/ Drop(r)

Spec == Init /\ [][Next]_vars

----------------------------------------------------------------------------
(* Properties *)

\* The rows and the requests hold what they can.
TypeOK ==
    /\ link \in [Links -> Link \cup {None}]
    /\ reviews \subseteq Links \X BOOLEAN
    /\ pc \in [Requests -> {"idle", "insert", "documents", "proof", "update",
                            "commit", "review"}]
    /\ call \in [Requests -> Call \cup {None}]
    /\ ops \in Nat
    /\ mode \in Modes

ActiveOf(p) ==
    {l \in Made : link[l].principal = p /\ link[l].status = "approved"}

\* "RELATIONSHIPS (max 3 active per beneficiary)"
MaxActivePerBeneficiary == \A p \in People : Cardinality(ActiveOf(p)) <= MaxActive

\* An active link has its documents, come what may.  As long as requests do
\* not overlap, nobody has more active links than allowed, a pair has a second
\* open link of one kind only where one of the kind was rejected (which the
\* check may read instead of the open one), and no link is decided twice or
\* against what its review says.
LinksSound ==
    /\ \A l \in Made : link[l].status # "requested" => link[l].proof
    /\ mode # "overlap" =>
          /\ MaxActivePerBeneficiary
          /\ \A l \in Made : \A m \in Alike(link[l]) \ {l} :
                {link[l].status, link[m].status} \subseteq Open
                => \E x \in Alike(link[l]) : link[x].status = "rejected"
          /\ \A v \in reviews :
                link[v[1]].status = IF v[2] THEN "approved" ELSE "rejected"

=============================================================================
