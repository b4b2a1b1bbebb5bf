---------------------------- MODULE ConsoleProofs ----------------------------
(***************************************************************************)
(* What is proved of the pages of ConsolePages: an apply of the template   *)
(* is whole however many people edit, and what a settled page shows is     *)
(* what the server has.                                                    *)
(***************************************************************************)
EXTENDS ConsolePages, FiniteSetTheorems, WellFoundedInduction, TLAPS

----------------------------------------------------------------------------
(* Requests in flight: elements of sequences that come and go *)

\* where the element at j was before one at i was removed
Before(i, j) == IF j < i THEN j ELSE j + 1

LEMMA RemovedAt ==
  ASSUME NEW S, NEW s \in Seq(S), NEW i \in DOMAIN s
  PROVE  /\ RemoveAt(s, i) \in Seq(S)
         /\ Len(RemoveAt(s, i)) = Len(s) - 1
         /\ \A j \in DOMAIN RemoveAt(s, i) :
              /\ Before(i, j) \in DOMAIN s \ {i}
              /\ RemoveAt(s, i)[j] = s[Before(i, j)]
              /\ \A k \in DOMAIN RemoveAt(s, i) : Before(i, j) = Before(i, k) => j = k
<1>1. i \in 1 .. Len(s) /\ Len(s) \in Nat /\ DOMAIN s = 1 .. Len(s)
  OBVIOUS
<1> DEFINE a == SubSeq(s, 1, i - 1)
           b == SubSeq(s, i + 1, Len(s))
<1>2. /\ a \in Seq(S) /\ Len(a) = i - 1
      /\ \A j \in 1 .. i - 1 : a[j] = s[j]
  BY <1>1
<1>3. /\ b \in Seq(S) /\ Len(b) = Len(s) - i
      /\ \A j \in 1 .. Len(s) - i : b[j] = s[j + i]
  BY <1>1
<1>4. RemoveAt(s, i) = a \o b
  BY DEF RemoveAt
<1> HIDE DEF a, b
<1>5. /\ a \o b \in Seq(S) /\ Len(a \o b) = Len(s) - 1
      /\ \A j \in 1 .. Len(s) - 1 :
           (a \o b)[j] = IF j <= i - 1 THEN a[j] ELSE b[j - (i - 1)]
  <2>1. /\ Len(a) \in Nat /\ Len(b) \in Nat /\ Len(a) = i - 1 /\ Len(b) = Len(s) - i
        /\ Len(a) + Len(b) = Len(s) - 1
    BY <1>1, <1>2, <1>3
  <2>2. /\ a \o b \in Seq(S) /\ Len(a \o b) = Len(a) + Len(b)
        /\ \A j \in 1 .. Len(a) + Len(b) :
             (a \o b)[j] = IF j <= Len(a) THEN a[j] ELSE b[j - Len(a)]
    BY <1>2, <1>3
  <2> QED  BY <2>1, <2>2
<1>6. DOMAIN (a \o b) = 1 .. Len(s) - 1
  BY <1>5
<1>7. ASSUME NEW j \in 1 .. Len(s) - 1
      PROVE  /\ Before(i, j) \in (1 .. Len(s)) \ {i}
             /\ (a \o b)[j] = s[Before(i, j)]
  <2>1. CASE j < i
    BY <1>1, <1>2, <1>5, <2>1 DEF Before
  <2>2. CASE ~(j < i)
    <3>1. j - (i - 1) \in 1 .. Len(s) - i /\ (j - (i - 1)) + i = j + 1
      BY <1>1, <2>2
    <3>2. (a \o b)[j] = b[j - (i - 1)]
      BY <1>1, <1>5, <2>2
    <3> QED  BY <1>1, <1>3, <2>2, <3>1, <3>2 DEF Before
  <2> QED  BY <2>1, <2>2
<1>8. \A j, k \in 1 .. Len(s) - 1 : Before(i, j) = Before(i, k) => j = k
  BY <1>1 DEF Before
<1> QED  BY <1>1, <1>4, <1>5, <1>6, <1>7, <1>8

\* ... and every other element is still there.
LEMMA RestKept ==
  ASSUME NEW S, NEW s \in Seq(S), NEW i \in DOMAIN s, NEW k \in DOMAIN s \ {i}
  PROVE  \E j \in DOMAIN RemoveAt(s, i) : RemoveAt(s, i)[j] = s[k]
<1>1. /\ RemoveAt(s, i) \in Seq(S) /\ Len(RemoveAt(s, i)) = Len(s) - 1
      /\ \A j \in DOMAIN RemoveAt(s, i) : RemoveAt(s, i)[j] = s[Before(i, j)]
  BY RemovedAt
<1>2. /\ DOMAIN s = 1 .. Len(s) /\ Len(s) \in Nat
      /\ DOMAIN RemoveAt(s, i) = 1 .. Len(s) - 1
  BY <1>1
<1>3. CASE k < i
  <2>1. k \in DOMAIN RemoveAt(s, i) /\ Before(i, k) = k
    BY <1>2, <1>3 DEF Before
  <2> QED  BY <1>1, <2>1
<1>4. CASE ~(k < i)
  <2>1. k - 1 \in DOMAIN RemoveAt(s, i) /\ Before(i, k - 1) = k
    BY <1>2, <1>4 DEF Before
  <2> QED  BY <1>1, <2>1
<1> QED  BY <1>3, <1>4

LEMMA Appended ==
  ASSUME NEW S, NEW s \in Seq(S), NEW e \in S
  PROVE  /\ Append(s, e) \in Seq(S)
         /\ \A j \in DOMAIN Append(s, e) :
              \/ j \in DOMAIN s /\ Append(s, e)[j] = s[j]
              \/ Append(s, e)[j] = e
         /\ \A k \in DOMAIN s : k \in DOMAIN Append(s, e) /\ Append(s, e)[k] = s[k]
OBVIOUS

\* Each element is changed where it is.
LEMMA Mapped ==
  ASSUME NEW S, NEW s \in Seq(S), NEW t, t = [i \in DOMAIN s |-> t[i]],
         \A i \in DOMAIN s : t[i] \in S
  PROVE  t \in Seq(S) /\ DOMAIN t = DOMAIN s
<1>1. DOMAIN s = 1 .. Len(s) /\ Len(s) \in Nat
  OBVIOUS
<1>2. t \in [1 .. Len(s) -> S]
  BY <1>1
<1> QED  BY <1>1, <1>2

----------------------------------------------------------------------------
(***************************************************************************)
(* The permission page, for any number of offices, cells and tabs.         *)
(***************************************************************************)

\* What is awaited is the reload an apply ends with, and an office is only
\* asked about if there is one.
LoadsOK(c) ==
  \A i \in DOMAIN loads[c] :
    /\ loads[c][i].awaited =>
         /\ Applying(c) /\ saving[c].stage = "reload"
         /\ \A j \in DOMAIN loads[c] : loads[c][j].awaited => j = i
    /\ loads[c][i].grants = Nil => loads[c][i].office # Nil

\* The draft of an office keeps the columns of its administrators, ...
DraftOK(c) ==
  screen[c].editing /\ ~Platform(c) =>
    Officers(screen[c].draft) = Officers(screen[c].shown)

\* ... so that no request to set one of them is sent.
SaveOK(c) ==
  Saving(c) /\ saving[c].office # Nil =>
    ~Platform(c) /\ Officers(saving[c].todo) = {}

\* The office an apply is with, and what it leaves there when it commits.
CopyOK(c) ==
  Applying(c) =>
    /\ saving[c].stage \in {"delete", "insert", "commit"} => saving[c].at \in GrantOffices
    /\ saving[c].stage = "commit" =>
         Officers(saving[c].copy) \subseteq
           saving[c].added \cup (grants[saving[c].at] \ saving[c].doomed)

PageOK(c) == LoadsOK(c) /\ DraftOK(c) /\ SaveOK(c) /\ CopyOK(c)

PagesOK == MatrixTypeOK /\ \A c \in Consoles : PageOK(c)

----------------------------------------------------------------------------
\* Which page of the others' a step leaves alone.
Alike(d) == screen'[d] = screen[d] /\ saving'[d] = saving[d] /\ loads'[d] = loads[d]

LEMMA PageKept ==
  ASSUME NEW d \in Consoles, PageOK(d), Alike(d), grants' = grants
  PROVE  PageOK(d)'
<1>1. LoadsOK(d)'
  BY DEF PageOK, LoadsOK, Alike, Applying, Idle
<1>2. DraftOK(d)'
  BY DEF PageOK, DraftOK, Alike, Platform
<1>3. SaveOK(d)'
  BY DEF PageOK, SaveOK, Alike, Saving, Idle, Platform
<1>4. CopyOK(d)'
  BY DEF PageOK, CopyOK, Alike, Applying, Idle
<1> QED  BY <1>1, <1>2, <1>3, <1>4 DEF PageOK

LEMMA OwnStep ==
  ASSUME PagesOK, MatrixTypeOK', NEW c \in Consoles, grants' = grants,
         \A d \in Consoles \ {c} : Alike(d),
         PageOK(c)'
  PROVE  PagesOK'
BY PageKept DEF PagesOK

LEMMA Types ==
  ASSUME PagesOK, NEW c \in Consoles
  PROVE  /\ screen[c] \in Screen
         /\ saving[c] \in MatrixCall \cup {Nil}
         /\ loads[c] \in Seq(MatrixLoad)
         /\ PageOK(c)
BY DEF PagesOK, MatrixTypeOK

\* Reading for a page in flight: one of its loads is filled in.
LEMMA FillLoad ==
  ASSUME MatrixAssumptions, PagesOK, NEW c \in Consoles, NEW i \in DOMAIN loads[c],
         NEW load \in MatrixLoad, load.office = loads[c][i].office,
         load.awaited = loads[c][i].awaited,
         load.grants = loads[c][i].grants \/ load.grants # Nil,
         loads' = [loads EXCEPT ![c][i] = load],
         UNCHANGED <<grants, template, consoles, screen, saving, grantOps, grantMode>>
  PROVE  PagesOK'
<1>1. loads'[c] = [loads[c] EXCEPT ![i] = load]
  BY DEF PagesOK, MatrixTypeOK
<1>2. loads'[c] \in Seq(MatrixLoad) /\ DOMAIN loads'[c] = DOMAIN loads[c]
  BY <1>1, Types
<1>3. MatrixTypeOK'
  BY <1>2 DEF PagesOK, MatrixTypeOK
<1>4. \A d \in Consoles \ {c} : Alike(d)
  BY DEF Alike, PagesOK, MatrixTypeOK
<1>5. PageOK(c)
  BY Types
<1>6. LoadsOK(c)'
  <2>1. \A j \in DOMAIN loads[c] : /\ loads'[c][j].office = loads[c][j].office
                                   /\ loads'[c][j].awaited = loads[c][j].awaited
                                   /\ loads'[c][j].grants = Nil => loads[c][j].grants = Nil
    BY <1>1, Types
  <2> QED  BY <1>2, <1>5, <2>1 DEF PageOK, LoadsOK, Applying, Idle
<1>7. DraftOK(c)' /\ SaveOK(c)' /\ CopyOK(c)'
  BY <1>5 DEF PageOK, DraftOK, SaveOK, CopyOK, Platform, Saving, Applying, Idle
<1> QED  BY <1>3, <1>4, <1>6, <1>7, OwnStep DEF PageOK

LEMMA ReadGrantsStep ==
  ASSUME MatrixAssumptions, PagesOK, NEW c \in Consoles, ReadGrants(c)
  PROVE  PagesOK'
<1>1. PICK i \in DOMAIN loads[c] :
        /\ loads[c][i].grants = Nil
        /\ loads' = [loads EXCEPT ![c][i].grants = grants[loads[c][i].office]]
        /\ UNCHANGED <<grants, template, consoles, screen, saving, grantOps, grantMode>>
  BY DEF ReadGrants
<1> DEFINE load == [loads[c][i] EXCEPT !.grants = grants[loads[c][i].office]]
<1>2. loads[c][i] \in MatrixLoad
  BY Types
<1>3. loads[c][i].office \in GrantOffices
  BY <1>1, <1>2, Types DEF PageOK, LoadsOK, MatrixLoad
<1>4. grants[loads[c][i].office] \in SUBSET Cells
  BY <1>3 DEF PagesOK, MatrixTypeOK
<1>5. /\ load \in MatrixLoad /\ load.office = loads[c][i].office
      /\ load.awaited = loads[c][i].awaited
      /\ load.grants = loads[c][i].grants \/ load.grants # Nil
  BY <1>2, <1>4 DEF MatrixLoad, MatrixAssumptions
<1>6. loads' = [loads EXCEPT ![c][i] = load]
  BY <1>1
<1>7. UNCHANGED <<grants, template, consoles, screen, saving, grantOps, grantMode>>
  BY <1>1
<1> HIDE DEF load
<1> QED  BY <1>5, <1>6, <1>7, FillLoad

LEMMA ReadDefaultsStep ==
  ASSUME MatrixAssumptions, PagesOK, NEW c \in Consoles, ReadDefaults(c)
  PROVE  PagesOK'
<1>1. PICK i \in DOMAIN loads[c] :
        /\ loads[c][i].defaults = Nil
        /\ loads' = [loads EXCEPT ![c][i].defaults = template]
        /\ UNCHANGED <<grants, template, consoles, screen, saving, grantOps, grantMode>>
  BY DEF ReadDefaults
<1> DEFINE load == [loads[c][i] EXCEPT !.defaults = template]
<1>2. loads[c][i] \in MatrixLoad
  BY Types
<1>3. template \in SUBSET Cells
  BY DEF PagesOK, MatrixTypeOK
<1>4. /\ load \in MatrixLoad /\ load.office = loads[c][i].office
      /\ load.awaited = loads[c][i].awaited
      /\ load.grants = loads[c][i].grants
  BY <1>2, <1>3 DEF MatrixLoad
<1>5. loads' = [loads EXCEPT ![c][i] = load]
  BY <1>1
<1> HIDE DEF load
<1> QED  BY <1>1, <1>4, <1>5, FillLoad

\* What remains of the loads of a page when one has ended.
LEMMA LoadEnds ==
  ASSUME PagesOK, NEW c \in Consoles, NEW i \in DOMAIN loads[c],
         loads' = [loads EXCEPT ![c] = RemoveAt(@, i)]
  PROVE  /\ loads' \in [Consoles -> Seq(MatrixLoad)]
         /\ \A d \in Consoles \ {c} : loads'[d] = loads[d]
         /\ loads'[c] = RemoveAt(loads[c], i)
         /\ loads[c][i].awaited \/ saving'[c] = saving[c] => LoadsOK(c)'
<1>1. loads[c] \in Seq(MatrixLoad) /\ PageOK(c)
  BY Types
<1>2. /\ RemoveAt(loads[c], i) \in Seq(MatrixLoad)
      /\ \A j \in DOMAIN RemoveAt(loads[c], i) :
           /\ Before(i, j) \in DOMAIN loads[c] \ {i}
           /\ RemoveAt(loads[c], i)[j] = loads[c][Before(i, j)]
           /\ \A k \in DOMAIN RemoveAt(loads[c], i) :
                Before(i, j) = Before(i, k) => j = k
  BY <1>1, RemovedAt
<1>3. /\ loads' \in [Consoles -> Seq(MatrixLoad)]
      /\ \A d \in Consoles \ {c} : loads'[d] = loads[d]
      /\ loads'[c] = RemoveAt(loads[c], i)
  BY <1>2 DEF PagesOK, MatrixTypeOK
<1> DEFINE was(j) == loads[c][Before(i, j)]
<1>4. ASSUME NEW j \in DOMAIN loads'[c]
      PROVE  /\ loads'[c][j] = was(j)
             /\ was(j).grants = Nil => was(j).office # Nil
             /\ was(j).awaited => /\ Applying(c) /\ saving[c].stage = "reload"
                                  /\ ~loads[c][i].awaited
             /\ \A k \in DOMAIN loads'[c] : was(j).awaited /\ was(k).awaited => j = k
  BY <1>1, <1>2, <1>3 DEF PageOK, LoadsOK
<1> HIDE DEF was
<1>5. ASSUME loads[c][i].awaited \/ saving'[c] = saving[c] PROVE LoadsOK(c)'
  BY <1>4, <1>5 DEF LoadsOK, Applying, Idle
<1> QED  BY <1>3, <1>5

LEMMA FinishLoadStep ==
  ASSUME MatrixAssumptions, PagesOK, NEW c \in Consoles, FinishLoad(c)
  PROVE  PagesOK'
<1>1. PICK i \in DOMAIN loads[c] :
        /\ loads[c][i].grants # Nil /\ loads[c][i].defaults # Nil
        /\ screen' = [screen EXCEPT ![c] = Loaded(c, loads[c][i])]
        /\ saving' = IF loads[c][i].awaited THEN [saving EXCEPT ![c] = Nil] ELSE saving
        /\ EndLoad(c, i)
  BY DEF FinishLoad
<1>2. /\ loads' = [loads EXCEPT ![c] = RemoveAt(@, i)]
      /\ UNCHANGED <<grants, template, consoles, grantOps, grantMode>>
  BY <1>1 DEF EndLoad
<1>3. /\ loads[c][i] \in MatrixLoad /\ screen[c] \in Screen /\ PageOK(c)
      /\ saving[c] \in MatrixCall \cup {Nil}
  BY Types
<1>4. Loaded(c, loads[c][i]) \in Screen
  BY <1>1, <1>3 DEF Loaded, Screen, MatrixLoad
<1>5. MatrixTypeOK'
  BY <1>1, <1>2, <1>4, LoadEnds DEF PagesOK, MatrixTypeOK
<1>6. \A d \in Consoles \ {c} : Alike(d)
  BY <1>1, <1>2, LoadEnds DEF Alike, PagesOK, MatrixTypeOK
<1>7. LoadsOK(c)'
  BY <1>1, <1>2, LoadEnds
<1>8. screen'[c].editing = FALSE
  BY <1>1, <1>3 DEF Loaded, Screen, PagesOK, MatrixTypeOK
<1>9. DraftOK(c)'
  BY <1>8 DEF DraftOK
<1>10. saving'[c] = Nil \/ saving' = saving
  BY <1>1, <1>3 DEF PagesOK, MatrixTypeOK
<1>11. SaveOK(c)' /\ CopyOK(c)'
  BY <1>2, <1>3, <1>10 DEF PageOK, SaveOK, CopyOK, Saving, Applying, Idle, Platform
<1> QED  BY <1>2, <1>5, <1>6, <1>7, <1>9, <1>11, OwnStep DEF PageOK

LEMMA LoseLoadStep ==
  ASSUME MatrixAssumptions, PagesOK, NEW c \in Consoles, LoseLoad(c)
  PROVE  PagesOK'
<1>1. PICK i \in DOMAIN loads[c] :
        /\ screen' = [screen EXCEPT ![c].doubt = TRUE]
        /\ saving' = IF loads[c][i].awaited THEN [saving EXCEPT ![c].stage = "stuck"]
                     ELSE saving
        /\ EndLoad(c, i)
  BY DEF LoseLoad
<1>2. /\ loads' = [loads EXCEPT ![c] = RemoveAt(@, i)]
      /\ UNCHANGED <<grants, template, consoles, grantOps, grantMode>>
  BY <1>1 DEF EndLoad
<1>3. /\ loads[c][i] \in MatrixLoad /\ screen[c] \in Screen /\ PageOK(c)
      /\ saving[c] \in MatrixCall \cup {Nil}
  BY Types
<1>4. screen'[c] = [screen[c] EXCEPT !.doubt = TRUE] /\ screen'[c] \in Screen
  BY <1>1, <1>3 DEF Screen, PagesOK, MatrixTypeOK
<1>5. /\ saving'[c] \in MatrixCall \cup {Nil}
      /\ \/ saving'[c] = saving[c] /\ ~loads[c][i].awaited
         \/ /\ saving'[c] = [saving[c] EXCEPT !.stage = "stuck"] /\ loads[c][i].awaited
            /\ saving[c].kind = "apply" /\ saving[c] \in MatrixCall
  <2>1. CASE loads[c][i].awaited
    <3>1. saving[c] \in MatrixCall /\ saving[c].kind = "apply"
      BY <1>3, <2>1 DEF PageOK, LoadsOK, Applying, Idle
    <3>2. saving'[c] = [saving[c] EXCEPT !.stage = "stuck"]
      BY <1>1, <2>1 DEF PagesOK, MatrixTypeOK
    <3>3. saving'[c] \in MatrixCall
      BY <3>1, <3>2 DEF MatrixCall
    <3> QED  BY <2>1, <3>1, <3>2, <3>3
  <2> QED  BY <1>1, <1>3, <2>1
<1>6. MatrixTypeOK'
  <2>1. screen' \in [Consoles -> Screen]
    BY <1>1, <1>4 DEF PagesOK, MatrixTypeOK
  <2>2. saving' \in [Consoles -> MatrixCall \cup {Nil}]
    BY <1>1, <1>5 DEF PagesOK, MatrixTypeOK
  <2> QED  BY <1>2, <2>1, <2>2, LoadEnds DEF PagesOK, MatrixTypeOK
<1>7. \A d \in Consoles \ {c} : Alike(d)
  BY <1>1, <1>2, LoadEnds DEF Alike, PagesOK, MatrixTypeOK
<1>8. LoadsOK(c)'
  BY <1>2, <1>5, LoadEnds
<1>9. DraftOK(c)'
  BY <1>3, <1>4 DEF PageOK, DraftOK, Platform, Screen
<1>10. SaveOK(c)' /\ CopyOK(c)'
  <2>1. CASE saving'[c] = saving[c]
    BY <1>2, <1>3, <2>1 DEF PageOK, SaveOK, CopyOK, Saving, Applying, Idle, Platform
  <2>2. CASE saving'[c] # saving[c]
    <3>1. saving'[c].kind = "apply" /\ saving'[c].stage = "stuck"
      BY <1>5, <2>2 DEF MatrixCall
    <3> QED  BY <3>1 DEF SaveOK, CopyOK, Saving, Applying
  <2> QED  BY <2>1, <2>2
<1> QED  BY <1>2, <1>6, <1>7, <1>8, <1>9, <1>10, OwnStep DEF PageOK

----------------------------------------------------------------------------
(* What the user does *)

LEMMA UserStays ==
  ASSUME NEW c \in Consoles, MatrixUserActs(c)
  PROVE  /\ UNCHANGED <<grants, template, consoles, grantMode>>
         /\ grantOps' = grantOps + 1 /\ grantOps < GrantMaxOps[grantMode]
BY DEF MatrixUserActs

LEMMA OpsTyped ==
  ASSUME MatrixAssumptions, PagesOK, NEW c \in Consoles, MatrixUserActs(c)
  PROVE  grantOps' \in 0 .. GrantMaxOps[grantMode]' /\ grantMode' \in GrantModes
BY DEF MatrixUserActs, PagesOK, MatrixTypeOK, MatrixAssumptions

\* A reload that is asked for.
LEMMA Reloaded ==
  ASSUME MatrixAssumptions, PagesOK, NEW c \in Consoles, NEW o \in GrantOffices \cup {Nil},
         NEW awaited \in BOOLEAN, Reload(c, o, awaited),
         IF awaited
         THEN /\ Applying(c)' /\ saving'[c].stage = "reload"
              /\ Applying(c) => saving[c].stage # "reload"
         ELSE saving'[c] = saving[c]
  PROVE  /\ loads' \in [Consoles -> Seq(MatrixLoad)]
         /\ \A d \in Consoles \ {c} : loads'[d] = loads[d]
         /\ loads'[c] = Append(loads[c], MatrixSent(c, o, awaited))
         /\ LoadsOK(c)'
<1>1. loads[c] \in Seq(MatrixLoad) /\ PageOK(c)
  BY Types
<1>2. MatrixSent(c, o, awaited) \in MatrixLoad
  BY DEF MatrixSent, MatrixLoad
<1>3. loads' = [loads EXCEPT ![c] = Append(loads[c], MatrixSent(c, o, awaited))]
  BY DEF Reload
<1> DEFINE new == MatrixSent(c, o, awaited)
           n == Len(loads[c])
<1>4. /\ Append(loads[c], new) \in Seq(MatrixLoad) /\ n \in Nat
      /\ DOMAIN loads[c] = 1 .. n
      /\ DOMAIN Append(loads[c], new) = 1 .. n + 1
      /\ Append(loads[c], new)[n + 1] = new
      /\ \A i \in 1 .. n : Append(loads[c], new)[i] = loads[c][i]
  BY <1>1, <1>2
<1>5. /\ loads' \in [Consoles -> Seq(MatrixLoad)]
      /\ \A d \in Consoles \ {c} : loads'[d] = loads[d]
      /\ loads'[c] = Append(loads[c], new)
  BY <1>3, <1>4 DEF PagesOK, MatrixTypeOK
<1>6. /\ new.awaited = awaited
      /\ new.grants = Nil => new.office # Nil
  BY DEF MatrixSent, MatrixAssumptions
<1> HIDE DEF new, n
<1>7. LoadsOK(c)'
  <2>1. CASE awaited
    <3>1. \A i \in 1 .. n : ~loads[c][i].awaited
      BY <1>1, <1>4, <2>1 DEF PageOK, LoadsOK
    <3>2. \A i \in 1 .. n + 1 :
            loads'[c][i].awaited => \A j \in 1 .. n + 1 : loads'[c][j].awaited => j = i
      BY <1>4, <1>5, <3>1
    <3>3. \A i \in 1 .. n + 1 : loads'[c][i].grants = Nil => loads'[c][i].office # Nil
      BY <1>1, <1>4, <1>5, <1>6 DEF PageOK, LoadsOK
    <3> QED  BY <1>4, <1>5, <2>1, <3>2, <3>3 DEF LoadsOK
  <2>2. CASE ~awaited
    <3>1. \A i \in 1 .. n + 1 : loads'[c][i].awaited => i \in 1 .. n
      BY <1>4, <1>5, <1>6, <2>2
    <3>2. \A i \in 1 .. n + 1 : loads'[c][i].awaited =>
            /\ Applying(c) /\ saving[c].stage = "reload"
            /\ \A j \in 1 .. n + 1 : loads'[c][j].awaited => j = i
      BY <1>1, <1>4, <1>5, <3>1 DEF PageOK, LoadsOK
    <3>3. \A i \in 1 .. n + 1 : loads'[c][i].grants = Nil => loads'[c][i].office # Nil
      BY <1>1, <1>4, <1>5, <1>6 DEF PageOK, LoadsOK
    <3> QED  BY <1>4, <1>5, <2>2, <3>2, <3>3 DEF LoadsOK, Applying, Idle
  <2> QED  BY <2>1, <2>2
<1> QED  BY <1>5, <1>7 DEF new

\* A page that only its user changes.
LEMMA ScreenStep ==
  ASSUME MatrixAssumptions, PagesOK, NEW c \in Consoles, MatrixUserActs(c),
         NEW new \in Screen, screen' = [screen EXCEPT ![c] = new],
         new.editing /\ ~Platform(c) => Officers(new.draft) = Officers(new.shown),
         UNCHANGED saving,
         loads' \in [Consoles -> Seq(MatrixLoad)],
         \A d \in Consoles \ {c} : loads'[d] = loads[d],
         LoadsOK(c)'
  PROVE  PagesOK'
<1>1. /\ UNCHANGED <<grants, template, consoles, grantMode>>
      /\ grantOps' \in 0 .. GrantMaxOps[grantMode]' /\ grantMode' \in GrantModes
  BY UserStays, OpsTyped
<1>2. screen' \in [Consoles -> Screen] /\ screen'[c] = new
      /\ \A d \in Consoles \ {c} : screen'[d] = screen[d]
  BY DEF PagesOK, MatrixTypeOK
<1>3. MatrixTypeOK'
  BY <1>1, <1>2 DEF PagesOK, MatrixTypeOK
<1>4. DraftOK(c)'
  BY <1>2 DEF DraftOK, Platform
<1>5. SaveOK(c)' /\ CopyOK(c)'
  BY <1>1, Types DEF PageOK, SaveOK, CopyOK, Saving, Applying, Idle, Platform
<1>6. \A d \in Consoles \ {c} : Alike(d)
  BY <1>2 DEF Alike
<1> QED  BY <1>1, <1>3, <1>4, <1>5, <1>6, OwnStep DEF PageOK

LEMMA PickTabKept ==
  ASSUME MatrixAssumptions, PagesOK, NEW c \in Consoles, MatrixPickTab(c)
  PROVE  PagesOK'
<1>1. PICK t \in {"region", "template"} : screen' = [screen EXCEPT ![c].tab = t]
  BY DEF MatrixPickTab
<1> DEFINE new == [screen[c] EXCEPT !.tab = t]
<1>2. screen[c] \in Screen /\ PageOK(c)
  BY Types
<1>3. /\ new \in Screen /\ new.editing = screen[c].editing
      /\ new.draft = screen[c].draft /\ new.shown = screen[c].shown
  BY <1>2 DEF Screen
<1>4. screen' = [screen EXCEPT ![c] = new] /\ MatrixUserActs(c) /\ UNCHANGED <<saving, loads>>
  BY <1>1 DEF MatrixPickTab
<1>5. LoadsOK(c)' /\ loads' \in [Consoles -> Seq(MatrixLoad)]
  BY <1>2, <1>4 DEF PageOK, LoadsOK, Applying, Idle, PagesOK, MatrixTypeOK
<1>6. new.editing /\ ~Platform(c) => Officers(new.draft) = Officers(new.shown)
  BY <1>2, <1>3 DEF PageOK, DraftOK
<1> HIDE DEF new
<1> QED  BY <1>3, <1>4, <1>5, <1>6, ScreenStep

LEMMA PickOfficeStep ==
  ASSUME MatrixAssumptions, PagesOK, NEW c \in Consoles, PickOffice(c)
  PROVE  PagesOK'
<1>1. PICK o \in GrantOffices :
        /\ screen' = [screen EXCEPT ![c].office = o, ![c].editing = FALSE]
        /\ Reload(c, o, FALSE)
  BY DEF PickOffice
<1> DEFINE new == [screen[c] EXCEPT !.office = o, !.editing = FALSE]
<1>2. screen[c] \in Screen
  BY Types
<1>3. new \in Screen /\ ~new.editing
  BY <1>2 DEF Screen
<1>4. screen' = [screen EXCEPT ![c] = new]
  BY <1>1
<1>5. MatrixUserActs(c) /\ UNCHANGED saving
  BY DEF PickOffice
<1>6. /\ loads' \in [Consoles -> Seq(MatrixLoad)]
      /\ \A d \in Consoles \ {c} : loads'[d] = loads[d]
      /\ LoadsOK(c)'
  BY <1>1, <1>5, Reloaded
<1> HIDE DEF new
<1> QED  BY <1>3, <1>4, <1>5, <1>6, ScreenStep

LEMMA PickTargetStep ==
  ASSUME MatrixAssumptions, PagesOK, NEW c \in Consoles, PickTarget(c)
  PROVE  PagesOK'
<1>1. PICK o \in GrantOffices :
        screen' = [screen EXCEPT ![c].office = o, ![c].editing = FALSE]
  BY DEF PickTarget
<1> DEFINE new == [screen[c] EXCEPT !.office = o, !.editing = FALSE]
<1>2. screen[c] \in Screen /\ PageOK(c)
  BY Types
<1>3. new \in Screen /\ ~new.editing
  BY <1>2 DEF Screen
<1>4. screen' = [screen EXCEPT ![c] = new]
  BY <1>1
<1>5. MatrixUserActs(c) /\ UNCHANGED <<saving, loads>>
  BY DEF PickTarget
<1>6. LoadsOK(c)' /\ loads' \in [Consoles -> Seq(MatrixLoad)]
  BY <1>2, <1>5 DEF PageOK, LoadsOK, Applying, Idle, PagesOK, MatrixTypeOK
<1> HIDE DEF new
<1> QED  BY <1>3, <1>4, <1>5, <1>6, ScreenStep

LEMMA BeginEditStep ==
  ASSUME MatrixAssumptions, PagesOK, NEW c \in Consoles, BeginEdit(c)
  PROVE  PagesOK'
<1> DEFINE new == [screen[c] EXCEPT !.draft = Matrix(c), !.editing = TRUE]
<1>1. screen[c] \in Screen /\ PageOK(c)
  BY Types
<1>2. new \in Screen /\ new.draft = Matrix(c) /\ new.shown = screen[c].shown
  BY <1>1 DEF Screen, Matrix
<1>3. screen' = [screen EXCEPT ![c] = new]
  BY DEF BeginEdit
<1>4. MatrixUserActs(c) /\ UNCHANGED <<saving, loads>> /\ MatrixCanEdit(c)
  BY DEF BeginEdit
<1>5. LoadsOK(c)' /\ loads' \in [Consoles -> Seq(MatrixLoad)]
  BY <1>1, <1>4 DEF PageOK, LoadsOK, Applying, Idle, PagesOK, MatrixTypeOK
<1>6. ~Platform(c) => Officers(new.draft) = Officers(new.shown)
  BY <1>2, <1>4 DEF MatrixCanEdit, Matrix
<1> HIDE DEF new
<1> QED  BY <1>2, <1>3, <1>4, <1>5, <1>6, ScreenStep

LEMMA CancelEditStep ==
  ASSUME MatrixAssumptions, PagesOK, NEW c \in Consoles, CancelEdit(c)
  PROVE  PagesOK'
<1> DEFINE new == [screen[c] EXCEPT !.draft = {}, !.editing = FALSE]
<1>1. screen[c] \in Screen /\ PageOK(c)
  BY Types
<1>2. new \in Screen /\ ~new.editing
  BY <1>1 DEF Screen
<1>3. screen' = [screen EXCEPT ![c] = new]
  BY DEF CancelEdit
<1>4. MatrixUserActs(c) /\ UNCHANGED <<saving, loads>>
  BY DEF CancelEdit
<1>5. LoadsOK(c)' /\ loads' \in [Consoles -> Seq(MatrixLoad)]
  BY <1>1, <1>4 DEF PageOK, LoadsOK, Applying, Idle, PagesOK, MatrixTypeOK
<1> HIDE DEF new
<1> QED  BY <1>2, <1>3, <1>4, <1>5, ScreenStep

LEMMA ToggleStep ==
  ASSUME MatrixAssumptions, PagesOK, NEW c \in Consoles, Toggle(c)
  PROVE  PagesOK'
<1>1. PICK cell \in Cells :
        /\ Unlocked(c, cell)
        /\ screen' = [screen EXCEPT ![c].draft =
                         IF cell \in @ THEN @ \ {cell} ELSE @ \cup {cell}]
  BY DEF Toggle
<1> DEFINE d == screen[c].draft
           new == [screen[c] EXCEPT !.draft = IF cell \in d THEN d \ {cell}
                                              ELSE d \cup {cell}]
<1>2. screen[c] \in Screen /\ PageOK(c)
  BY Types
<1>3. /\ new \in Screen /\ new.editing = screen[c].editing
      /\ new.draft = (IF cell \in d THEN d \ {cell} ELSE d \cup {cell})
      /\ new.shown = screen[c].shown
  BY <1>2 DEF Screen
<1>4. screen' = [screen EXCEPT ![c] = new]
  BY <1>1
<1>5. MatrixUserActs(c) /\ UNCHANGED <<saving, loads>>
  BY DEF Toggle
<1>6. LoadsOK(c)' /\ loads' \in [Consoles -> Seq(MatrixLoad)]
  BY <1>2, <1>5 DEF PageOK, LoadsOK, Applying, Idle, PagesOK, MatrixTypeOK
<1>7. new.editing /\ ~Platform(c) => Officers(new.draft) = Officers(new.shown)
  <2> SUFFICES ASSUME new.editing, ~Platform(c)
               PROVE  Officers(new.draft) = Officers(new.shown)
    OBVIOUS
  <2>1. cell[1] # "satellite_admin"
    BY <1>1 DEF Unlocked
  <2>2. Officers(d) = Officers(screen[c].shown)
    BY <1>2, <1>3 DEF PageOK, DraftOK
  <2> QED  BY <1>3, <2>1, <2>2 DEF Officers
<1> HIDE DEF new
<1> QED  BY <1>3, <1>4, <1>5, <1>6, <1>7, ScreenStep

\* A page that sends its requests.
LEMMA CallStep ==
  ASSUME MatrixAssumptions, PagesOK, NEW c \in Consoles, MatrixUserActs(c), Idle(c),
         NEW new \in MatrixCall, saving' = [saving EXCEPT ![c] = new],
         UNCHANGED <<screen, loads>>,
         SaveOK(c)', CopyOK(c)'
  PROVE  PagesOK'
<1>1. /\ UNCHANGED <<grants, template, consoles, grantMode>>
      /\ grantOps' \in 0 .. GrantMaxOps[grantMode]' /\ grantMode' \in GrantModes
  BY UserStays, OpsTyped
<1>2. MatrixTypeOK'
  BY <1>1 DEF PagesOK, MatrixTypeOK
<1>3. \A d \in Consoles \ {c} : Alike(d)
  BY DEF Alike, PagesOK, MatrixTypeOK
<1>4. PageOK(c)
  BY Types
<1>5. LoadsOK(c)' /\ DraftOK(c)'
  BY <1>4 DEF PageOK, LoadsOK, DraftOK, Applying, Platform
<1> QED  BY <1>1, <1>2, <1>3, <1>5, OwnStep DEF PageOK

LEMMA SaveStep ==
  ASSUME MatrixAssumptions, PagesOK, NEW c \in Consoles, Save(c)
  PROVE  PagesOK'
<1> DEFINE new == [kind |-> "save",
                   office |-> IF OnTemplate(c) THEN Nil ELSE screen[c].office,
                   todo |-> ChangedCells(c), waits |-> {},
                   after |-> screen[c].draft, failed |-> FALSE]
<1>1. /\ MatrixUserActs(c) /\ MatrixCanEdit(c) /\ screen[c].editing /\ Idle(c)
      /\ saving' = [saving EXCEPT ![c] = new] /\ UNCHANGED <<screen, loads>>
  BY DEF Save
<1>2. screen[c] \in Screen /\ PageOK(c)
  BY Types
<1>3. ChangedCells(c) \subseteq Cells
  BY DEF ChangedCells, Compared
<1>4. new \in MatrixCall
  BY <1>2, <1>3 DEF MatrixCall, Screen
<1>5. saving'[c] = new
  BY <1>1 DEF PagesOK, MatrixTypeOK
<1>6. SaveOK(c)'
  <2> SUFFICES ASSUME saving'[c].office # Nil
               PROVE  ~Platform(c) /\ Officers(saving'[c].todo) = {}
    BY DEF SaveOK, Platform
  <2>1. ~OnTemplate(c)
    BY <1>5
  <2>2. ~Platform(c) /\ Matrix(c) = screen[c].shown
    BY <1>1, <2>1 DEF MatrixCanEdit, Matrix
  <2>3. Officers(screen[c].draft) = Officers(screen[c].shown)
    BY <1>1, <1>2, <2>2 DEF PageOK, DraftOK
  <2>4. saving'[c].todo = ChangedCells(c)
    BY <1>5
  <2> QED  BY <2>2, <2>3, <2>4 DEF Officers, ChangedCells
<1>7. CopyOK(c)'
  BY <1>5 DEF CopyOK, Applying
<1> HIDE DEF new
<1> QED  BY <1>1, <1>4, <1>6, <1>7, CallStep

LEMMA ApplyTemplateStep ==
  ASSUME MatrixAssumptions, PagesOK, NEW c \in Consoles, ApplyTemplate(c)
  PROVE  PagesOK'
<1>1. PICK todo \in {{screen[c].office}, GrantOffices} :
        saving' = [saving EXCEPT ![c] =
                      [kind |-> "apply", todo |-> todo, at |-> Nil,
                       stage |-> "next", seen |-> {}, doomed |-> {},
                       added |-> {}, copy |-> {}, failed |-> FALSE]]
  BY DEF ApplyTemplate
<1>2. /\ MatrixUserActs(c) /\ Idle(c) /\ UNCHANGED <<screen, loads>>
      /\ screen[c].office # Nil /\ screen[c] \in Screen
  BY Types DEF ApplyTemplate
<1> DEFINE new == [kind |-> "apply", todo |-> todo, at |-> Nil,
                   stage |-> "next", seen |-> {}, doomed |-> {},
                   added |-> {}, copy |-> {}, failed |-> FALSE]
<1>3. todo \subseteq GrantOffices
  BY <1>2 DEF Screen
<1>4. new \in MatrixCall
  BY <1>3 DEF MatrixCall
<1>5. saving' = [saving EXCEPT ![c] = new] /\ saving'[c] = new
  BY <1>1 DEF PagesOK, MatrixTypeOK
<1>6. SaveOK(c)' /\ CopyOK(c)'
  BY <1>5 DEF SaveOK, CopyOK, Saving, Applying
<1> HIDE DEF new
<1> QED  BY <1>2, <1>4, <1>5, <1>6, CallStep

----------------------------------------------------------------------------
(* What the server does *)

\* Writing no column of administrators disturbs no apply.
LEMMA OfficersKept ==
  ASSUME NEW d \in Consoles, PageOK(d), Alike(d),
         \A o \in GrantOffices : Officers(grants'[o]) = Officers(grants[o])
  PROVE  PageOK(d)'
<1>1. LoadsOK(d)' /\ DraftOK(d)' /\ SaveOK(d)'
  BY DEF PageOK, LoadsOK, DraftOK, SaveOK, Alike, Applying, Saving, Idle, Platform
<1>2. ASSUME Applying(d), saving[d].stage = "commit"
      PROVE  Officers(saving[d].copy) \subseteq
               saving[d].added \cup (grants'[saving[d].at] \ saving[d].doomed)
  <2>1. /\ saving[d].at \in GrantOffices
        /\ Officers(saving[d].copy) \subseteq
             saving[d].added \cup (grants[saving[d].at] \ saving[d].doomed)
    BY <1>2 DEF PageOK, CopyOK
  <2>2. Officers(grants'[saving[d].at]) = Officers(grants[saving[d].at])
    BY <2>1
  <2> QED  BY <2>1, <2>2 DEF Officers
<1>3. CopyOK(d)'
  BY <1>2 DEF PageOK, CopyOK, Alike, Applying, Idle
<1> QED  BY <1>1, <1>3 DEF PageOK

LEMMA SaveServed ==
  ASSUME MatrixAssumptions, PagesOK, NEW c \in Consoles, Saving(c),
         NEW new \in MatrixCall, new.kind = "save", new.office = saving[c].office,
         new.todo \subseteq saving[c].todo,
         saving' = [saving EXCEPT ![c] = new],
         UNCHANGED <<consoles, screen, loads, grantOps, grantMode>>,
         template' \subseteq Cells, grants' \in [GrantOffices -> SUBSET Cells],
         \A o \in GrantOffices : Officers(grants'[o]) = Officers(grants[o])
  PROVE  PagesOK'
<1>1. MatrixTypeOK'
  BY DEF PagesOK, MatrixTypeOK
<1>2. ASSUME NEW d \in Consoles \ {c} PROVE PageOK(d)'
  <2>1. PageOK(d) /\ Alike(d)
    BY DEF Alike, PagesOK, MatrixTypeOK
  <2> QED  BY <2>1, OfficersKept
<1>3. PageOK(c) /\ saving'[c] = new
  BY DEF PagesOK, MatrixTypeOK
<1>4. LoadsOK(c)' /\ DraftOK(c)'
  BY <1>3 DEF PageOK, LoadsOK, DraftOK, Applying, Saving, Platform
<1>5. SaveOK(c)' /\ CopyOK(c)'
  BY <1>3 DEF PageOK, SaveOK, CopyOK, Applying, Saving, Platform, Officers
<1>6. PageOK(c)'
  BY <1>4, <1>5 DEF PageOK
<1> QED  BY <1>1, <1>2, <1>6 DEF PagesOK

\* What the page sends, and how it goes on.
LEMMA AnsweredCall ==
  ASSUME MatrixAssumptions, PagesOK, NEW c \in Consoles, NEW cell, NEW lost \in BOOLEAN,
         Saving(c), Answered(c, cell, lost)
  PROVE  /\ saving[c] \in MatrixCall
         /\ \E new \in MatrixCall :
              /\ new.kind = "save" /\ new.office = saving[c].office
              /\ new.after = saving[c].after
              /\ new.todo = saving[c].todo \ {cell}
              /\ new.waits = saving[c].waits \ {cell}
              /\ new.failed = (saving[c].failed \/ lost)
              /\ saving' = [saving EXCEPT ![c] = new] /\ saving'[c] = new
         /\ UNCHANGED <<consoles, screen, loads, grantOps, grantMode>>
<1> DEFINE new == [saving[c] EXCEPT !.todo = @ \ {cell}, !.waits = @ \ {cell},
                                    !.failed = @ \/ lost]
<1>1. saving[c] \in MatrixCall /\ saving[c].kind = "save"
  BY Types DEF Saving, Idle
<1>2. /\ new \in MatrixCall /\ new.kind = "save" /\ new.office = saving[c].office
      /\ new.after = saving[c].after
      /\ new.todo = saving[c].todo \ {cell} /\ new.waits = saving[c].waits \ {cell}
      /\ new.failed = (saving[c].failed \/ lost)
  BY <1>1 DEF MatrixCall
<1>3. saving' = [saving EXCEPT ![c] = new] /\ saving'[c] = new
  BY DEF Answered, PagesOK, MatrixTypeOK
<1>4. UNCHANGED <<consoles, screen, loads, grantOps, grantMode>>
  BY DEF Answered
<1> HIDE DEF new
<1> QED  BY <1>1, <1>2, <1>3, <1>4

\* A save of an office writes one cell of it, and none of its administrators;
\* what was called a template is written by the platform only.
LEMMA CellWritten ==
  ASSUME MatrixAssumptions, PagesOK, NEW c \in Consoles, Saving(c),
         NEW cell \in saving[c].todo, SetCell(c, cell)
  PROVE  /\ template' \subseteq Cells /\ grants' \in [GrantOffices -> SUBSET Cells]
         /\ \A o \in GrantOffices :
              \/ grants'[o] = grants[o]
              \/ /\ cell[1] # "satellite_admin"
                 /\ grants'[o] \in {grants[o] \cup {cell}, grants[o] \ {cell}}
<1>1. saving[c] \in MatrixCall /\ PageOK(c) /\ saving[c].kind = "save"
  BY Types DEF Saving, Idle
<1>2. cell \in Cells
  BY <1>1 DEF MatrixCall
<1>3. saving[c].office # Nil => cell[1] # "satellite_admin"
  BY <1>1 DEF PageOK, SaveOK, Officers
<1>4. grants \in [GrantOffices -> SUBSET Cells] /\ template \subseteq Cells
  BY DEF PagesOK, MatrixTypeOK
<1>5. CASE UNCHANGED grants
  BY <1>2, <1>4, <1>5 DEF SetCell, Set
<1>6. CASE /\ saving[c].office # Nil /\ UNCHANGED template
           /\ grants' = [grants EXCEPT ![saving[c].office] =
                            Set(@, cell, cell \in saving[c].after)]
  BY <1>2, <1>3, <1>4, <1>6 DEF Set
<1> QED  BY <1>5, <1>6 DEF SetCell

LEMMA SetGrantStep ==
  ASSUME MatrixAssumptions, PagesOK, NEW c \in Consoles, SetGrant(c)
  PROVE  PagesOK'
<1>1. PICK cell \in Cells, lost \in BOOLEAN :
        /\ Saving(c) /\ cell \in saving[c].todo
        /\ SetCell(c, cell) /\ Answered(c, cell, lost)
  BY DEF SetGrant
<1>2. /\ template' \subseteq Cells /\ grants' \in [GrantOffices -> SUBSET Cells]
      /\ \A o \in GrantOffices :
           \/ grants'[o] = grants[o]
           \/ /\ cell[1] # "satellite_admin"
              /\ grants'[o] \in {grants[o] \cup {cell}, grants[o] \ {cell}}
  BY <1>1, CellWritten
<1>3. \A o \in GrantOffices : Officers(grants'[o]) = Officers(grants[o])
  BY <1>2 DEF Officers
<1>4. PICK new \in MatrixCall :
        /\ new.kind = "save" /\ new.office = saving[c].office
        /\ new.todo \subseteq saving[c].todo /\ saving' = [saving EXCEPT ![c] = new]
  BY <1>1, AnsweredCall
<1>5. UNCHANGED <<consoles, screen, loads, grantOps, grantMode>>
  BY <1>1 DEF Answered
<1> QED  BY <1>1, <1>2, <1>3, <1>4, <1>5, SaveServed

\* Nothing is written.
LEMMA SaveGoesOn ==
  ASSUME MatrixAssumptions, PagesOK, NEW c \in Consoles, NEW cell, NEW lost \in BOOLEAN,
         Saving(c), Answered(c, cell, lost), UNCHANGED <<grants, template>>
  PROVE  PagesOK'
<1>1. PICK new \in MatrixCall :
        /\ new.kind = "save" /\ new.office = saving[c].office
        /\ new.todo \subseteq saving[c].todo /\ saving' = [saving EXCEPT ![c] = new]
  BY AnsweredCall
<1>2. UNCHANGED <<consoles, screen, loads, grantOps, grantMode>>
  BY DEF Answered
<1>3. template' \subseteq Cells /\ grants' \in [GrantOffices -> SUBSET Cells]
  BY DEF PagesOK, MatrixTypeOK
<1>4. \A o \in GrantOffices : Officers(grants'[o]) = Officers(grants[o])
  OBVIOUS
<1> QED  BY <1>1, <1>2, <1>3, <1>4, SaveServed

LEMMA LoseGrantStep ==
  ASSUME MatrixAssumptions, PagesOK, NEW c \in Consoles, LoseGrant(c)
  PROVE  PagesOK'
<1>1. PICK cell \in Cells : Saving(c) /\ Answered(c, cell, TRUE)
  BY DEF LoseGrant
<1>2. UNCHANGED <<grants, template>>
  BY DEF LoseGrant
<1> QED  BY <1>1, <1>2, SaveGoesOn

LEMMA FindNothingStep ==
  ASSUME MatrixAssumptions, PagesOK, NEW c \in Consoles, FindNothing(c)
  PROVE  PagesOK'
<1>1. PICK cell \in Cells : Saving(c) /\ Answered(c, cell, FALSE)
  BY DEF FindNothing
<1>2. UNCHANGED <<grants, template>>
  BY DEF FindNothing
<1> QED  BY <1>1, <1>2, SaveGoesOn

LEMMA WaitForApplyStep ==
  ASSUME MatrixAssumptions, PagesOK, NEW c \in Consoles, WaitForApply(c)
  PROVE  PagesOK'
<1>1. PICK cell \in Cells :
        /\ Saving(c)
        /\ saving' = [saving EXCEPT ![c].waits = @ \cup {cell}]
        /\ UNCHANGED <<grants, template, consoles, screen, loads, grantOps, grantMode>>
  BY DEF WaitForApply
<1> DEFINE new == [saving[c] EXCEPT !.waits = @ \cup {cell}]
<1>2. saving[c] \in MatrixCall /\ saving[c].kind = "save"
  BY <1>1, Types DEF Saving, Idle
<1>3. /\ new \in MatrixCall /\ new.kind = "save" /\ new.office = saving[c].office
      /\ new.todo \subseteq saving[c].todo
  BY <1>2 DEF MatrixCall
<1>4. saving' = [saving EXCEPT ![c] = new]
  BY <1>1
<1>5. template' \subseteq Cells /\ grants' \in [GrantOffices -> SUBSET Cells]
  BY <1>1 DEF PagesOK, MatrixTypeOK
<1>6. \A o \in GrantOffices : Officers(grants'[o]) = Officers(grants[o])
  BY <1>1
<1> HIDE DEF new
<1> QED  BY <1>1, <1>3, <1>4, <1>5, <1>6, SaveServed

LEMMA FinishSaveStep ==
  ASSUME MatrixAssumptions, PagesOK, NEW c \in Consoles, FinishSave(c)
  PROVE  PagesOK'
<1>1. /\ Saving(c)
      /\ screen' = [screen EXCEPT ![c] = Saved(c)]
      /\ saving' = [saving EXCEPT ![c] = Nil]
      /\ UNCHANGED <<grants, template, consoles, loads, grantOps, grantMode>>
  BY DEF FinishSave
<1>2. /\ screen[c] \in Screen /\ PageOK(c)
      /\ saving[c] \in MatrixCall /\ saving[c].kind = "save"
  BY <1>1, Types DEF Saving, Idle
<1>3. /\ Saved(c) \in Screen
      /\ Saved(c).editing =>
           /\ screen[c].editing
           /\ Saved(c).draft = screen[c].draft /\ Saved(c).shown = screen[c].shown
  BY <1>2 DEF Saved, Screen, MatrixCall
<1>4. MatrixTypeOK'
  BY <1>1, <1>3 DEF PagesOK, MatrixTypeOK
<1>5. \A d \in Consoles \ {c} : Alike(d)
  BY <1>1 DEF Alike, PagesOK, MatrixTypeOK
<1>6. screen'[c] = Saved(c) /\ saving'[c] = Nil
  BY <1>1 DEF PagesOK, MatrixTypeOK
<1>7. LoadsOK(c)' /\ DraftOK(c)'
  BY <1>1, <1>2, <1>3, <1>6
     DEF PageOK, LoadsOK, DraftOK, Applying, Saving, Platform
<1>8. SaveOK(c)' /\ CopyOK(c)'
  BY <1>6 DEF SaveOK, CopyOK, Saving, Applying, Idle
<1> QED  BY <1>1, <1>4, <1>5, <1>7, <1>8, OwnStep DEF PageOK

----------------------------------------------------------------------------
(* The transactions of an apply *)

LEMMA ApplyCall ==
  ASSUME PagesOK, NEW c \in Consoles, Applying(c)
  PROVE  /\ saving[c] \in MatrixCall /\ saving[c].kind = "apply"
         /\ saving[c].todo \subseteq GrantOffices /\ saving[c].seen \subseteq Cells
         /\ saving[c].doomed \subseteq Cells /\ saving[c].added \subseteq Cells
         /\ saving[c].copy \subseteq Cells /\ saving[c].failed \in BOOLEAN
         /\ saving[c].stage \in {"delete", "insert", "commit"} => saving[c].at \in GrantOffices
         /\ PageOK(c)
<1>1. saving[c] \in MatrixCall /\ saving[c].kind = "apply" /\ PageOK(c)
  BY Types DEF Applying, Idle
<1> QED  BY <1>1 DEF MatrixCall, PageOK, CopyOK

LEMMA ApplyGoesOn ==
  ASSUME MatrixAssumptions, PagesOK, NEW c \in Consoles, Applying(c),
         saving[c].stage # "reload",
         NEW next \in MatrixCall, next.kind = "apply", MatrixStep(c, next), UNCHANGED grants,
         CopyOK(c)'
  PROVE  PagesOK'
<1>1. /\ saving' = [saving EXCEPT ![c] = next] /\ saving'[c] = next
      /\ UNCHANGED <<template, consoles, screen, loads, grantOps, grantMode>>
  BY DEF MatrixStep, PagesOK, MatrixTypeOK
<1>2. MatrixTypeOK'
  BY <1>1 DEF PagesOK, MatrixTypeOK
<1>3. \A d \in Consoles \ {c} : Alike(d)
  BY <1>1 DEF Alike, PagesOK, MatrixTypeOK
<1>4. PageOK(c)
  BY Types
<1>5. LoadsOK(c)' /\ DraftOK(c)' /\ SaveOK(c)'
  BY <1>1, <1>4 DEF PageOK, LoadsOK, DraftOK, SaveOK, Saving, Platform
<1> QED  BY <1>2, <1>3, <1>5, OwnStep DEF PageOK

LEMMA BeginReplaceStep ==
  ASSUME MatrixAssumptions, PagesOK, NEW c \in Consoles, BeginReplace(c)
  PROVE  PagesOK'
<1>1. PICK o \in GrantOffices :
        /\ Applying(c) /\ saving[c].stage = "next"
        /\ MatrixStep(c, [MatrixGoto(c, "delete") EXCEPT !.at = o, !.seen = grants[o]])
        /\ UNCHANGED grants
  BY DEF BeginReplace
<1> DEFINE next == [MatrixGoto(c, "delete") EXCEPT !.at = o, !.seen = grants[o]]
<1>2. grants[o] \subseteq Cells
  BY DEF PagesOK, MatrixTypeOK
<1>3. /\ next \in MatrixCall /\ next.kind = "apply" /\ next.stage = "delete"
      /\ next.at = o
  BY <1>1, <1>2, ApplyCall DEF MatrixGoto, MatrixCall
<1>4. saving'[c] = next /\ MatrixStep(c, next)
  BY <1>1 DEF MatrixStep, PagesOK, MatrixTypeOK
<1> HIDE DEF next
<1>5. CopyOK(c)'
  BY <1>3, <1>4 DEF CopyOK
<1> QED  BY <1>1, <1>3, <1>4, <1>5, ApplyGoesOn

LEMMA DeleteRowsStep ==
  ASSUME MatrixAssumptions, PagesOK, NEW c \in Consoles, DeleteRows(c)
  PROVE  PagesOK'
<1> DEFINE next == [MatrixGoto(c, "insert") EXCEPT
                       !.doomed = saving[c].seen \cap grants[saving[c].at]]
<1>1. /\ Applying(c) /\ saving[c].stage = "delete"
      /\ MatrixStep(c, next) /\ UNCHANGED grants
  BY DEF DeleteRows
<1>2. /\ next \in MatrixCall /\ next.kind = "apply" /\ next.stage = "insert"
      /\ next.at \in GrantOffices
  BY <1>1, ApplyCall DEF MatrixGoto, MatrixCall
<1>3. saving'[c] = next
  BY <1>1 DEF MatrixStep, PagesOK, MatrixTypeOK
<1> HIDE DEF next
<1>4. CopyOK(c)'
  BY <1>2, <1>3 DEF CopyOK
<1> QED  BY <1>1, <1>2, <1>4, ApplyGoesOn

LEMMA InsertRowsStep ==
  ASSUME MatrixAssumptions, PagesOK, NEW c \in Consoles, InsertRows(c)
  PROVE  PagesOK'
<1> DEFINE next == [MatrixGoto(c, "commit") EXCEPT
                       !.copy = template,
                       !.added = template \ (grants[saving[c].at] \ saving[c].doomed)]
<1>1. /\ Applying(c) /\ saving[c].stage = "insert"
      /\ MatrixStep(c, next) /\ UNCHANGED grants
  BY DEF InsertRows
<1>2. template \subseteq Cells
  BY DEF PagesOK, MatrixTypeOK
<1>3. /\ next \in MatrixCall /\ next.kind = "apply" /\ next.stage = "commit"
      /\ next.at = saving[c].at /\ saving[c].at \in GrantOffices
      /\ next.copy = template /\ next.doomed = saving[c].doomed
      /\ next.added = template \ (grants[saving[c].at] \ saving[c].doomed)
  BY <1>1, <1>2, ApplyCall DEF MatrixGoto, MatrixCall
<1>4. saving'[c] = next
  BY <1>1 DEF MatrixStep, PagesOK, MatrixTypeOK
<1> HIDE DEF next
<1>5. CopyOK(c)'
  BY <1>1, <1>3, <1>4 DEF CopyOK, Officers
<1> QED  BY <1>1, <1>3, <1>5, ApplyGoesOn

\* Another apply with the same office loses what this one deletes.
LEMMA CommitStep ==
  ASSUME MatrixAssumptions, PagesOK, NEW c \in Consoles, MatrixCommit(c)
  PROVE  PagesOK'
<1>1. Applying(c) /\ saving[c].stage = "commit"
  BY DEF MatrixCommit
<1> DEFINE at == saving[c].at
           doomed == saving[c].doomed
           added == saving[c].added
           end(fails) == [MatrixGoto(c, "next") EXCEPT
                            !.todo = IF fails THEN {} ELSE @ \ {at},
                            !.at = Nil, !.seen = {}, !.doomed = {},
                            !.added = {}, !.copy = {}, !.failed = fails]
           left(d) == [saving[d] EXCEPT !.seen = @ \ doomed, !.copy = @ \ doomed]
<1>2. PICK fails \in BOOLEAN :
        saving' = [d \in Consoles |-> IF d = c THEN end(fails)
                                      ELSE IF InTx(d, at) THEN left(d) ELSE saving[d]]
  BY DEF MatrixCommit
<1>3. /\ grants' = [grants EXCEPT ![at] = (@ \ doomed) \cup added]
      /\ UNCHANGED <<template, consoles, screen, loads, grantOps, grantMode>>
  BY DEF MatrixCommit
<1>4. /\ at \in GrantOffices /\ doomed \subseteq Cells /\ added \subseteq Cells
      /\ PageOK(c)
  BY <1>1, ApplyCall
<1>5. /\ grants' \in [GrantOffices -> SUBSET Cells]
      /\ grants'[at] = (grants[at] \ doomed) \cup added
      /\ \A o \in GrantOffices \ {at} : grants'[o] = grants[o]
  BY <1>3, <1>4 DEF PagesOK, MatrixTypeOK
<1>6. /\ end(fails) \in MatrixCall /\ end(fails).kind = "apply"
      /\ end(fails).stage = "next"
  BY <1>1, ApplyCall DEF MatrixGoto, MatrixCall
<1>7. ASSUME NEW d \in Consoles, InTx(d, at)
      PROVE  /\ left(d) \in MatrixCall /\ left(d).kind = "apply"
             /\ left(d).stage = saving[d].stage /\ left(d).at = saving[d].at
             /\ left(d).doomed = saving[d].doomed /\ left(d).added = saving[d].added
             /\ left(d).copy = saving[d].copy \ doomed
  BY <1>7, ApplyCall DEF InTx, MatrixCall
<1> HIDE DEF end, left
<1>8. MatrixTypeOK'
  <2>1. saving' \in [Consoles -> MatrixCall \cup {Nil}]
    BY <1>2, <1>6, <1>7, Types
  <2> QED  BY <1>3, <1>5, <2>1 DEF PagesOK, MatrixTypeOK
<1>9. PageOK(c)'
  <2>1. saving'[c] = end(fails)
    BY <1>2
  <2>2. LoadsOK(c)' /\ DraftOK(c)'
    BY <1>1, <1>3, <1>4, <2>1 DEF PageOK, LoadsOK, DraftOK, Platform
  <2>3. SaveOK(c)' /\ CopyOK(c)'
    BY <1>6, <2>1 DEF SaveOK, CopyOK, Saving
  <2> QED  BY <2>2, <2>3 DEF PageOK
<1>10. ASSUME NEW d \in Consoles \ {c} PROVE PageOK(d)'
  <2>1. PageOK(d) /\ saving[d] \in MatrixCall \cup {Nil}
    BY Types
  <2>2. CASE InTx(d, at)
    <3>1. /\ saving'[d] = left(d) /\ Applying(d) /\ Applying(d)'
          /\ saving[d].at = at
      BY <1>2, <1>7, <2>2 DEF InTx, Applying, Idle, MatrixAssumptions
    <3>2. LoadsOK(d)' /\ DraftOK(d)'
      BY <1>3, <1>7, <2>1, <2>2, <3>1 DEF PageOK, LoadsOK, DraftOK, Platform
    <3>3. SaveOK(d)'
      BY <1>7, <2>2, <3>1 DEF SaveOK, Saving
    <3>4. CopyOK(d)'
      BY <1>5, <1>7, <2>1, <2>2, <3>1 DEF PageOK, CopyOK, Officers
    <3> QED  BY <3>2, <3>3, <3>4 DEF PageOK
  <2>3. CASE ~InTx(d, at)
    <3>1. Alike(d)
      BY <1>2, <1>3, <2>3 DEF Alike
    <3>2. LoadsOK(d)' /\ DraftOK(d)' /\ SaveOK(d)'
      BY <2>1, <3>1
         DEF PageOK, LoadsOK, DraftOK, SaveOK, Alike, Applying, Saving, Idle, Platform
    <3>3. CopyOK(d)'
      BY <1>5, <2>1, <2>3, <3>1 DEF PageOK, CopyOK, Alike, Applying, Idle, InTx
    <3> QED  BY <3>2, <3>3 DEF PageOK
  <2> QED  BY <2>2, <2>3
<1> QED  BY <1>8, <1>9, <1>10 DEF PagesOK

LEMMA FinishApplyStep ==
  ASSUME MatrixAssumptions, PagesOK, NEW c \in Consoles, FinishApply(c)
  PROVE  PagesOK'
<1>1. /\ Applying(c) /\ saving[c].stage = "next"
      /\ UNCHANGED <<grants, template, consoles, grantOps, grantMode>>
  BY DEF FinishApply
<1>2. /\ saving[c] \in MatrixCall /\ saving[c].kind = "apply" /\ PageOK(c)
      /\ screen[c] \in Screen
  BY <1>1, ApplyCall, Types
<1>3. CASE saving[c].failed
  <2>1. /\ screen' = [screen EXCEPT ![c].doubt = TRUE]
        /\ saving' = [saving EXCEPT ![c] = Nil] /\ UNCHANGED loads
    BY <1>3 DEF FinishApply
  <2>2. /\ screen'[c] = [screen[c] EXCEPT !.doubt = TRUE] /\ screen'[c] \in Screen
        /\ saving'[c] = Nil
    BY <1>2, <2>1 DEF Screen, PagesOK, MatrixTypeOK
  <2>3. MatrixTypeOK'
    BY <1>1, <2>1, <2>2 DEF PagesOK, MatrixTypeOK
  <2>4. \A d \in Consoles \ {c} : Alike(d)
    BY <2>1 DEF Alike, PagesOK, MatrixTypeOK
  <2>5. LoadsOK(c)' /\ DraftOK(c)'
    BY <1>1, <1>2, <2>1, <2>2 DEF PageOK, LoadsOK, DraftOK, Platform, Screen
  <2>6. SaveOK(c)' /\ CopyOK(c)'
    BY <2>2 DEF SaveOK, CopyOK, Saving, Applying, Idle
  <2> QED  BY <1>1, <2>3, <2>4, <2>5, <2>6, OwnStep DEF PageOK
<1>4. CASE ~saving[c].failed
  <2> DEFINE next == MatrixGoto(c, "reload")
  <2>1. /\ Reload(c, screen[c].office, TRUE)
        /\ saving' = [saving EXCEPT ![c] = next] /\ UNCHANGED screen
    BY <1>4 DEF FinishApply
  <2>2. next \in MatrixCall /\ next.kind = "apply" /\ next.stage = "reload"
    BY <1>2 DEF MatrixGoto, MatrixCall
  <2> HIDE DEF next
  <2>3. saving'[c] = next /\ Applying(c)'
    BY <2>1, <2>2 DEF PagesOK, MatrixTypeOK, Applying, Idle, MatrixAssumptions
  <2>4. screen[c].office \in GrantOffices \cup {Nil}
    BY <1>2 DEF Screen
  <2>5. /\ loads' \in [Consoles -> Seq(MatrixLoad)]
        /\ \A d \in Consoles \ {c} : loads'[d] = loads[d]
        /\ LoadsOK(c)'
    BY <1>1, <2>1, <2>2, <2>3, <2>4, Reloaded
  <2>6. MatrixTypeOK'
    BY <1>1, <2>1, <2>2, <2>5 DEF PagesOK, MatrixTypeOK
  <2>7. \A d \in Consoles \ {c} : Alike(d)
    BY <2>1, <2>5 DEF Alike, PagesOK, MatrixTypeOK
  <2>8. DraftOK(c)' /\ SaveOK(c)' /\ CopyOK(c)'
    BY <1>2, <2>1, <2>2, <2>3 DEF PageOK, DraftOK, SaveOK, CopyOK, Saving, Platform
  <2> QED  BY <1>1, <2>5, <2>6, <2>7, <2>8, OwnStep DEF PageOK
<1> QED  BY <1>2, <1>3, <1>4 DEF MatrixCall

----------------------------------------------------------------------------
LEMMA One ==
  ASSUME NEW S, NEW x \in S
  PROVE  <<x>> \in Seq(S) /\ DOMAIN <<x>> = {1} /\ <<x>>[1] = x /\ Len(<<x>>) = 1
OBVIOUS

LEMMA GrantsInit == ASSUME MatrixAssumptions, MatrixInit PROVE PagesOK
<1>1. \A c \in Consoles : FirstPick(c) \in GrantOffices \cup {Nil}
  BY DEF FirstPick, MatrixAssumptions
<1>2. \A c \in Consoles : MatrixSent(c, FirstPick(c), FALSE) \in MatrixLoad
  BY <1>1 DEF MatrixSent, MatrixLoad
<1>3. screen \in [Consoles -> Screen]
  BY <1>1 DEF MatrixInit, Screen
<1>4. loads = [c \in Consoles |-> IF c \in consoles THEN <<MatrixSent(c, FirstPick(c), FALSE)>>
                                ELSE <<>>]
  BY DEF MatrixInit
<1>5. MatrixTypeOK
  <2>1. loads \in [Consoles -> Seq(MatrixLoad)]
    <3>1. ASSUME NEW c \in Consoles PROVE loads[c] \in Seq(MatrixLoad)
      <4>1. CASE c \in consoles
        <5>1. loads[c] = <<MatrixSent(c, FirstPick(c), FALSE)>>
          BY <1>4, <4>1
        <5>2. MatrixSent(c, FirstPick(c), FALSE) \in MatrixLoad
          BY <1>2
        <5> QED  BY <5>1, <5>2, One
      <4>2. CASE c \notin consoles
        BY <1>4, <4>2
      <4> QED  BY <4>1, <4>2
    <3> QED  BY <1>4, <3>1
  <2>2. /\ grantMode \in GrantModes /\ grantOps = 0 /\ GrantMaxOps[grantMode] \in Nat
        /\ saving = [c \in Consoles |-> Nil]
        /\ template \subseteq Cells /\ consoles \subseteq Consoles
        /\ grants = [o \in GrantOffices |-> template]
    BY DEF MatrixInit, MatrixAssumptions
  <2> QED  BY <1>3, <2>1, <2>2 DEF MatrixTypeOK
<1>6. ASSUME NEW c \in Consoles PROVE PageOK(c)
  <2>1. ASSUME NEW i \in DOMAIN loads[c]
        PROVE  loads[c][i] = MatrixSent(c, FirstPick(c), FALSE)
    <3>1. loads[c] = <<MatrixSent(c, FirstPick(c), FALSE)>> \/ loads[c] = <<>>
      BY <1>4
    <3>2. MatrixSent(c, FirstPick(c), FALSE) \in MatrixLoad
      BY <1>2
    <3>3. CASE loads[c] = <<>>
      BY <2>1, <3>3
    <3>4. CASE loads[c] = <<MatrixSent(c, FirstPick(c), FALSE)>>
      BY <2>1, <3>2, <3>4, One
    <3> QED  BY <3>1, <3>3, <3>4
  <2>2. LoadsOK(c)
    BY <2>1 DEF LoadsOK, MatrixSent, MatrixAssumptions
  <2>3. screen[c].editing = FALSE /\ saving[c] = Nil
    BY DEF MatrixInit
  <2> QED  BY <2>2, <2>3 DEF PageOK, DraftOK, SaveOK, CopyOK, Saving, Applying, Idle
<1> QED  BY <1>5, <1>6 DEF PagesOK

LEMMA GrantsStep == ASSUME MatrixAssumptions, PagesOK, [MatrixNext]_matrix PROVE PagesOK'
<1>1. CASE UNCHANGED matrix
  <2>1. MatrixTypeOK'
    BY <1>1 DEF matrix, PagesOK, MatrixTypeOK
  <2>2. \A d \in Consoles : Alike(d) /\ PageOK(d)
    BY <1>1 DEF matrix, Alike, PagesOK
  <2> QED  BY <1>1, <2>1, <2>2, PageKept DEF PagesOK, matrix
<1>2. CASE MatrixNext
  <2>1. PICK c \in Consoles :
        \/ ReadGrants(c) \/ ReadDefaults(c) \/ FinishLoad(c) \/ LoseLoad(c)
        \/ MatrixPickTab(c) \/ PickOffice(c) \/ PickTarget(c)
        \/ BeginEdit(c) \/ CancelEdit(c) \/ Toggle(c) \/ Save(c)
        \/ ApplyTemplate(c)
        \/ SetGrant(c) \/ LoseGrant(c) \/ WaitForApply(c) \/ FindNothing(c)
        \/ FinishSave(c)
        \/ BeginReplace(c) \/ DeleteRows(c) \/ InsertRows(c) \/ MatrixCommit(c)
        \/ FinishApply(c)
    BY <1>2 DEF MatrixNext
  <2> QED
    BY <2>1, ReadGrantsStep, ReadDefaultsStep, FinishLoadStep, LoseLoadStep,
       PickTabKept, PickOfficeStep, PickTargetStep, BeginEditStep, CancelEditStep,
       ToggleStep, SaveStep, ApplyTemplateStep, SetGrantStep, LoseGrantStep,
       WaitForApplyStep, FindNothingStep, FinishSaveStep, BeginReplaceStep,
       DeleteRowsStep, InsertRowsStep, CommitStep, FinishApplyStep
<1> QED  BY <1>1, <1>2

LEMMA GrantsHold == ASSUME MatrixAssumptions PROVE MatrixSpec => []PagesOK
<1> QED  BY GrantsInit, GrantsStep, PTL DEF MatrixSpec

----------------------------------------------------------------------------
WholeStep ==
  \A o \in GrantOffices :
    LET changed == (grants[o] \ grants'[o]) \cup (grants'[o] \ grants[o]) IN
    \/ Officers(changed) = {} /\ Cardinality(changed) <= 1
    \/ \E c \in Consoles : /\ InTx(c, o) /\ saving[c].stage = "commit"
                          /\ Officers(saving[c].copy) \subseteq grants'[o]

LEMMA Small ==
  ASSUME NEW cell, NEW S, S \subseteq {cell}
  PROVE  Cardinality(S) <= 1
<1>1. IsFiniteSet({cell}) /\ Cardinality({cell}) = 1
  BY FS_Singleton
<1> QED  BY <1>1, FS_Subset

LEMMA StepIsWhole ==
  ASSUME MatrixAssumptions, PagesOK, [MatrixNext]_matrix
  PROVE  WholeStep
<1>1. ASSUME NEW o \in GrantOffices, grants'[o] = grants[o]
      PROVE  LET changed == (grants[o] \ grants'[o]) \cup (grants'[o] \ grants[o]) IN
             Officers(changed) = {} /\ Cardinality(changed) <= 1
  <2>1. (grants[o] \ grants'[o]) \cup (grants'[o] \ grants[o]) = {}
    BY <1>1
  <2>2. {} \subseteq {o}
    OBVIOUS
  <2> QED  BY <2>1, <2>2, Small DEF Officers
<1>2. CASE UNCHANGED grants
  BY <1>1, <1>2 DEF WholeStep
<1>3. ASSUME NEW c \in Consoles, SetGrant(c) PROVE WholeStep
  <2>1. PICK cell \in Cells :
          Saving(c) /\ cell \in saving[c].todo /\ SetCell(c, cell)
    BY <1>3 DEF SetGrant
  <2>2. \A o \in GrantOffices :
           \/ grants'[o] = grants[o]
           \/ /\ cell[1] # "satellite_admin"
              /\ grants'[o] \in {grants[o] \cup {cell}, grants[o] \ {cell}}
    BY <2>1, CellWritten
  <2>3. ASSUME NEW o \in GrantOffices, cell[1] # "satellite_admin",
               grants'[o] \in {grants[o] \cup {cell}, grants[o] \ {cell}}
        PROVE  LET changed == (grants[o] \ grants'[o]) \cup (grants'[o] \ grants[o]) IN
               Officers(changed) = {} /\ Cardinality(changed) <= 1
    <3>1. (grants[o] \ grants'[o]) \cup (grants'[o] \ grants[o]) \subseteq {cell}
      BY <2>3
    <3> QED  BY <2>3, <3>1, Small DEF Officers
  <2> QED  BY <1>1, <2>2, <2>3 DEF WholeStep
<1>4. ASSUME NEW c \in Consoles, MatrixCommit(c) PROVE WholeStep
  <2>1. /\ Applying(c) /\ saving[c].stage = "commit" /\ saving[c].at \in GrantOffices
        /\ grants' = [grants EXCEPT ![saving[c].at] =
                         (@ \ saving[c].doomed) \cup saving[c].added]
        /\ Officers(saving[c].copy) \subseteq
             saving[c].added \cup (grants[saving[c].at] \ saving[c].doomed)
    BY <1>4, ApplyCall DEF MatrixCommit, PageOK, CopyOK
  <2>2. \A o \in GrantOffices \ {saving[c].at} : grants'[o] = grants[o]
    BY <2>1 DEF PagesOK, MatrixTypeOK
  <2>3. /\ InTx(c, saving[c].at)
        /\ Officers(saving[c].copy) \subseteq grants'[saving[c].at]
    BY <2>1 DEF InTx, PagesOK, MatrixTypeOK
  <2> QED  BY <1>1, <2>1, <2>2, <2>3 DEF WholeStep
<1>5. CASE MatrixNext
  BY <1>2, <1>3, <1>4, <1>5
     DEF MatrixNext, ReadGrants, ReadDefaults, FinishLoad, LoseLoad, EndLoad, MatrixPickTab,
         PickOffice, PickTarget, BeginEdit, CancelEdit, Toggle, Save, ApplyTemplate,
         MatrixUserActs, LoseGrant, WaitForApply, FindNothing, FinishSave, BeginReplace,
         DeleteRows, InsertRows, FinishApply
<1> QED  BY <1>2, <1>5 DEF matrix

\* However many people save and apply at once: the grants of an office change by
\* one cell that its users may edit, or to what an apply copied, in the commit of
\* its transaction (setOfficeGrant, replaceOfficeGrants of rbac.service.ts).
THEOREM WholeApply == ASSUME MatrixAssumptions PROVE MatrixSpec => ApplyIsWhole
<1>1. ASSUME PagesOK, [MatrixNext]_matrix PROVE [WholeStep]_matrix
  BY <1>1, StepIsWhole
<1> QED  BY <1>1, GrantsHold, PTL DEF MatrixSpec, ApplyIsWhole, WholeStep

\* The rows of the server, and the permission pages with their requests under
\* way, are well formed (rbac.service.ts, admin/rbac/page.tsx).
THEOREM MatrixTyped == ASSUME MatrixAssumptions PROVE MatrixSpec => []MatrixTypeOK
<1>1. PagesOK => MatrixTypeOK
  BY DEF PagesOK
<1> QED  BY <1>1, GrantsHold, PTL

----------------------------------------------------------------------------
(* A page that is alone *)

ShowsAll(c) ==
  /\ ~Platform(c) => ShowsOffice(c)
  /\ RoleOf[c] # "satellite_admin" => ShowsTemplate(c)

\* A reload that answers what the server has.
Fresh(c, load) ==
  /\ load.office = screen[c].office
  /\ load.awaited \/ Idle(c)
  /\ ~Platform(c) => load.grants \in {Nil, grants[load.office]}
  /\ RoleOf[c] # "satellite_admin" => load.defaults \in {Nil, template}

\* A save has set every cell but those it still has to.
SetSoFar(c) ==
  IF saving[c].office = Nil
  THEN \A cell \in Cells \ saving[c].todo : cell \in template <=> cell \in saving[c].after
  ELSE /\ \A cell \in Cells \ saving[c].todo :
            cell \in grants[saving[c].office] <=> cell \in saving[c].after
       /\ RoleOf[c] # "satellite_admin" => ShowsTemplate(c)

SaveFollows(c) ==
  Saving(c) =>
    /\ loads[c] = <<>> /\ saving[c].waits = {} /\ saving[c].todo \subseteq Compared(c)
    /\ IF saving[c].office = Nil THEN Platform(c)
       ELSE ~Platform(c) /\ saving[c].office = screen[c].office
    /\ ~screen[c].doubt /\ ~saving[c].failed => SetSoFar(c)

OfficeFollows(c) ==
  /\ ~Platform(c) => screen[c].office \in GrantOffices
  /\ RoleOf[c] = "satellite_admin" => screen[c].office = HeadOffice

LoadFollows(c) ==
  /\ loads[c] = <<>> \/ (Len(loads[c]) = 1 /\ Fresh(c, loads[c][1]))
  /\ Applying(c) /\ saving[c].stage # "reload" => loads[c] = <<>>

RestFollows(c) ==
  Idle(c) /\ loads[c] = <<>> /\ ~screen[c].doubt => ShowsAll(c)

Follows(c) == OfficeFollows(c) /\ LoadFollows(c) /\ RestFollows(c) /\ SaveFollows(c)

OneTab ==
  /\ \A c, d \in consoles : c = d
  /\ \A c \in Consoles \ consoles : saving[c] = Nil /\ loads[c] = <<>>
  /\ \A c \in consoles : Follows(c)

Solo == PagesOK /\ grantMode \in {"alone", "lossy"} /\ OneTab

LEMMA SoloStep ==
  ASSUME Solo, NEW c \in consoles, UNCHANGED <<consoles, grantMode>>,
         \A d \in Consoles \ {c} : Alike(d),
         Follows(c)'
  PROVE  OneTab'
BY DEF Solo, OneTab, Alike

LEMMA SoloActs ==
  ASSUME Solo, NEW c \in Consoles,
         ~Idle(c) \/ loads[c] # <<>> \/ MatrixUserActs(c)
  PROVE  c \in consoles /\ Follows(c)
BY DEF Solo, OneTab, Idle, MatrixUserActs

\* The loads of the page, whether there is one.
LEMMA TheLoad ==
  ASSUME Solo, NEW c \in Consoles, NEW i \in DOMAIN loads[c]
  PROVE  /\ c \in consoles /\ Follows(c) /\ i = 1 /\ Len(loads[c]) = 1
         /\ loads[c] = <<loads[c][1]>> /\ loads[c] # <<>>
         /\ loads[c][1] \in MatrixLoad
         /\ Fresh(c, loads[c][1])
         /\ RemoveAt(loads[c], i) = <<>>
<1>1. loads[c] \in Seq(MatrixLoad)
  BY Types DEF Solo
<1>2. loads[c] # <<>>
  BY <1>1
<1>3. c \in consoles /\ Follows(c)
  BY <1>2, SoloActs
<1>4. Len(loads[c]) = 1 /\ Fresh(c, loads[c][1])
  BY <1>2, <1>3 DEF Follows, LoadFollows
<1>5. i = 1 /\ loads[c][1] \in MatrixLoad
  BY <1>1, <1>4
<1>6. RemoveAt(loads[c], i) \in Seq(MatrixLoad) /\ Len(RemoveAt(loads[c], i)) = 0
  BY <1>1, <1>4, RemovedAt
<1>7. RemoveAt(loads[c], i) = <<>>
  BY <1>6
<1>8. loads[c] = <<loads[c][1]>>
  BY <1>1, <1>4
<1> QED  BY <1>2, <1>3, <1>4, <1>5, <1>7, <1>8

LEMMA FillSolo ==
  ASSUME MatrixAssumptions, Solo, NEW c \in Consoles, NEW i \in DOMAIN loads[c],
         NEW load \in MatrixLoad, loads' = [loads EXCEPT ![c][i] = load],
         load.office = loads[c][1].office, load.awaited = loads[c][1].awaited,
         load.grants \in {loads[c][1].grants, grants[load.office]},
         load.defaults \in {loads[c][1].defaults, template},
         UNCHANGED <<grants, template, consoles, screen, saving, grantOps, grantMode>>
  PROVE  OneTab'
<1>1. /\ c \in consoles /\ Follows(c) /\ i = 1 /\ Len(loads[c]) = 1
      /\ Fresh(c, loads[c][1]) /\ loads[c] # <<>>
  BY TheLoad
<1>2. loads'[c] = [loads[c] EXCEPT ![1] = load] /\ loads[c] \in Seq(MatrixLoad)
  BY <1>1, Types DEF Solo, PagesOK, MatrixTypeOK
<1>3. Len(loads'[c]) = 1 /\ loads'[c][1] = load /\ loads'[c] # <<>>
  BY <1>1, <1>2
<1>4. Fresh(c, load)'
  BY <1>1 DEF Fresh, Idle
<1>5. Follows(c)'
  BY <1>1, <1>3, <1>4
     DEF Follows, OfficeFollows, LoadFollows, RestFollows, SaveFollows, Saving,
         Applying, Idle, Platform
<1>6. \A d \in Consoles \ {c} : Alike(d)
  BY DEF Alike, Solo, PagesOK, MatrixTypeOK
<1> QED  BY <1>1, <1>5, <1>6, SoloStep

LEMMA ReadGrantsSolo ==
  ASSUME MatrixAssumptions, Solo, NEW c \in Consoles, ReadGrants(c)
  PROVE  OneTab'
<1>1. PICK i \in DOMAIN loads[c] :
        loads' = [loads EXCEPT ![c][i].grants = grants[loads[c][i].office]]
  BY DEF ReadGrants
<1> DEFINE load == [loads[c][i] EXCEPT !.grants = grants[loads[c][i].office]]
<1>2. i = 1 /\ loads[c][i] \in MatrixLoad /\ loads[c][i] = loads[c][1]
  BY TheLoad
<1>3. ReadGrants(c) => grants[loads[c][i].office] \in SUBSET Cells
  <2>1. loads[c][1].grants = Nil
    BY <1>2, TheLoad DEF ReadGrants
  <2>2. loads[c][1].office \in GrantOffices
    BY <1>2, <2>1, Types DEF Solo, PageOK, LoadsOK, MatrixLoad
  <2> QED  BY <1>2, <2>2 DEF Solo, PagesOK, MatrixTypeOK
<1>4. /\ load \in MatrixLoad /\ load.office = loads[c][1].office
      /\ load.awaited = loads[c][1].awaited
      /\ load.grants = grants[load.office] /\ load.defaults = loads[c][1].defaults
  BY <1>2, <1>3 DEF MatrixLoad
<1>5. loads' = [loads EXCEPT ![c][i] = load]
  BY <1>1
<1>6. UNCHANGED <<grants, template, consoles, screen, saving, grantOps, grantMode>>
  BY DEF ReadGrants
<1> HIDE DEF load
<1> QED  BY <1>4, <1>5, <1>6, FillSolo

LEMMA ReadDefaultsSolo ==
  ASSUME MatrixAssumptions, Solo, NEW c \in Consoles, ReadDefaults(c)
  PROVE  OneTab'
<1>1. PICK i \in DOMAIN loads[c] : loads' = [loads EXCEPT ![c][i].defaults = template]
  BY DEF ReadDefaults
<1> DEFINE load == [loads[c][i] EXCEPT !.defaults = template]
<1>2. i = 1 /\ loads[c][i] \in MatrixLoad /\ loads[c][i] = loads[c][1]
  BY TheLoad
<1>3. template \in SUBSET Cells
  BY DEF Solo, PagesOK, MatrixTypeOK
<1>4. /\ load \in MatrixLoad /\ load.office = loads[c][1].office
      /\ load.awaited = loads[c][1].awaited
      /\ load.grants = loads[c][1].grants /\ load.defaults = template
  BY <1>2, <1>3 DEF MatrixLoad
<1>5. loads' = [loads EXCEPT ![c][i] = load]
  BY <1>1
<1>6. UNCHANGED <<grants, template, consoles, screen, saving, grantOps, grantMode>>
  BY DEF ReadDefaults
<1> HIDE DEF load
<1> QED  BY <1>4, <1>5, <1>6, FillSolo

LEMMA FinishLoadSolo ==
  ASSUME MatrixAssumptions, Solo, NEW c \in Consoles, FinishLoad(c)
  PROVE  OneTab'
<1>1. PICK i \in DOMAIN loads[c] :
        /\ loads[c][i].grants # Nil /\ loads[c][i].defaults # Nil
        /\ screen' = [screen EXCEPT ![c] = Loaded(c, loads[c][i])]
        /\ saving' = IF loads[c][i].awaited THEN [saving EXCEPT ![c] = Nil] ELSE saving
        /\ EndLoad(c, i)
  BY DEF FinishLoad
<1> DEFINE load == loads[c][1]
<1>2. /\ c \in consoles /\ Follows(c) /\ i = 1 /\ load \in MatrixLoad
      /\ Fresh(c, load) /\ RemoveAt(loads[c], i) = <<>>
  BY TheLoad
<1>3. /\ UNCHANGED <<grants, template, consoles, grantOps, grantMode>>
      /\ loads' = [loads EXCEPT ![c] = <<>>] /\ loads'[c] = <<>>
  BY <1>1, <1>2 DEF EndLoad, Solo, PagesOK, MatrixTypeOK
<1>4. \A d \in Consoles \ {c} : Alike(d)
  BY <1>1, <1>3 DEF Alike, Solo, PagesOK, MatrixTypeOK
<1>5. saving'[c] = Nil
  BY <1>1, <1>2 DEF Fresh, Idle, Solo, PagesOK, MatrixTypeOK
<1>6. /\ screen'[c].office = screen[c].office /\ screen[c] \in Screen
      /\ screen'[c].shown = load.grants
      /\ RoleOf[c] # "satellite_admin" => screen'[c].defaults = load.defaults
  BY <1>1, <1>2, Types DEF Loaded, Screen, Solo, PagesOK, MatrixTypeOK
<1>7. ShowsAll(c)'
  BY <1>1, <1>2, <1>3, <1>6
     DEF ShowsAll, ShowsOffice, ShowsTemplate, Fresh, Platform
<1>8. Follows(c)'
  BY <1>2, <1>3, <1>5, <1>6, <1>7
     DEF Follows, OfficeFollows, LoadFollows, RestFollows, SaveFollows, Saving,
         Applying, Idle, Platform
<1> QED  BY <1>2, <1>3, <1>4, <1>8, SoloStep

LEMMA LoseLoadSolo ==
  ASSUME MatrixAssumptions, Solo, NEW c \in Consoles, LoseLoad(c)
  PROVE  OneTab'
<1>1. PICK i \in DOMAIN loads[c] :
        /\ screen' = [screen EXCEPT ![c].doubt = TRUE]
        /\ saving' = IF loads[c][i].awaited THEN [saving EXCEPT ![c].stage = "stuck"]
                     ELSE saving
        /\ EndLoad(c, i)
  BY DEF LoseLoad
<1>2. /\ c \in consoles /\ Follows(c) /\ i = 1
      /\ Fresh(c, loads[c][1]) /\ RemoveAt(loads[c], i) = <<>> /\ loads[c] # <<>>
  BY TheLoad
<1>3. /\ UNCHANGED <<grants, template, consoles, grantOps, grantMode>>
      /\ loads' = [loads EXCEPT ![c] = <<>>] /\ loads'[c] = <<>>
  BY <1>1, <1>2 DEF EndLoad, Solo, PagesOK, MatrixTypeOK
<1>4. \A d \in Consoles \ {c} : Alike(d)
  BY <1>1, <1>3 DEF Alike, Solo, PagesOK, MatrixTypeOK
<1>5. /\ screen'[c].office = screen[c].office /\ screen[c] \in Screen
      /\ screen'[c].doubt = TRUE
  BY <1>1, Types DEF Screen, Solo, PagesOK, MatrixTypeOK
<1>6. ~Saving(c)'
  <2>1. CASE loads[c][i].awaited
    <3>1. saving[c] \in MatrixCall /\ saving[c].kind = "apply"
      BY <2>1, Types DEF Solo, PageOK, LoadsOK, Applying, Idle
    <3>2. saving'[c].kind = "apply"
      BY <1>1, <2>1, <3>1 DEF MatrixCall, Solo, PagesOK, MatrixTypeOK
    <3> QED  BY <3>2 DEF Saving
  <2>2. CASE ~loads[c][i].awaited
    BY <1>1, <1>2, <2>2 DEF Fresh, Saving, Idle
  <2> QED  BY <2>1, <2>2
<1>7. Follows(c)'
  BY <1>2, <1>3, <1>5, <1>6
     DEF Follows, OfficeFollows, LoadFollows, RestFollows, SaveFollows, Platform
<1> QED  BY <1>2, <1>3, <1>4, <1>7, SoloStep

\* The user of a page that is alone waits until it is loaded.
LEMMA UserSolo ==
  ASSUME Solo, NEW c \in Consoles, MatrixUserActs(c)
  PROVE  /\ c \in consoles /\ Follows(c) /\ loads[c] = <<>>
         /\ screen[c] \in Screen
         /\ UNCHANGED <<grants, template, consoles, grantMode>>
BY SoloActs, Types DEF MatrixUserActs, Solo

\* Steps that change what the page shows in no way that matters.
LEMMA LookSolo ==
  ASSUME MatrixAssumptions, Solo, NEW c \in Consoles, MatrixUserActs(c),
         NEW new \in Screen, screen' = [screen EXCEPT ![c] = new],
         new.office = screen[c].office, new.shown = screen[c].shown,
         new.defaults = screen[c].defaults, new.doubt = screen[c].doubt,
         UNCHANGED <<saving, loads>>
  PROVE  OneTab'
<1>1. /\ c \in consoles /\ Follows(c) /\ loads[c] = <<>>
      /\ UNCHANGED <<grants, template, consoles, grantMode>>
  BY UserSolo
<1>2. screen'[c] = new /\ \A d \in Consoles \ {c} : Alike(d)
  BY DEF Alike, Solo, PagesOK, MatrixTypeOK
<1>3. OfficeFollows(c)' /\ LoadFollows(c)'
  BY <1>1, <1>2 DEF Follows, OfficeFollows, LoadFollows, Platform, Applying, Idle
<1>4. RestFollows(c)'
  BY <1>1, <1>2 DEF Follows, RestFollows, ShowsAll, ShowsOffice, ShowsTemplate,
                    Platform, Idle
<1>5. SaveFollows(c)'
  BY <1>1, <1>2 DEF Follows, SaveFollows, SetSoFar, ShowsTemplate, Platform, Saving,
                    Idle, Compared
<1> QED  BY <1>1, <1>2, <1>3, <1>4, <1>5, SoloStep DEF Follows

LEMMA PickTabSolo ==
  ASSUME MatrixAssumptions, Solo, NEW c \in Consoles, MatrixPickTab(c)
  PROVE  OneTab'
<1>1. PICK t \in {"region", "template"} : screen' = [screen EXCEPT ![c].tab = t]
  BY DEF MatrixPickTab
<1> DEFINE new == [screen[c] EXCEPT !.tab = t]
<1>2. MatrixUserActs(c) /\ UNCHANGED <<saving, loads>> /\ screen[c] \in Screen
  BY UserSolo DEF MatrixPickTab
<1>3. /\ new \in Screen /\ new.office = screen[c].office
      /\ new.shown = screen[c].shown /\ new.defaults = screen[c].defaults
      /\ new.doubt = screen[c].doubt
  BY <1>2 DEF Screen
<1>4. screen' = [screen EXCEPT ![c] = new]
  BY <1>1
<1> HIDE DEF new
<1> QED  BY <1>2, <1>3, <1>4, LookSolo

LEMMA BeginEditSolo ==
  ASSUME MatrixAssumptions, Solo, NEW c \in Consoles, BeginEdit(c)
  PROVE  OneTab'
<1> DEFINE new == [screen[c] EXCEPT !.draft = Matrix(c), !.editing = TRUE]
<1>1. MatrixUserActs(c) /\ UNCHANGED <<saving, loads>> /\ screen[c] \in Screen
  BY UserSolo DEF BeginEdit
<1>2. /\ new \in Screen /\ new.office = screen[c].office
      /\ new.shown = screen[c].shown /\ new.defaults = screen[c].defaults
      /\ new.doubt = screen[c].doubt
  BY <1>1 DEF Screen, Matrix
<1>3. screen' = [screen EXCEPT ![c] = new]
  BY DEF BeginEdit
<1> HIDE DEF new
<1> QED  BY <1>1, <1>2, <1>3, LookSolo

LEMMA CancelEditSolo ==
  ASSUME MatrixAssumptions, Solo, NEW c \in Consoles, CancelEdit(c)
  PROVE  OneTab'
<1> DEFINE new == [screen[c] EXCEPT !.draft = {}, !.editing = FALSE]
<1>1. MatrixUserActs(c) /\ UNCHANGED <<saving, loads>> /\ screen[c] \in Screen
  BY UserSolo DEF CancelEdit
<1>2. /\ new \in Screen /\ new.office = screen[c].office
      /\ new.shown = screen[c].shown /\ new.defaults = screen[c].defaults
      /\ new.doubt = screen[c].doubt
  BY <1>1 DEF Screen
<1>3. screen' = [screen EXCEPT ![c] = new]
  BY DEF CancelEdit
<1> HIDE DEF new
<1> QED  BY <1>1, <1>2, <1>3, LookSolo

LEMMA ToggleSolo ==
  ASSUME MatrixAssumptions, Solo, NEW c \in Consoles, Toggle(c)
  PROVE  OneTab'
<1>1. PICK cell \in Cells :
        screen' = [screen EXCEPT ![c].draft =
                      IF cell \in @ THEN @ \ {cell} ELSE @ \cup {cell}]
  BY DEF Toggle
<1> DEFINE d == screen[c].draft
           new == [screen[c] EXCEPT !.draft = IF cell \in d THEN d \ {cell}
                                              ELSE d \cup {cell}]
<1>2. MatrixUserActs(c) /\ UNCHANGED <<saving, loads>> /\ screen[c] \in Screen
  BY UserSolo DEF Toggle
<1>3. /\ new \in Screen /\ new.office = screen[c].office
      /\ new.shown = screen[c].shown /\ new.defaults = screen[c].defaults
      /\ new.doubt = screen[c].doubt
  BY <1>2 DEF Screen
<1>4. screen' = [screen EXCEPT ![c] = new]
  BY <1>1
<1> HIDE DEF new
<1> QED  BY <1>2, <1>3, <1>4, LookSolo

\* A reload that has just been asked for.
LEMMA AskSolo ==
  ASSUME MatrixAssumptions, Solo, NEW c \in Consoles, loads[c] = <<>>,
         NEW o \in GrantOffices \cup {Nil}, NEW awaited \in BOOLEAN,
         Reload(c, o, awaited), screen'[c].office = o,
         awaited \/ Idle(c)', o = Nil => Platform(c)
  PROVE  /\ \A d \in Consoles \ {c} : loads'[d] = loads[d]
         /\ Len(loads'[c]) = 1 /\ loads'[c] # <<>>
         /\ Fresh(c, loads[c][1])'
<1>1. loads'[c] = Append(<<>>, MatrixSent(c, o, awaited))
  BY DEF Reload, Solo, PagesOK, MatrixTypeOK
<1>2. loads'[c] = <<MatrixSent(c, o, awaited)>>
  BY <1>1
<1>3. \A d \in Consoles \ {c} : loads'[d] = loads[d]
  BY DEF Reload, Solo, PagesOK, MatrixTypeOK
<1> DEFINE new == MatrixSent(c, o, awaited)
<1>4. Len(loads'[c]) = 1 /\ loads'[c] # <<>> /\ loads'[c][1] = new
  BY <1>2
<1>5. /\ new.office = o /\ new.awaited = awaited
      /\ new.grants = (IF o = Nil THEN {} ELSE Nil)
      /\ new.defaults = (IF RoleOf[c] = "satellite_admin" THEN {} ELSE Nil)
  BY DEF MatrixSent
<1>6. Fresh(c, loads[c][1])'
  BY <1>4, <1>5 DEF Fresh, Platform
<1> QED  BY <1>3, <1>4, <1>6

LEMMA PickOfficeSolo ==
  ASSUME MatrixAssumptions, Solo, NEW c \in Consoles, PickOffice(c)
  PROVE  OneTab'
<1>1. PICK o \in GrantOffices :
        /\ screen' = [screen EXCEPT ![c].office = o, ![c].editing = FALSE]
        /\ Reload(c, o, FALSE)
  BY DEF PickOffice
<1>2. /\ c \in consoles /\ Follows(c) /\ loads[c] = <<>> /\ screen[c] \in Screen
      /\ UNCHANGED <<grants, template, consoles, grantMode, saving>>
      /\ Idle(c) /\ Chief(c)
  BY UserSolo DEF PickOffice
<1>3. screen'[c].office = o
  BY <1>1, <1>2 DEF Screen, Solo, PagesOK, MatrixTypeOK
<1>4. Idle(c)' /\ saving'[c] = Nil
  BY <1>2 DEF Idle
<1>5. o # Nil
  BY DEF MatrixAssumptions
<1>6. /\ \A d \in Consoles \ {c} : loads'[d] = loads[d]
      /\ Len(loads'[c]) = 1 /\ loads'[c] # <<>> /\ Fresh(c, loads[c][1])'
  BY <1>1, <1>2, <1>3, <1>4, <1>5, AskSolo
<1>7. \A d \in Consoles \ {c} : Alike(d)
  BY <1>1, <1>2, <1>6 DEF Alike, Solo, PagesOK, MatrixTypeOK
<1>8. Follows(c)'
  BY <1>2, <1>3, <1>4, <1>6
     DEF Follows, OfficeFollows, LoadFollows, RestFollows, SaveFollows, Saving,
         Applying, Idle, Chief
<1> QED  BY <1>2, <1>7, <1>8, SoloStep

\* What is to be set is what the draft changes of what the page shows, and that
\* is what the server has.
LEMMA SaveSolo ==
  ASSUME MatrixAssumptions, Solo, NEW c \in Consoles, Save(c)
  PROVE  OneTab'
<1> DEFINE new == [kind |-> "save",
                   office |-> IF OnTemplate(c) THEN Nil ELSE screen[c].office,
                   todo |-> ChangedCells(c), waits |-> {},
                   after |-> screen[c].draft, failed |-> FALSE]
<1>1. /\ MatrixCanEdit(c) /\ screen[c].editing /\ Idle(c)
      /\ saving' = [saving EXCEPT ![c] = new] /\ UNCHANGED <<screen, loads>>
      /\ MatrixUserActs(c)
  BY DEF Save
<1>2. /\ c \in consoles /\ Follows(c) /\ loads[c] = <<>> /\ screen[c] \in Screen
      /\ UNCHANGED <<grants, template, consoles, grantMode>> /\ PageOK(c)
  BY <1>1, UserSolo, Types DEF Solo
<1>3. saving'[c] = new /\ \A d \in Consoles \ {c} : Alike(d)
  BY <1>1 DEF Alike, Solo, PagesOK, MatrixTypeOK
<1>4. /\ new.kind = "save" /\ new.todo = ChangedCells(c) /\ new.waits = {}
      /\ new.after = screen[c].draft /\ ~new.failed
      /\ new.office = (IF OnTemplate(c) THEN Nil ELSE screen[c].office)
  OBVIOUS
<1> HIDE DEF new
<1>5. OfficeFollows(c)' /\ LoadFollows(c)'
  BY <1>1, <1>2, <1>3, <1>4
     DEF Follows, OfficeFollows, LoadFollows, Platform, Applying
<1>6. new \in MatrixCall
  <2>1. ChangedCells(c) \subseteq Cells
    BY DEF ChangedCells, Compared
  <2> QED  BY <1>2, <2>1 DEF new, MatrixCall, Screen
<1>7. ~Idle(c)'
  BY <1>3, <1>6 DEF Idle, MatrixAssumptions
<1>8. RestFollows(c)'
  BY <1>7 DEF RestFollows
<1>9. screen[c].doubt \/ ShowsAll(c)
  BY <1>1, <1>2 DEF Follows, RestFollows
<1>10. IF new.office = Nil THEN OnTemplate(c) /\ Platform(c)
       ELSE ~OnTemplate(c) /\ ~Platform(c) /\ new.office = screen[c].office
  BY <1>1, <1>2, <1>4 DEF MatrixCanEdit, Follows, OfficeFollows, MatrixAssumptions
<1>11. ASSUME NEW cell \in Cells \ ChangedCells(c)
       PROVE  cell \in Matrix(c) <=> cell \in screen[c].draft
  <2>1. CASE cell \in Compared(c)
    BY <1>11, <2>1 DEF ChangedCells
  <2>2. CASE cell \notin Compared(c)
    <3>1. RoleOf[c] = "satellite_admin" /\ cell[1] = "satellite_admin"
      BY <1>11, <2>2 DEF Compared
    <3>2. ~Platform(c) /\ Matrix(c) = screen[c].shown
      BY <1>1, <3>1 DEF Platform, MatrixCanEdit, Matrix
    <3>3. Officers(screen[c].draft) = Officers(screen[c].shown)
      BY <1>1, <1>2, <3>2 DEF PageOK, DraftOK
    <3> QED  BY <3>1, <3>2, <3>3 DEF Officers
  <2> QED  BY <2>1, <2>2
<1>12. ASSUME ShowsAll(c) PROVE SetSoFar(c)'
  <2>1. CASE new.office = Nil
    <3>1. Matrix(c) = template
      BY <1>10, <1>12, <2>1 DEF Matrix, ShowsAll, ShowsTemplate, Platform
    <3>2. \A cell \in Cells \ saving'[c].todo : cell \in template' <=> cell \in saving'[c].after
      BY <1>2, <1>3, <1>4, <1>11, <3>1
    <3> QED  BY <1>3, <2>1, <3>2 DEF SetSoFar
  <2>2. CASE new.office # Nil
    <3>1. Matrix(c) = grants[new.office]
      BY <1>10, <1>12, <2>2 DEF Matrix, ShowsAll, ShowsOffice
    <3>2. \A cell \in Cells \ saving'[c].todo :
            cell \in grants'[saving'[c].office] <=> cell \in saving'[c].after
      BY <1>2, <1>3, <1>4, <1>11, <3>1
    <3>3. RoleOf[c] # "satellite_admin" => ShowsTemplate(c)'
      BY <1>1, <1>2, <1>12 DEF ShowsAll, ShowsTemplate
    <3> QED  BY <1>3, <2>2, <3>2, <3>3 DEF SetSoFar
  <2> QED  BY <2>1, <2>2
<1>13. SaveFollows(c)'
  <2>1. ChangedCells(c) \subseteq Compared(c)'
    BY DEF ChangedCells, Compared
  <2> QED  BY <1>1, <1>2, <1>3, <1>4, <1>9, <1>10, <1>12, <2>1
              DEF SaveFollows, Platform
<1> QED  BY <1>2, <1>3, <1>5, <1>8, <1>13, SoloStep DEF Follows

LEMMA ApplyTemplateSolo ==
  ASSUME MatrixAssumptions, Solo, NEW c \in Consoles, ApplyTemplate(c)
  PROVE  OneTab'
<1>1. PICK todo \in {{screen[c].office}, GrantOffices} :
        saving' = [saving EXCEPT ![c] =
                      [kind |-> "apply", todo |-> todo, at |-> Nil,
                       stage |-> "next", seen |-> {}, doomed |-> {},
                       added |-> {}, copy |-> {}, failed |-> FALSE]]
  BY DEF ApplyTemplate
<1>2. /\ MatrixUserActs(c) /\ UNCHANGED <<screen, loads>> /\ screen[c].office # Nil
  BY DEF ApplyTemplate
<1>3. /\ c \in consoles /\ Follows(c) /\ loads[c] = <<>> /\ screen[c] \in Screen
      /\ UNCHANGED <<grants, template, consoles, grantMode>>
  BY <1>2, UserSolo
<1> DEFINE new == [kind |-> "apply", todo |-> todo, at |-> Nil,
                   stage |-> "next", seen |-> {}, doomed |-> {},
                   added |-> {}, copy |-> {}, failed |-> FALSE]
<1>4. new \in MatrixCall
  BY <1>2, <1>3 DEF MatrixCall, Screen
<1>5. saving'[c] = new /\ new.kind = "apply" /\ \A d \in Consoles \ {c} : Alike(d)
  BY <1>1, <1>2 DEF Alike, Solo, PagesOK, MatrixTypeOK
<1> HIDE DEF new
<1>6. Follows(c)'
  BY <1>2, <1>3, <1>4, <1>5
     DEF Follows, OfficeFollows, LoadFollows, RestFollows, SaveFollows, Saving,
         Idle, Platform, MatrixAssumptions
<1> QED  BY <1>3, <1>5, <1>6, SoloStep

----------------------------------------------------------------------------
(* Saving and applying alone *)

LEMMA NobodyElseApplies ==
  ASSUME Solo, NEW c \in consoles, NEW o
  PROVE  Doomed(c, o) = {} /\ Added(c, o) = {}
<1>1. \A d \in Consoles \ {c} : ~InTx(d, o)
  BY DEF Solo, OneTab, InTx, Applying, Idle
<1> QED  BY <1>1 DEF Doomed, Added

LEMMA SavingSolo ==
  ASSUME Solo, NEW c \in Consoles, Saving(c)
  PROVE  /\ c \in consoles /\ Follows(c) /\ SaveFollows(c) /\ loads[c] = <<>>
         /\ saving[c] \in MatrixCall /\ saving[c].kind = "save" /\ screen[c] \in Screen
         /\ PageOK(c)
BY SoloActs, Types DEF Saving, Idle, Follows, SaveFollows, Solo

\* An answer to one of the requests of a save.
LEMMA AnswerSolo ==
  ASSUME MatrixAssumptions, Solo, NEW c \in Consoles, NEW cell, NEW lost \in BOOLEAN,
         Saving(c), Answered(c, cell, lost),
         saving[c].office # Nil => UNCHANGED template,
         lost \/ (SetSoFar(c) => SetSoFar(c)')
  PROVE  OneTab'
<1>1. PICK new \in MatrixCall :
        /\ new.kind = "save" /\ new.office = saving[c].office
        /\ new.todo = saving[c].todo \ {cell} /\ new.waits = saving[c].waits \ {cell}
        /\ new.failed = (saving[c].failed \/ lost)
        /\ saving' = [saving EXCEPT ![c] = new] /\ saving'[c] = new
  BY AnsweredCall DEF Solo
<1>2. UNCHANGED <<consoles, screen, loads, grantOps, grantMode>>
  BY DEF Answered
<1>3. /\ c \in consoles /\ Follows(c) /\ SaveFollows(c) /\ loads[c] = <<>>
  BY SavingSolo
<1>4. \A d \in Consoles \ {c} : Alike(d)
  BY <1>1, <1>2 DEF Alike, Solo, PagesOK, MatrixTypeOK
<1>5. Saving(c)' /\ ~Idle(c)'
  BY <1>1 DEF Saving, Idle, MatrixAssumptions
<1>6. OfficeFollows(c)' /\ LoadFollows(c)' /\ RestFollows(c)'
  BY <1>1, <1>2, <1>3, <1>5
     DEF Follows, OfficeFollows, LoadFollows, RestFollows, Platform, Applying
<1>7. SaveFollows(c)'
  BY <1>1, <1>2, <1>3, <1>5 DEF SaveFollows, Platform, Compared
<1> QED  BY <1>2, <1>3, <1>4, <1>6, <1>7, SoloStep DEF Follows

LEMMA SetGrantSolo ==
  ASSUME MatrixAssumptions, Solo, NEW c \in Consoles, SetGrant(c)
  PROVE  OneTab'
<1>1. PICK cell \in Cells, lost \in BOOLEAN :
        /\ Saving(c) /\ cell \in saving[c].todo
        /\ SetCell(c, cell) /\ Answered(c, cell, lost)
  BY DEF SetGrant
<1>2. /\ c \in consoles /\ Follows(c) /\ SaveFollows(c) /\ saving[c] \in MatrixCall
      /\ screen[c] \in Screen /\ PageOK(c)
  BY <1>1, SavingSolo
<1>3. PICK new \in MatrixCall :
        /\ new.kind = "save" /\ new.office = saving[c].office
        /\ new.after = saving[c].after /\ new.todo = saving[c].todo \ {cell}
        /\ saving'[c] = new
  BY <1>1, AnsweredCall DEF Solo
<1>4. MayGrant(c, saving[c].office, cell)
  <2>1. CASE saving[c].office = Nil
    BY <1>1, <1>2, <2>1 DEF SaveFollows, MayGrant
  <2>2. CASE saving[c].office # Nil
    <3>1. ~Platform(c) /\ saving[c].office = screen[c].office
      BY <1>1, <1>2, <2>2 DEF SaveFollows
    <3>2. CASE Chief(c)
      BY <2>2, <3>2 DEF MayGrant
    <3>3. CASE ~Chief(c)
      <4>1. RoleOf[c] = "satellite_admin"
        BY <3>1, <3>3 DEF Platform, Chief, MatrixAssumptions
      <4>2. screen[c].office = HeadOffice
        BY <1>2, <4>1 DEF Follows, OfficeFollows
      <4>3. cell[1] # "satellite_admin"
        BY <1>1, <1>2, <4>1 DEF SaveFollows, Compared
      <4> QED  BY <2>2, <3>1, <4>1, <4>2, <4>3 DEF MayGrant
    <3> QED  BY <3>2, <3>3
  <2> QED  BY <2>1, <2>2
<1>5. screen'[c] = screen[c]
  BY <1>1 DEF Answered
<1>6. CASE saving[c].office = Nil
  <2>1. template' = Set(template, cell, cell \in saving[c].after)
    BY <1>1, <1>4, <1>6 DEF SetCell
  <2>2. SetSoFar(c) => SetSoFar(c)'
    BY <1>3, <1>6, <2>1 DEF SetSoFar, Set
  <2> QED  BY <1>1, <1>6, <2>2, AnswerSolo
<1>7. CASE saving[c].office # Nil
  <2>1. /\ grants' = [grants EXCEPT ![saving[c].office] =
                        Set(@, cell, cell \in saving[c].after)]
        /\ UNCHANGED template
    BY <1>1, <1>4, <1>7 DEF SetCell
  <2>2. saving[c].office \in GrantOffices
    BY <1>1, <1>2, <1>7 DEF MatrixCall, Saving
  <2>3. grants'[saving[c].office] = Set(grants[saving[c].office], cell, cell \in saving[c].after)
    BY <2>1, <2>2 DEF Solo, PagesOK, MatrixTypeOK
  <2>4. SetSoFar(c) => SetSoFar(c)'
    BY <1>3, <1>5, <1>7, <2>1, <2>3 DEF SetSoFar, Set, ShowsTemplate
  <2> QED  BY <1>1, <1>7, <2>1, <2>4, AnswerSolo
<1> QED  BY <1>6, <1>7

LEMMA LoseGrantSolo ==
  ASSUME MatrixAssumptions, Solo, NEW c \in Consoles, LoseGrant(c)
  PROVE  OneTab'
<1>1. PICK cell \in Cells : Saving(c) /\ Answered(c, cell, TRUE)
  BY DEF LoseGrant
<1>2. UNCHANGED template
  BY DEF LoseGrant
<1> QED  BY <1>1, <1>2, AnswerSolo

\* No request waits for another page.
LEMMA NoneWaits ==
  ASSUME Solo, NEW c \in Consoles
  PROVE  ~WaitForApply(c) /\ ~FindNothing(c)
<1>1. ASSUME WaitForApply(c) PROVE FALSE
  <2>1. Saving(c) /\ Doomed(c, saving[c].office) # {}
    BY <1>1 DEF WaitForApply
  <2> QED  BY <2>1, SavingSolo, NobodyElseApplies
<1>2. ASSUME FindNothing(c) PROVE FALSE
  <2>1. Saving(c) /\ saving[c].waits # {}
    BY <1>2 DEF FindNothing
  <2> QED  BY <2>1, SavingSolo DEF SaveFollows
<1> QED  BY <1>1, <1>2

\* Every cell is set, so the draft is what the server has.
LEMMA FinishSaveSolo ==
  ASSUME MatrixAssumptions, Solo, NEW c \in Consoles, FinishSave(c)
  PROVE  OneTab'
<1>1. /\ Saving(c) /\ saving[c].todo = {}
      /\ screen' = [screen EXCEPT ![c] = Saved(c)]
      /\ saving' = [saving EXCEPT ![c] = Nil]
      /\ UNCHANGED <<grants, template, consoles, loads, grantOps, grantMode>>
  BY DEF FinishSave
<1>2. /\ c \in consoles /\ Follows(c) /\ SaveFollows(c) /\ loads[c] = <<>>
      /\ saving[c] \in MatrixCall /\ saving[c].kind = "save" /\ screen[c] \in Screen
  BY <1>1, SavingSolo
<1>3. /\ screen'[c] = Saved(c) /\ saving'[c] = Nil
      /\ \A d \in Consoles \ {c} : Alike(d)
  BY <1>1 DEF Alike, Solo, PagesOK, MatrixTypeOK
<1>4. Saved(c).office = screen[c].office
  BY <1>2 DEF Saved, Screen
<1>5. OfficeFollows(c)' /\ LoadFollows(c)' /\ SaveFollows(c)'
  BY <1>1, <1>2, <1>3, <1>4
     DEF Follows, OfficeFollows, LoadFollows, SaveFollows, Platform, Applying,
         Saving, Idle
<1>6. ASSUME ~Saved(c).doubt PROVE ShowsAll(c)'
  <2>1. ~saving[c].failed
    BY <1>2, <1>6 DEF Saved, Screen
  <2>2. ~screen[c].doubt
    BY <1>2, <1>6, <2>1 DEF Saved, Screen
  <2>3. SetSoFar(c)
    BY <1>1, <1>2, <2>1, <2>2 DEF SaveFollows
  <2>4. saving[c].after \subseteq Cells /\ template \subseteq Cells
    BY <1>2 DEF MatrixCall, Solo, PagesOK, MatrixTypeOK
  <2>5. CASE saving[c].office = Nil
    <3>1. Platform(c)
      BY <1>1, <1>2, <2>5 DEF SaveFollows
    <3>2. template = saving[c].after
      BY <1>1, <2>3, <2>4, <2>5 DEF SetSoFar
    <3>3. Saved(c).defaults = saving[c].after
      BY <1>2, <2>1, <2>5 DEF Saved, Screen
    <3> QED  BY <1>1, <1>3, <3>1, <3>2, <3>3 DEF ShowsAll, ShowsTemplate, Platform
  <2>6. CASE saving[c].office # Nil
    <3>1. ~Platform(c) /\ saving[c].office = screen[c].office
      BY <1>1, <1>2, <2>6 DEF SaveFollows
    <3>2. saving[c].office \in GrantOffices /\ grants[saving[c].office] \subseteq Cells
      BY <1>2, <2>6 DEF MatrixCall, Solo, PagesOK, MatrixTypeOK
    <3>3. grants[saving[c].office] = saving[c].after
      BY <1>1, <2>3, <2>4, <2>6, <3>2 DEF SetSoFar
    <3>4. /\ Saved(c).shown = saving[c].after
          /\ Saved(c).defaults = screen[c].defaults
      BY <1>2, <2>1, <2>6 DEF Saved, Screen
    <3>5. ShowsOffice(c)'
      BY <1>1, <1>3, <1>4, <3>1, <3>3, <3>4 DEF ShowsOffice
    <3>6. RoleOf[c] # "satellite_admin" => ShowsTemplate(c)'
      BY <1>1, <1>3, <2>3, <2>6, <3>4 DEF SetSoFar, ShowsTemplate
    <3> QED  BY <3>5, <3>6 DEF ShowsAll
  <2> QED  BY <2>5, <2>6
<1>7. RestFollows(c)'
  BY <1>3, <1>6 DEF RestFollows
<1> QED  BY <1>1, <1>2, <1>3, <1>5, <1>7, SoloStep DEF Follows

LEMMA ApplyingSolo ==
  ASSUME Solo, NEW c \in Consoles, Applying(c)
  PROVE  /\ c \in consoles /\ Follows(c)
         /\ saving[c] \in MatrixCall /\ saving[c].kind = "apply" /\ screen[c] \in Screen
BY SoloActs, Types DEF Applying, Idle, Solo

\* A step of an apply: what the page shows is loaded anew after it.
LEMMA ApplySolo ==
  ASSUME MatrixAssumptions, Solo, NEW c \in Consoles, Applying(c), saving[c].stage # "reload",
         NEW next \in MatrixCall, next.kind = "apply", saving'[c] = next,
         \A d \in Consoles \ {c} : saving'[d] = saving[d],
         UNCHANGED <<template, consoles, screen, loads, grantOps, grantMode>>
  PROVE  OneTab'
<1>1. c \in consoles /\ Follows(c)
  BY ApplyingSolo
<1>2. ~Idle(c)' /\ ~Saving(c)'
  BY DEF Idle, Saving, MatrixAssumptions
<1>3. Follows(c)'
  BY <1>1, <1>2 DEF Follows, OfficeFollows, LoadFollows, RestFollows, SaveFollows,
                    Platform
<1> QED  BY <1>1, <1>3, SoloStep DEF Alike

LEMMA BeginReplaceSolo ==
  ASSUME MatrixAssumptions, Solo, NEW c \in Consoles, BeginReplace(c)
  PROVE  OneTab'
<1>1. PICK o \in GrantOffices :
        /\ Applying(c) /\ saving[c].stage = "next"
        /\ MatrixStep(c, [MatrixGoto(c, "delete") EXCEPT !.at = o, !.seen = grants[o]])
  BY DEF BeginReplace
<1> DEFINE next == [MatrixGoto(c, "delete") EXCEPT !.at = o, !.seen = grants[o]]
<1>2. grants[o] \subseteq Cells
  BY DEF Solo, PagesOK, MatrixTypeOK
<1>3. next \in MatrixCall /\ next.kind = "apply"
  BY <1>1, <1>2, ApplyingSolo DEF MatrixGoto, MatrixCall
<1>4. /\ saving'[c] = next /\ \A d \in Consoles \ {c} : saving'[d] = saving[d]
      /\ UNCHANGED <<template, consoles, screen, loads, grantOps, grantMode>>
  BY <1>1 DEF MatrixStep, Solo, PagesOK, MatrixTypeOK
<1> HIDE DEF next
<1> QED  BY <1>1, <1>3, <1>4, ApplySolo

LEMMA DeleteRowsSolo ==
  ASSUME MatrixAssumptions, Solo, NEW c \in Consoles, DeleteRows(c)
  PROVE  OneTab'
<1> DEFINE next == [MatrixGoto(c, "insert") EXCEPT
                       !.doomed = saving[c].seen \cap grants[saving[c].at]]
<1>1. Applying(c) /\ saving[c].stage = "delete" /\ MatrixStep(c, next)
  BY DEF DeleteRows
<1>2. next \in MatrixCall /\ next.kind = "apply"
  BY <1>1, ApplyingSolo DEF MatrixGoto, MatrixCall
<1>3. /\ saving'[c] = next /\ \A d \in Consoles \ {c} : saving'[d] = saving[d]
      /\ UNCHANGED <<template, consoles, screen, loads, grantOps, grantMode>>
  BY <1>1 DEF MatrixStep, Solo, PagesOK, MatrixTypeOK
<1> HIDE DEF next
<1> QED  BY <1>1, <1>2, <1>3, ApplySolo

LEMMA InsertRowsSolo ==
  ASSUME MatrixAssumptions, Solo, NEW c \in Consoles, InsertRows(c)
  PROVE  OneTab'
<1> DEFINE next == [MatrixGoto(c, "commit") EXCEPT
                       !.copy = template,
                       !.added = template \ (grants[saving[c].at] \ saving[c].doomed)]
<1>1. Applying(c) /\ saving[c].stage = "insert" /\ MatrixStep(c, next)
  BY DEF InsertRows
<1>2. template \subseteq Cells
  BY DEF Solo, PagesOK, MatrixTypeOK
<1>3. next \in MatrixCall /\ next.kind = "apply"
  BY <1>1, <1>2, ApplyingSolo DEF MatrixGoto, MatrixCall
<1>4. /\ saving'[c] = next /\ \A d \in Consoles \ {c} : saving'[d] = saving[d]
      /\ UNCHANGED <<template, consoles, screen, loads, grantOps, grantMode>>
  BY <1>1 DEF MatrixStep, Solo, PagesOK, MatrixTypeOK
<1> HIDE DEF next
<1> QED  BY <1>1, <1>3, <1>4, ApplySolo

LEMMA CommitSolo ==
  ASSUME MatrixAssumptions, Solo, NEW c \in Consoles, MatrixCommit(c)
  PROVE  OneTab'
<1>1. Applying(c) /\ saving[c].stage = "commit"
  BY DEF MatrixCommit
<1> DEFINE end(fails) == [MatrixGoto(c, "next") EXCEPT
                            !.todo = IF fails THEN {} ELSE @ \ {saving[c].at},
                            !.at = Nil, !.seen = {}, !.doomed = {},
                            !.added = {}, !.copy = {}, !.failed = fails]
<1>2. PICK fails \in BOOLEAN :
        saving' = [d \in Consoles |->
                     IF d = c THEN end(fails)
                     ELSE IF InTx(d, saving[c].at)
                     THEN [saving[d] EXCEPT !.seen = @ \ saving[c].doomed,
                                            !.copy = @ \ saving[c].doomed]
                     ELSE saving[d]]
  BY DEF MatrixCommit
<1>3. \A d \in Consoles \ {c} : ~InTx(d, saving[c].at)
  BY <1>1, ApplyingSolo DEF Solo, OneTab, InTx, Applying, Idle
<1>4. end(fails) \in MatrixCall /\ end(fails).kind = "apply"
  BY <1>1, ApplyingSolo DEF MatrixGoto, MatrixCall
<1> HIDE DEF end
<1>5. saving'[c] = end(fails) /\ \A d \in Consoles \ {c} : saving'[d] = saving[d]
  BY <1>2, <1>3
<1>6. UNCHANGED <<template, consoles, screen, loads, grantOps, grantMode>>
  BY DEF MatrixCommit
<1> QED  BY <1>1, <1>4, <1>5, <1>6, ApplySolo

LEMMA FinishApplySolo ==
  ASSUME MatrixAssumptions, Solo, NEW c \in Consoles, FinishApply(c)
  PROVE  OneTab'
<1>1. /\ Applying(c) /\ saving[c].stage = "next"
      /\ UNCHANGED <<grants, template, consoles, grantOps, grantMode>>
  BY DEF FinishApply
<1>2. /\ c \in consoles /\ Follows(c) /\ loads[c] = <<>>
      /\ saving[c] \in MatrixCall /\ saving[c].kind = "apply" /\ screen[c] \in Screen
  BY <1>1, ApplyingSolo DEF Follows, LoadFollows
<1>3. CASE saving[c].failed
  <2>1. /\ screen' = [screen EXCEPT ![c].doubt = TRUE]
        /\ saving' = [saving EXCEPT ![c] = Nil] /\ UNCHANGED loads
    BY <1>3 DEF FinishApply
  <2>2. /\ screen'[c].doubt = TRUE /\ screen'[c].office = screen[c].office
        /\ saving'[c] = Nil
        /\ \A d \in Consoles \ {c} : Alike(d)
    BY <1>2, <2>1 DEF Screen, Alike, Solo, PagesOK, MatrixTypeOK
  <2>3. Follows(c)'
    BY <1>1, <1>2, <2>1, <2>2
       DEF Follows, OfficeFollows, LoadFollows, RestFollows, SaveFollows, Platform,
           Saving, Applying, Idle
  <2> QED  BY <1>1, <1>2, <2>2, <2>3, SoloStep
<1>4. CASE ~saving[c].failed
  <2> DEFINE next == MatrixGoto(c, "reload")
  <2>1. /\ Reload(c, screen[c].office, TRUE)
        /\ saving' = [saving EXCEPT ![c] = next] /\ UNCHANGED screen
    BY <1>4 DEF FinishApply
  <2>2. next \in MatrixCall /\ next.kind = "apply" /\ next.stage = "reload"
    BY <1>2 DEF MatrixGoto, MatrixCall
  <2> HIDE DEF next
  <2>3. saving'[c] = next /\ ~Idle(c)' /\ ~Saving(c)'
    BY <2>1, <2>2 DEF Saving, Idle, MatrixAssumptions, Solo, PagesOK, MatrixTypeOK
  <2>4. /\ screen[c].office \in GrantOffices \cup {Nil}
        /\ screen[c].office = Nil => Platform(c)
    BY <1>2 DEF Screen, Follows, OfficeFollows, MatrixAssumptions
  <2>5. screen'[c].office = screen[c].office
    BY <2>1
  <2>6. /\ \A d \in Consoles \ {c} : loads'[d] = loads[d]
        /\ Len(loads'[c]) = 1 /\ loads'[c] # <<>> /\ Fresh(c, loads[c][1])'
    BY <1>2, <2>1, <2>4, <2>5, AskSolo
  <2>7. \A d \in Consoles \ {c} : Alike(d)
    BY <2>1, <2>6 DEF Alike, Solo, PagesOK, MatrixTypeOK
  <2>8. Follows(c)'
    BY <1>2, <2>2, <2>3, <2>5, <2>6
       DEF Follows, OfficeFollows, LoadFollows, RestFollows, SaveFollows, Platform
  <2> QED  BY <1>1, <1>2, <2>7, <2>8, SoloStep
<1> QED  BY <1>2, <1>3, <1>4 DEF MatrixCall

----------------------------------------------------------------------------
AloneOK == grantMode \in {"alone", "lossy"} => OneTab

LEMMA AloneInit == ASSUME MatrixAssumptions, MatrixInit PROVE AloneOK
<1> SUFFICES ASSUME grantMode \in {"alone", "lossy"} PROVE OneTab
  BY DEF AloneOK
<1>1. PICK one : consoles = {one}
  <2>1. consoles \subseteq Consoles /\ Cardinality(consoles) = 1
    BY DEF MatrixInit
  <2>2. IsFiniteSet(consoles)
    BY <2>1, FS_Subset DEF MatrixAssumptions
  <2> QED  BY <2>1, <2>2, FS_Singleton
<1>2. \A c \in Consoles : FirstPick(c) \in GrantOffices \cup {Nil}
  BY DEF FirstPick, MatrixAssumptions
<1>3. ASSUME NEW c \in consoles PROVE Follows(c)
  <2>1. c \in Consoles
    BY DEF MatrixInit
  <2>2. loads[c] = <<MatrixSent(c, FirstPick(c), FALSE)>>
    BY <2>1 DEF MatrixInit
  <2> DEFINE load == MatrixSent(c, FirstPick(c), FALSE)
  <2>3. load \in MatrixLoad
    BY <1>2, <2>1 DEF MatrixSent, MatrixLoad
  <2>4. Len(loads[c]) = 1 /\ loads[c][1] = load /\ loads[c] # <<>>
    BY <2>2, <2>3, One
  <2>5. saving[c] = Nil /\ screen[c].office = FirstPick(c)
    BY <2>1 DEF MatrixInit
  <2>6. Fresh(c, load)
    BY <2>1, <2>5 DEF Fresh, MatrixSent, Idle, FirstPick, MatrixAssumptions
  <2> HIDE DEF load
  <2>7. OfficeFollows(c)
    BY <2>1, <2>5 DEF OfficeFollows, FirstPick, Platform, Chief, MatrixAssumptions
  <2> QED  BY <2>4, <2>5, <2>6, <2>7
              DEF Follows, LoadFollows, RestFollows, SaveFollows, Saving, Applying, Idle
<1>4. \A c \in Consoles \ consoles : saving[c] = Nil /\ loads[c] = <<>>
  BY DEF MatrixInit
<1> QED  BY <1>1, <1>3, <1>4 DEF OneTab

LEMMA AloneStep ==
  ASSUME MatrixAssumptions, PagesOK, AloneOK, [MatrixNext]_matrix
  PROVE  AloneOK'
<1> SUFFICES ASSUME grantMode' \in {"alone", "lossy"} PROVE OneTab'
  BY DEF AloneOK
<1>1. CASE UNCHANGED matrix
  <2>1. OneTab
    BY <1>1 DEF matrix, AloneOK
  <2> QED  BY <1>1, <2>1 DEF matrix, OneTab, Follows, OfficeFollows, LoadFollows, RestFollows,
         SaveFollows, SetSoFar, Fresh, ShowsAll, ShowsOffice, ShowsTemplate, Saving,
         Applying, Idle, Platform, Compared
<1>2. CASE MatrixNext
  <2>1. PICK c \in Consoles :
        \/ ReadGrants(c) \/ ReadDefaults(c) \/ FinishLoad(c) \/ LoseLoad(c)
        \/ MatrixPickTab(c) \/ PickOffice(c) \/ PickTarget(c)
        \/ BeginEdit(c) \/ CancelEdit(c) \/ Toggle(c) \/ Save(c)
        \/ ApplyTemplate(c)
        \/ SetGrant(c) \/ LoseGrant(c) \/ WaitForApply(c) \/ FindNothing(c)
        \/ FinishSave(c)
        \/ BeginReplace(c) \/ DeleteRows(c) \/ InsertRows(c) \/ MatrixCommit(c)
        \/ FinishApply(c)
    BY <1>2 DEF MatrixNext
  <2>2. UNCHANGED grantMode
    BY <2>1 DEF ReadGrants, ReadDefaults, FinishLoad, LoseLoad, EndLoad, MatrixPickTab,
         PickOffice, PickTarget, BeginEdit, CancelEdit, Toggle, Save, ApplyTemplate,
         MatrixUserActs, SetGrant, Answered, LoseGrant, WaitForApply, FindNothing,
         FinishSave, BeginReplace, DeleteRows, InsertRows, MatrixStep, MatrixCommit, FinishApply
  <2>3. Solo
    BY <2>2 DEF Solo, AloneOK
  <2>4. ~PickTarget(c)
    BY <2>3 DEF PickTarget, Solo
  <2> QED
    BY <2>1, <2>3, <2>4, NoneWaits, ReadGrantsSolo, ReadDefaultsSolo, FinishLoadSolo,
       LoseLoadSolo, PickTabSolo, PickOfficeSolo, BeginEditSolo, CancelEditSolo,
       ToggleSolo, SaveSolo, ApplyTemplateSolo, SetGrantSolo, LoseGrantSolo,
       FinishSaveSolo, BeginReplaceSolo, DeleteRowsSolo, InsertRowsSolo,
       CommitSolo, FinishApplySolo
<1> QED  BY <1>1, <1>2

\* What a settled permission page shows is what the server has, after every
\* sequence of one user's picks, edits, saves, applies and reloads, any of which
\* may fail (reload, updateRbac, applyOne and applyAll of admin/rbac/page.tsx).
THEOREM MatrixShowsServer == ASSUME MatrixAssumptions PROVE MatrixSpec => []MatrixScreenTrue
<1>1. PagesOK /\ AloneOK => MatrixScreenTrue
  BY DEF AloneOK, OneTab, Follows, RestFollows, ShowsAll, MatrixScreenTrue, MatrixSettled
<1>2. MatrixInit => AloneOK
  BY AloneInit
<1>3. PagesOK /\ AloneOK /\ [MatrixNext]_matrix => AloneOK'
  BY AloneStep
<1> QED  BY <1>1, <1>2, <1>3, GrantsHold, PTL DEF MatrixSpec

----------------------------------------------------------------------------
(***************************************************************************)
(* The lists, for any number of rows and any size of a page.               *)
(***************************************************************************)

(* The rows of a page *)

LEMMA Least ==
  ASSUME NEW N, N \subseteq Nat, N # {}
  PROVE  \E m \in N : \A n \in N : m <= n
<1>1. PICK m \in N : \A n \in N : <<n, m>> \notin OpToRel(<, Nat)
  BY NatLessThanWellFounded, WFMin
<1>2. \A n \in N : ~(n < m)
  BY <1>1 DEF OpToRel
<1> QED  BY <1>2

LEMMA FoundFinite ==
  ASSUME ListAssumptions, ListTypeOK, NEW f
  PROVE  /\ Found(f) \subseteq Ids /\ IsFiniteSet(Found(f))
         /\ Cardinality(Found(f)) \in 0 .. MaxRows
<1>1. /\ listRows \in Seq(Rows(list)) /\ Len(listRows) <= MaxRows /\ MaxRows \in Nat
  BY DEF ListTypeOK, ListAssumptions
<1>2. DOMAIN listRows = 1 .. Len(listRows) /\ Len(listRows) \in Nat
  BY <1>1
<1>3. Found(f) \subseteq 1 .. MaxRows
  BY <1>1, <1>2 DEF Found
<1>4. IsFiniteSet(1 .. MaxRows) /\ Cardinality(1 .. MaxRows) = MaxRows
  BY <1>1, FS_Interval
<1>5. /\ IsFiniteSet(Found(f)) /\ Cardinality(Found(f)) <= Cardinality(1 .. MaxRows)
  BY <1>3, <1>4, FS_Subset
<1>6. Cardinality(Found(f)) \in Nat
  BY <1>5, FS_CardinalityType
<1> QED  BY <1>1, <1>3, <1>4, <1>5, <1>6 DEF Ids

\* The rows are in an order: no two have as many before them.
LEMMA NewerOrders ==
  ASSUME NEW found, found \subseteq Nat, IsFiniteSet(found)
  PROVE  /\ \A i \in found : Newer(found, i) \in Nat
         /\ \A i, j \in found : i < j => Newer(found, j) < Newer(found, i)
<1>1. \A i \in found : /\ {k \in found : k > i} \subseteq found
                       /\ IsFiniteSet({k \in found : k > i})
  BY FS_Subset
<1>2. \A i \in found : Newer(found, i) \in Nat
  BY <1>1, FS_CardinalityType DEF Newer
<1>3. ASSUME NEW i \in found, NEW j \in found, i < j
      PROVE  Newer(found, j) < Newer(found, i)
  <2> DEFINE later == {k \in found : k > j}
             rest  == {k \in found : k > i}
  <2>1. i \in Nat /\ j \in Nat /\ \A k \in found : k \in Nat /\ (k > j => k > i)
    BY <1>3
  <2>2. later \subseteq rest /\ j \in rest /\ j \notin later
    <3>1. j > i /\ ~(j > j)
      BY <1>3, <2>1
    <3> QED  BY <2>1, <3>1
  <2>3. IsFiniteSet(rest)
    BY <1>1
  <2>4. /\ Cardinality(later) <= Cardinality(rest)
        /\ Cardinality(later) # Cardinality(rest)
    BY <2>2, <2>3, FS_Subset
  <2>5. Newer(found, j) = Cardinality(later) /\ Newer(found, i) = Cardinality(rest)
    BY DEF Newer
  <2> QED  BY <1>2, <2>4, <2>5
<1> QED  BY <1>2, <1>3

\* A set whose rows have each less than k before them has at most k rows.
LEMMA FewRows ==
  ASSUME NEW found, found \subseteq Nat, IsFiniteSet(found), NEW k \in Nat,
         NEW some \in SUBSET found, \A i \in some : Newer(found, i) < k
  PROVE  Cardinality(some) <= k
<1> DEFINE rank == [i \in some |-> Newer(found, i)]
<1>1. /\ \A i \in found : Newer(found, i) \in Nat
      /\ \A i, j \in found : i < j => Newer(found, j) < Newer(found, i)
  BY NewerOrders
<1>2. rank \in [some -> 0 .. k - 1]
  BY <1>1
<1>3. \A i, j \in some : i # j => rank[i] # rank[j]
  <2> SUFFICES ASSUME NEW i \in some, NEW j \in some, i # j PROVE rank[i] # rank[j]
    OBVIOUS
  <2>1. i < j \/ j < i
    OBVIOUS
  <2> QED  BY <1>1, <2>1
<1>4. /\ IsFiniteSet(0 .. k - 1) /\ Cardinality(0 .. k - 1) = k
  BY FS_Interval
<1>5. IsFiniteSet(some) /\ Cardinality(some) \in Nat
  BY FS_Subset, FS_CardinalityType
<1> HIDE DEF rank
<1>6. ~(Cardinality(0 .. k - 1) < Cardinality(some))
  BY <1>2, <1>3, <1>4, <1>5, FS_PigeonHole
<1> QED  BY <1>4, <1>5, <1>6

\* Each place of the list is taken.
LEMMA PlaceTaken ==
  ASSUME NEW found, found \subseteq Nat, IsFiniteSet(found), NEW k \in Nat,
         k < Cardinality(found)
  PROVE  \E i \in found : Newer(found, i) = k
<1>1. /\ \A i \in found : Newer(found, i) \in Nat
      /\ \A i, j \in found : i < j => Newer(found, j) < Newer(found, i)
  BY NewerOrders
<1>2. Cardinality(found) \in Nat
  BY FS_CardinalityType
<1> DEFINE behind == {i \in found : k <= Newer(found, i)}
           ranks == {Newer(found, i) : i \in behind}
<1>3. PICK i \in found : k <= Newer(found, i)
  <2>1. CASE \A i \in found : Newer(found, i) < k
    <3>1. Cardinality(found) <= k
      BY <2>1, FewRows
    <3> QED  BY <1>2, <3>1
  <2> QED  BY <1>1, <2>1
<1>4. ranks # {} /\ ranks \subseteq Nat
  BY <1>1, <1>3
<1>5. PICK m \in behind : \A j \in behind : Newer(found, m) <= Newer(found, j)
  <2>1. PICK n \in ranks : \A r \in ranks : n <= r
    BY <1>4, Least
  <2> QED  BY <2>1
<1> DEFINE ahead == {j \in found : j > m}
<1>6. \A j \in ahead : Newer(found, j) < k
  BY <1>1, <1>5
<1>7. Cardinality(ahead) <= k
  BY <1>6, FewRows
<1>8. Newer(found, m) <= k
  BY <1>7 DEF Newer
<1> QED  BY <1>1, <1>5, <1>8

\* A page that begins within the list is not empty.
LEMMA PageNotEmpty ==
  ASSUME ListAssumptions, NEW found, found \subseteq Nat, IsFiniteSet(found),
         NEW page \in Nat \ {0}, page * PageSize < Cardinality(found)
  PROVE  PageOf(found, page) # {}
<1> DEFINE k == (page - 1) * PageSize
<1>1. PageSize \in Nat \ {0} /\ Cardinality(found) \in Nat
  BY FS_CardinalityType DEF ListAssumptions
<1>2. k \in Nat /\ page * PageSize = k + PageSize
  BY <1>1
<1> HIDE DEF k
<1>3. k < Cardinality(found) /\ k < page * PageSize
  BY <1>1, <1>2
<1>4. PICK i \in found : Newer(found, i) = k
  BY <1>2, <1>3, PlaceTaken
<1>5. i \in PageOf(found, page)
  BY <1>2, <1>3, <1>4 DEF PageOf, k
<1> QED  BY <1>5

\* Math.ceil: there is a next page if this one does not reach the end.
LEMMA PagesCounted ==
  ASSUME ListAssumptions, NEW total \in Nat, NEW page \in Nat \ {0}
  PROVE  page < TotalPages(total) <=> page * PageSize < total
<1>1. PageSize \in Nat \ {0}
  BY DEF ListAssumptions
<1>2. CASE total = 0
  BY <1>1, <1>2 DEF TotalPages
<1>3. CASE total # 0
  <2> DEFINE n == total + PageSize - 1
             q == n \div PageSize
  <2>1. n \in Nat /\ TotalPages(total) = q
    BY <1>1, <1>3 DEF TotalPages
  <2>2. q \in Int /\ PageSize * q <= n /\ n < PageSize * q + PageSize
    BY <1>1, <2>1
  <2> HIDE DEF q
  <2>3. CASE page < q
    <3>1. PageSize * (page + 1) <= PageSize * q
      BY <1>1, <2>2, <2>3
    <3>2. PageSize * (page + 1) = page * PageSize + PageSize
      BY <1>1
    <3> QED  BY <1>1, <2>1, <2>2, <2>3, <3>1, <3>2
  <2>4. CASE ~(page < q)
    <3>1. PageSize * q <= PageSize * page
      BY <1>1, <2>2, <2>4
    <3>2. PageSize * page = page * PageSize
      BY <1>1
    <3> QED  BY <1>1, <2>1, <2>2, <2>4, <3>1, <3>2
  <2> QED  BY <2>3, <2>4
<1> QED  BY <1>2, <1>3

----------------------------------------------------------------------------
\* What a request was told of the rows is true, unless they changed since.
Told(c, found) ==
  c.total # Nil /\ ~c.torn =>
    /\ c.total = Cardinality(found)
    /\ c.data # Nil => c.data = PageOf(found, c.query.page)

CallsTold ==
  \A i \in DOMAIN listCalls : Told(listCalls[i], Found(listCalls[i].query))

\* The latest request has asked for what the filters are, or another is due.
LatestAsks ==
  ~due =>
    /\ sent > 0
    /\ \A i \in DOMAIN listCalls :
         listCalls[i].nr = sent => listCalls[i].query = filters

\* The answer to the latest request is the one for the filters.
LatestShown ==
  LET result == listScreen.result IN
  /\ listScreen.last > 0 => result # Nil
  /\ ~due /\ listScreen.last = sent /\ result # Nil /\ ~result.torn =>
       /\ result.total = Cardinality(Found(filters))
       /\ result.data = PageOf(Found(filters), filters.page)

ListInv == ListTypeOK /\ CallsTold /\ LatestAsks /\ LatestShown

LEMMA SameRows ==
  ASSUME UNCHANGED <<list, listRows>>
  PROVE  \A f : Found(f)' = Found(f)
BY DEF Found, Matches, OrganizationMatches, AdminMatches, OfficeMatches, SectionMatches

\* a request that is sent, and one that is counted
LEMMA CallCases ==
  ASSUME ListAssumptions, NEW c \in ListCall
  PROVE  \/ c.total = Nil /\ c = [nr |-> c.nr, query |-> c.query, total |-> Nil]
            /\ c.nr \in Nat /\ c.query \in Filters
         \/ /\ c.total # Nil
            /\ c \in [nr : Nat, query : Filters, torn : BOOLEAN, total : 0 .. MaxRows,
                      data : {Nil} \cup SUBSET Ids]
BY DEF ListCall, ListAssumptions

----------------------------------------------------------------------------
(* The requests *)

LEMMA SendStep ==
  ASSUME ListAssumptions, ListInv, Send, due' \in BOOLEAN,
         UNCHANGED <<list, listRows, filters, listMode>>,
         listDone' \in 0 .. ListMaxOps[listMode]
  PROVE  ListInv'
<1> DEFINE new == [nr |-> sent + 1, query |-> filters, total |-> Nil]
<1>1. ListTypeOK
  BY DEF ListInv
<1>2. new \in ListCall /\ new.nr = sent + 1 /\ new.query = filters /\ new.total = Nil
  BY <1>1 DEF ListTypeOK, ListCall
<1>3. /\ listCalls \in Seq(ListCall) /\ listCalls' = Append(listCalls, new)
      /\ sent' = sent + 1 /\ sent \in Nat
  BY <1>1 DEF Send, ListTypeOK
<1>4. listScreen' \in [result : {Nil} \cup ListAnswer, loading : BOOLEAN,
                       error : BOOLEAN, last : Nat]
      /\ listScreen'.last = listScreen.last /\ listScreen'.result = listScreen.result
  BY <1>1 DEF Send, ListTypeOK
<1> HIDE DEF new
<1>5. /\ listCalls' \in Seq(ListCall)
      /\ \A j \in DOMAIN listCalls' :
           \/ j \in DOMAIN listCalls /\ listCalls'[j] = listCalls[j]
           \/ listCalls'[j] = new
  BY <1>2, <1>3, Appended
<1>6. \A j \in DOMAIN listCalls : listCalls[j].nr \in 1 .. sent
  BY <1>1 DEF ListTypeOK
<1>7. \A j \in DOMAIN listCalls' : listCalls'[j].nr \in 1 .. sent'
  BY <1>2, <1>3, <1>5, <1>6
<1>8. ListTypeOK'
  <2>1. /\ list' \in ShownLists /\ listRows' \in Seq(Rows(list)') /\ Len(listRows') <= MaxRows
        /\ filters' \in Filters /\ listMode' \in PageModes
    BY <1>1 DEF ListTypeOK, Rows
  <2>2. sent' \in Nat /\ listScreen'.last <= sent'
    BY <1>1, <1>3, <1>4 DEF ListTypeOK
  <2> QED  BY <1>4, <1>5, <1>7, <2>1, <2>2 DEF ListTypeOK
<1>9. CallsTold'
  BY <1>2, <1>5, SameRows DEF ListInv, CallsTold, Told
<1>10. LatestAsks'
  <2>1. \A j \in DOMAIN listCalls' : listCalls'[j].nr = sent' => listCalls'[j].query = filters
    BY <1>2, <1>3, <1>5, <1>6
  <2> QED  BY <1>3, <2>1 DEF LatestAsks
<1>11. LatestShown'
  <2>1. listScreen'.last # sent'
    BY <1>1, <1>3, <1>4 DEF ListTypeOK
  <2> QED  BY <1>4, <2>1 DEF ListInv, LatestShown
<1> QED  BY <1>8, <1>9, <1>10, <1>11 DEF ListInv

\* A request stays the same request when it is counted or read.
LEMMA ServedStep ==
  ASSUME ListAssumptions, ListInv, NEW i \in DOMAIN listCalls, NEW new \in ListCall,
         new.nr = listCalls[i].nr, new.query = listCalls[i].query,
         Told(new, Found(new.query)), listCalls' = [listCalls EXCEPT ![i] = new],
         UNCHANGED <<list, listRows, filters, due, listScreen, sent, listDone, listMode>>
  PROVE  ListInv'
<1>1. ListTypeOK
  BY DEF ListInv
<1>2. listCalls \in Seq(ListCall)
  BY <1>1 DEF ListTypeOK
<1>3. /\ listCalls' \in Seq(ListCall) /\ DOMAIN listCalls' = DOMAIN listCalls
      /\ \A j \in DOMAIN listCalls : listCalls'[j] = IF j = i THEN new ELSE listCalls[j]
  BY <1>2
<1>4. ListTypeOK'
  BY <1>1, <1>3 DEF ListTypeOK, Rows
<1>5. CallsTold'
  BY <1>3, SameRows DEF ListInv, CallsTold
<1>6. LatestAsks'
  BY <1>3 DEF ListInv, LatestAsks
<1>7. LatestShown'
  BY SameRows DEF ListInv, LatestShown
<1> QED  BY <1>4, <1>5, <1>6, <1>7 DEF ListInv

LEMMA CountStep ==
  ASSUME ListAssumptions, ListInv, CountRows
  PROVE  ListInv'
<1>1. PICK i \in DOMAIN listCalls :
        /\ listCalls[i].total = Nil
        /\ listCalls' = [listCalls EXCEPT ![i] =
                            [nr |-> @.nr, query |-> @.query, torn |-> FALSE,
                             total |-> Cardinality(Found(@.query)), data |-> Nil]]
        /\ UNCHANGED <<list, listRows, filters, due, listScreen, sent, listDone, listMode>>
  BY DEF CountRows
<1>2. ListTypeOK /\ listCalls[i] \in ListCall
  BY DEF ListInv, ListTypeOK
<1> DEFINE c == listCalls[i]
           new == [nr |-> c.nr, query |-> c.query, torn |-> FALSE,
                   total |-> Cardinality(Found(c.query)), data |-> Nil]
<1>3. c.nr \in Nat /\ c.query \in Filters
  BY <1>2 DEF ListCall
<1>4. Cardinality(Found(c.query)) \in 0 .. MaxRows
  BY <1>2, FoundFinite
<1>5. new \in ListCall
  BY <1>3, <1>4 DEF ListCall
<1>6. new.nr = c.nr /\ new.query = c.query /\ Told(new, Found(new.query))
  BY DEF Told
<1>7. listCalls' = [listCalls EXCEPT ![i] = new]
  BY <1>1
<1> HIDE DEF new
<1> QED  BY <1>1, <1>5, <1>6, <1>7, ServedStep

LEMMA ReadStep ==
  ASSUME ListAssumptions, ListInv, ReadRows
  PROVE  ListInv'
<1>1. PICK i \in DOMAIN listCalls :
        /\ listCalls[i].total # Nil /\ listCalls[i].data = Nil
        /\ listCalls' = [listCalls EXCEPT ![i].data =
                            PageOf(Found(listCalls[i].query), listCalls[i].query.page)]
        /\ UNCHANGED <<list, listRows, filters, due, listScreen, sent, listDone, listMode>>
  BY DEF ReadRows
<1>2. ListTypeOK /\ listCalls[i] \in ListCall /\ listCalls \in Seq(ListCall)
  BY DEF ListInv, ListTypeOK
<1> DEFINE c == listCalls[i]
           rows == PageOf(Found(c.query), c.query.page)
           new == [c EXCEPT !.data = rows]
<1>3. c \in [nr : Nat, query : Filters, torn : BOOLEAN, total : 0 .. MaxRows,
             data : {Nil} \cup SUBSET Ids]
  BY <1>1, <1>2, CallCases
<1>4. rows \in SUBSET Ids
  BY <1>2, FoundFinite DEF PageOf
<1>5. listCalls' = [listCalls EXCEPT ![i] = new]
  BY <1>1, <1>2
<1>6. Told(c, Found(c.query))
  BY DEF ListInv, CallsTold
<1> HIDE DEF rows, c
<1>7. new \in ListCall /\ new.nr = c.nr /\ new.query = c.query /\ new.total = c.total
      /\ new.torn = c.torn /\ new.data = rows
  BY <1>3, <1>4 DEF ListCall
<1>8. Told(new, Found(new.query))
  BY <1>6, <1>7 DEF Told, rows
<1> HIDE DEF new
<1> QED  BY <1>1, <1>5, <1>7, <1>8, ServedStep DEF c

\* A request is no longer in flight.
LEMMA GoneStep ==
  ASSUME ListAssumptions, ListInv, NEW i \in DOMAIN listCalls,
         listCalls' = RemoveAt(listCalls, i), LatestShown', listScreen'.last <= sent,
         listScreen' \in [result : {Nil} \cup ListAnswer, loading : BOOLEAN,
                          error : BOOLEAN, last : Nat],
         UNCHANGED <<list, listRows, filters, due, sent, listDone, listMode>>
  PROVE  ListInv'
<1>1. ListTypeOK /\ listCalls \in Seq(ListCall)
  BY DEF ListInv, ListTypeOK
<1>2. /\ listCalls' \in Seq(ListCall)
      /\ \A j \in DOMAIN listCalls' :
           \E k \in DOMAIN listCalls : listCalls'[j] = listCalls[k]
  BY <1>1, RemovedAt
<1>3. ListTypeOK'
  BY <1>1, <1>2 DEF ListTypeOK, Rows
<1>4. CallsTold'
  BY <1>2, SameRows DEF ListInv, CallsTold
<1>5. LatestAsks'
  BY <1>2 DEF ListInv, LatestAsks
<1> QED  BY <1>3, <1>4, <1>5 DEF ListInv

LEMMA ReceiveStep ==
  ASSUME ListAssumptions, ListInv, Receive
  PROVE  ListInv'
<1>1. PICK i \in DOMAIN listCalls :
        /\ listCalls[i].total # Nil /\ listCalls[i].data # Nil
        /\ listScreen' = [listScreen EXCEPT
               !.result = [total |-> listCalls[i].total, data |-> listCalls[i].data,
                           torn |-> listCalls[i].torn],
               !.loading = FALSE, !.last = listCalls[i].nr]
        /\ listCalls' = RemoveAt(listCalls, i)
        /\ UNCHANGED <<list, listRows, filters, due, sent, listDone, listMode>>
  BY DEF Receive
<1> DEFINE c == listCalls[i]
           result == [total |-> c.total, data |-> c.data, torn |-> c.torn]
<1>2. ListTypeOK /\ c \in ListCall /\ c.nr \in 1 .. sent /\ sent \in Nat
  BY DEF ListInv, ListTypeOK
<1>3. c \in [nr : Nat, query : Filters, torn : BOOLEAN, total : 0 .. MaxRows,
             data : {Nil} \cup SUBSET Ids]
  BY <1>1, <1>2, CallCases
<1>4. result \in ListAnswer /\ result # Nil
  BY <1>1, <1>3 DEF ListAnswer, ListAssumptions
<1>5. /\ listScreen' \in [result : {Nil} \cup ListAnswer, loading : BOOLEAN,
                          error : BOOLEAN, last : Nat]
      /\ listScreen'.result = result /\ listScreen'.last = c.nr /\ listScreen'.last <= sent
  <2>1. listScreen' = [listScreen EXCEPT !.result = result, !.loading = FALSE, !.last = c.nr]
    BY <1>1
  <2>2. listScreen \in [result : {Nil} \cup ListAnswer, loading : BOOLEAN,
                        error : BOOLEAN, last : Nat]
    BY <1>2 DEF ListTypeOK
  <2>3. c.nr \in Nat /\ c.nr <= sent
    BY <1>2
  <2> HIDE DEF result, c
  <2> QED  BY <1>4, <2>1, <2>2, <2>3
<1>6. Told(c, Found(c.query)) /\ (~due /\ c.nr = sent => c.query = filters)
  BY DEF ListInv, CallsTold, LatestAsks
<1>7. LatestShown'
  <2>1. result.total = c.total /\ result.data = c.data /\ result.torn = c.torn
    OBVIOUS
  <2>2. filters' = filters /\ Found(filters)' = Found(filters) /\ due' = due /\ sent' = sent
    BY <1>1, SameRows DEF Found, Matches, OrganizationMatches, AdminMatches, OfficeMatches,
       SectionMatches
  <2> HIDE DEF result, c
  <2> SUFFICES ASSUME ~due, c.nr = sent, ~result.torn
               PROVE  /\ result.total = Cardinality(Found(filters))
                      /\ result.data = PageOf(Found(filters), filters.page)
    BY <1>4, <1>5, <2>2 DEF LatestShown
  <2>3. c.total # Nil /\ c.data # Nil
    BY <1>1 DEF c
  <2> QED  BY <1>6, <2>1, <2>3 DEF Told
<1> HIDE DEF result, c
<1> QED  BY <1>1, <1>5, <1>7, GoneStep

LEMMA FailStep ==
  ASSUME ListAssumptions, ListInv, Fail
  PROVE  ListInv'
<1>1. PICK i \in DOMAIN listCalls :
        /\ listScreen' = [listScreen EXCEPT !.loading = FALSE, !.error = TRUE]
        /\ listCalls' = RemoveAt(listCalls, i)
        /\ UNCHANGED <<list, listRows, filters, due, sent, listDone, listMode>>
  BY DEF Fail
<1>2. /\ listScreen' \in [result : {Nil} \cup ListAnswer, loading : BOOLEAN,
                          error : BOOLEAN, last : Nat]
      /\ listScreen'.last = listScreen.last /\ listScreen'.result = listScreen.result
      /\ listScreen'.last <= sent
  BY <1>1 DEF ListInv, ListTypeOK
<1>3. LatestShown'
  BY <1>1, <1>2, SameRows DEF ListInv, LatestShown
<1> QED  BY <1>1, <1>2, <1>3, GoneStep

----------------------------------------------------------------------------
(* What users do *)

\* The user changes the filters.
LEMMA UserStep ==
  ASSUME ListAssumptions, ListInv, ListUserActs, filters' \in Filters, due' \in BOOLEAN,
         ~due' => ~due /\ filters' = filters
  PROVE  ListInv'
<1>1. /\ UNCHANGED <<list, listRows, listCalls, sent, listScreen, listMode>>
      /\ listDone' \in 0 .. ListMaxOps[listMode]
  BY DEF ListUserActs, ListInv, ListTypeOK, ListAssumptions
<1>2. ListTypeOK'
  BY <1>1 DEF ListInv, ListTypeOK, Rows
<1>3. CallsTold'
  BY <1>1, SameRows DEF ListInv, CallsTold
<1>4. LatestAsks'
  BY <1>1 DEF ListInv, LatestAsks
<1>5. LatestShown'
  BY <1>1, SameRows DEF ListInv, LatestShown
<1> QED  BY <1>2, <1>3, <1>4, <1>5 DEF ListInv

LEMMA RefilterStep ==
  ASSUME ListAssumptions, ListInv, ListUserActs, NEW f \in Filters, Refilter(f)
  PROVE  ListInv'
<1>1. filters' = [f EXCEPT !.page = 1] /\ due' = (due \/ filters' # filters)
  BY DEF Refilter, FirstPage
<1>2. filters' \in Filters
  BY <1>1 DEF Filters, ListAssumptions
<1>3. due \in BOOLEAN
  BY DEF ListInv, ListTypeOK
<1>4. due' \in BOOLEAN /\ (~due' => ~due /\ filters' = filters)
  BY <1>1, <1>3
<1> QED  BY <1>2, <1>4, UserStep

\* the options of the selectors are those of some list
LEMMA Options ==
  ASSUME ListInv
  PROVE  /\ filters \in Filters
         /\ \A s \in {Nil} \cup Statuses(list) : [filters EXCEPT !.status = s] \in Filters
         /\ \A k \in {Nil} \cup ListKinds(list) : [filters EXCEPT !.kind = k] \in Filters
         /\ \A b \in BOOLEAN : [filters EXCEPT !.search = b] \in Filters
         /\ [filters EXCEPT !.archived = ~@] \in Filters
<1>1. filters \in Filters /\ list \in ShownLists
  BY DEF ListInv, ListTypeOK
<1> DEFINE All == UNION {Statuses(l) : l \in ShownLists}
           Sorts == UNION {ListKinds(l) : l \in ShownLists}
<1>2. Statuses(list) \subseteq All /\ ListKinds(list) \subseteq Sorts
  BY <1>1
<1>3. Filters = [search : BOOLEAN, status : {Nil} \cup All, kind : {Nil} \cup Sorts,
                 archived : BOOLEAN, page : 1 .. (MaxRows + 1)]
  BY DEF Filters
<1> HIDE DEF All, Sorts
<1> QED  BY <1>1, <1>2, <1>3

LEMMA TurnStep ==
  ASSUME ListAssumptions, ListInv, ListUserActs, NEW by \in {-1, 1}, Turn(by),
         filters.page + by \in 1 .. MaxRows + 1
  PROVE  ListInv'
<1>1. filters' = [filters EXCEPT !.page = filters.page + by] /\ due' = TRUE
  BY DEF Turn
<1>2. filters' \in Filters
  BY <1>1 DEF ListInv, ListTypeOK, Filters
<1> QED  BY <1>1, <1>2, UserStep

LEMMA ChangeStep ==
  ASSUME ListAssumptions, ListInv, OthersChange
  PROVE  ListInv'
<1>1. ListTypeOK
  BY DEF ListInv
<1>2. /\ listCalls' = [i \in DOMAIN listCalls |-> Touched(listCalls[i])]
      /\ listScreen' = IF listScreen.result = Nil THEN listScreen
                       ELSE [listScreen EXCEPT !.result.torn = TRUE]
      /\ UNCHANGED <<list, filters, due, sent, listMode>>
      /\ listDone' \in 0 .. ListMaxOps[listMode]
  BY <1>1 DEF OthersChange, ListTypeOK, ListAssumptions
<1>3. listRows' \in Seq(Rows(list)) /\ Len(listRows') <= MaxRows
  <2>1. /\ listRows \in Seq(Rows(list)) /\ Len(listRows) <= MaxRows /\ MaxRows \in Nat
        /\ list \in ShownLists
    BY <1>1 DEF ListTypeOK, ListAssumptions
  <2>2. CASE Len(listRows) < MaxRows /\ \E row \in Rows(list) : listRows' = Append(listRows, row)
    <3>1. PICK row \in Rows(list) : listRows' = Append(listRows, row)
      BY <2>2
    <3> QED  BY <2>1, <2>2, <3>1
  <2>3. CASE \E i \in DOMAIN listRows : \E s \in Statuses(list) \ {listRows[i].status} :
               listRows' = [listRows EXCEPT ![i].status = s]
    <3>1. PICK i \in DOMAIN listRows, s \in Statuses(list) :
            listRows' = [listRows EXCEPT ![i].status = s]
      BY <2>3
    <3> DEFINE new == [listRows[i] EXCEPT !.status = s]
    <3>2. listRows[i] \in Rows(list)
      BY <2>1
    <3>3. new \in Rows(list)
      <4>1. s \in UNION {Statuses(l) : l \in ShownLists}
        BY <2>1
      <4>2. listRows[i] \in Row
        BY <3>2 DEF Rows
      <4>3. new \in Row /\ new.status = s /\ new.kind = listRows[i].kind
        BY <4>1, <4>2 DEF Row
      <4> QED  BY <3>2, <4>3 DEF Rows
    <3>4. listRows' = [listRows EXCEPT ![i] = new]
      BY <3>1
    <3> HIDE DEF new
    <3> QED  BY <2>1, <3>3, <3>4
  <2> QED  BY <2>2, <2>3 DEF OthersChange
<1>4. listCalls \in Seq(ListCall)
  BY <1>1 DEF ListTypeOK
<1>5. \A i \in DOMAIN listCalls :
        /\ Touched(listCalls[i]) \in ListCall
        /\ Touched(listCalls[i]).nr = listCalls[i].nr
        /\ Touched(listCalls[i]).query = listCalls[i].query
        /\ \A found : Told(Touched(listCalls[i]), found)
  <2> TAKE i \in DOMAIN listCalls
  <2>1. listCalls[i] \in ListCall
    BY <1>4
  <2>2. CASE listCalls[i].total = Nil
    BY <2>1, <2>2 DEF Touched, Told
  <2>3. CASE listCalls[i].total # Nil
    <3>1. listCalls[i] \in [nr : Nat, query : Filters, torn : BOOLEAN, total : 0 .. MaxRows,
                            data : {Nil} \cup SUBSET Ids]
      BY <2>1, <2>3, CallCases
    <3>2. Touched(listCalls[i]) = [listCalls[i] EXCEPT !.torn = TRUE]
      BY <2>3 DEF Touched
    <3> QED  BY <3>1, <3>2 DEF ListCall, Told
  <2> QED  BY <2>2, <2>3
<1>6. /\ listCalls' \in Seq(ListCall) /\ DOMAIN listCalls' = DOMAIN listCalls
      /\ \A i \in DOMAIN listCalls : listCalls'[i] = Touched(listCalls[i])
  <2>1. DOMAIN listCalls = 1 .. Len(listCalls) /\ Len(listCalls) \in Nat
    BY <1>4
  <2>2. listCalls' \in [1 .. Len(listCalls) -> ListCall]
    BY <1>2, <1>5, <2>1
  <2> QED  BY <1>2, <2>1, <2>2
<1>7. /\ listScreen' \in [result : {Nil} \cup ListAnswer, loading : BOOLEAN,
                          error : BOOLEAN, last : Nat]
      /\ listScreen'.last = listScreen.last
      /\ listScreen.result # Nil => listScreen'.result # Nil /\ listScreen'.result.torn
      /\ listScreen.result = Nil => listScreen'.result = Nil
  <2>1. listScreen \in [result : {Nil} \cup ListAnswer, loading : BOOLEAN,
                        error : BOOLEAN, last : Nat]
    BY <1>1 DEF ListTypeOK
  <2>2. CASE listScreen.result = Nil
    BY <1>2, <2>1, <2>2
  <2>3. CASE listScreen.result # Nil
    <3> DEFINE new == [listScreen.result EXCEPT !.torn = TRUE]
    <3>1. listScreen.result \in ListAnswer
      BY <2>1, <2>3
    <3>2. new \in ListAnswer /\ new.torn
      BY <3>1 DEF ListAnswer
    <3>3. listScreen' = [listScreen EXCEPT !.result = new]
      BY <1>2, <2>3
    <3>4. new # Nil
      BY <3>2 DEF ListAssumptions
    <3> HIDE DEF new
    <3> QED  BY <2>1, <2>3, <3>2, <3>3, <3>4
  <2> QED  BY <2>2, <2>3
<1>8. ListTypeOK'
  <2>1. listRows' \in Seq(Rows(list)') /\ Len(listRows') <= MaxRows
    BY <1>2, <1>3 DEF Rows
  <2>2. \A i \in DOMAIN listCalls' : listCalls'[i].nr \in 1 .. sent'
    BY <1>1, <1>2, <1>5, <1>6 DEF ListTypeOK
  <2> QED  BY <1>1, <1>2, <1>6, <1>7, <2>1, <2>2 DEF ListTypeOK
<1>9. CallsTold'
  <2> SUFFICES ASSUME NEW i \in DOMAIN listCalls', NEW found
               PROVE  Told(listCalls'[i], found)
    BY DEF CallsTold
  <2> QED  BY <1>5, <1>6
<1>10. LatestAsks'
  BY <1>2, <1>5, <1>6 DEF ListInv, LatestAsks
<1>11. LatestShown'
  BY <1>2, <1>7 DEF ListInv, LatestShown
<1> QED  BY <1>8, <1>9, <1>10, <1>11 DEF ListInv

----------------------------------------------------------------------------
LEMMA ListStart == ASSUME ListAssumptions, ListInit PROVE ListInv
<1>1. ListTypeOK
  <2>1. listRows \in Seq(Rows(list)) /\ Len(listRows) <= MaxRows
    <3>1. PICK n \in 0 .. MaxRows : listRows \in [1 .. n -> Rows(list)]
      BY DEF ListInit
    <3> QED  BY <3>1 DEF ListAssumptions
  <2>2. filters \in Filters
    BY DEF ListInit, NoFilter, Filters, ListAssumptions
  <2>3. listScreen \in [result : {Nil} \cup ListAnswer, loading : BOOLEAN,
                        error : BOOLEAN, last : Nat]
        /\ listScreen.last = 0
    BY DEF ListInit
  <2>4. listCalls \in Seq(ListCall) /\ DOMAIN listCalls = {}
    BY DEF ListInit
  <2> QED  BY <2>1, <2>2, <2>3, <2>4 DEF ListInit, ListTypeOK, ListAssumptions
<1>2. DOMAIN listCalls = {} /\ due /\ listScreen.last = 0
  BY DEF ListInit
<1> QED  BY <1>1, <1>2 DEF ListInv, CallsTold, LatestAsks, LatestShown

LEMMA ListStep == ASSUME ListAssumptions, ListInv, [ListNext]_lists PROVE ListInv'
<1>1. CASE ListLoad
  BY <1>1, SendStep DEF ListLoad, ListInv, ListTypeOK
<1>2. CASE ListRetry
  <2>1. due' \in BOOLEAN /\ listDone' \in 0 .. ListMaxOps[listMode]
    BY <1>2 DEF ListRetry, ListInv, ListTypeOK, ListAssumptions
  <2> QED  BY <1>2, <2>1, SendStep DEF ListRetry
<1>3. CASE Search
  <2>1. PICK text \in BOOLEAN : Refilter([filters EXCEPT !.search = text])
    BY <1>3 DEF Search
  <2> QED  BY <1>3, <2>1, Options, RefilterStep DEF Search
<1>4. CASE PickStatus
  <2>1. PICK s \in {Nil} \cup Statuses(list) : Refilter([filters EXCEPT !.status = s])
    BY <1>4 DEF PickStatus
  <2> QED  BY <1>4, <2>1, Options, RefilterStep DEF PickStatus
<1>5. CASE PickKind
  <2>1. PICK k \in {Nil} \cup ListKinds(list) : Refilter([filters EXCEPT !.kind = k])
    BY <1>5 DEF PickKind
  <2> QED  BY <1>5, <2>1, Options, RefilterStep DEF PickKind
<1>6. CASE IncludeArchived
  BY <1>6, Options, RefilterStep DEF IncludeArchived
<1>7. CASE Previous
  <2>1. filters.page - 1 \in 1 .. MaxRows + 1 /\ Turn(-1) /\ ListUserActs
    BY <1>7 DEF Previous, CanPrevious, ListInv, ListTypeOK, Filters, ListAssumptions
  <2>2. filters.page + (-1) = filters.page - 1
    BY DEF ListInv, ListTypeOK, Filters
  <2> QED  BY <2>1, <2>2, TurnStep
<1>8. CASE NextPage
  <2>1. /\ listScreen.result \in ListAnswer /\ Turn(1) /\ ListUserActs
        /\ filters.page < TotalPages(listScreen.result.total)
    BY <1>8 DEF NextPage, CanNext, ListInv, ListTypeOK
  <2>2. /\ listScreen.result.total \in 0 .. MaxRows /\ MaxRows \in Nat
        /\ filters.page \in Nat \ {0}
    BY <2>1 DEF ListAnswer, ListInv, ListTypeOK, Filters, ListAssumptions
  <2>3. filters.page * PageSize < listScreen.result.total
    BY <2>1, <2>2, PagesCounted
  <2>4. PageSize \in Nat \ {0}
    BY DEF ListAssumptions
  <2>5. filters.page <= filters.page * PageSize
    BY <2>2, <2>4
  <2>6. filters.page + 1 \in 1 .. MaxRows + 1
    BY <2>2, <2>3, <2>4, <2>5
  <2> QED  BY <2>1, <2>6, TurnStep
<1>9. CASE UNCHANGED lists
  BY <1>9, SameRows DEF lists, ListInv, ListTypeOK, Rows, CallsTold, LatestAsks, LatestShown
<1> QED  BY <1>1, <1>2, <1>3, <1>4, <1>5, <1>6, <1>7, <1>8, <1>9, CountStep, ReadStep,
            ReceiveStep, FailStep, ChangeStep DEF ListNext

LEMMA ListHolds == ASSUME ListAssumptions PROVE ListSpec => []ListInv
BY ListStart, ListStep, PTL DEF ListSpec

LEMMA ListShows == ASSUME ListAssumptions, ListInv PROVE ListScreenTrue
<1> SUFFICES ASSUME ListSettled, ~listScreen.result.torn
             PROVE  LET found == Found(filters) IN
                    /\ listScreen.result.data = PageOf(found, filters.page)
                    /\ listScreen.result.total = Cardinality(found)
                    /\ CanNext <=> filters.page * PageSize < Cardinality(found)
  BY DEF ListScreenTrue
<1> DEFINE found == Found(filters)
<1>1. ListTypeOK /\ sent > 0 /\ listScreen.last = sent /\ listScreen.result # Nil
  BY DEF ListInv, LatestAsks, LatestShown, ListSettled
<1>2. /\ listScreen.result.total = Cardinality(found)
      /\ listScreen.result.data = PageOf(found, filters.page)
  BY <1>1 DEF ListInv, LatestShown, ListSettled
<1>3. /\ found \subseteq Nat /\ IsFiniteSet(found) /\ Cardinality(found) \in Nat
  BY <1>1, FoundFinite DEF Ids, ListAssumptions
<1>4. filters.page \in Nat \ {0}
  BY <1>1 DEF ListTypeOK, Filters, ListAssumptions
<1> HIDE DEF found
<1>5. filters.page < TotalPages(Cardinality(found)) <=> filters.page * PageSize < Cardinality(found)
  BY <1>3, <1>4, PagesCounted
<1>6. filters.page * PageSize < Cardinality(found) => listScreen.result.data # {}
  BY <1>2, <1>3, <1>4, PageNotEmpty
<1>7. ~listScreen.loading /\ ~listScreen.error
  BY DEF ListSettled
<1>8. CanNext <=> filters.page * PageSize < Cardinality(found)
  BY <1>1, <1>2, <1>5, <1>6, <1>7 DEF CanNext, Paged, OrganizationsPaged, OfficesPaged,
     AdminsPaged, SectionPaged
<1> QED  BY <1>2, <1>8 DEF found

\* The requests of a list, what it shows and its filters are well formed: no
\* button leads further than one page beyond the rows.
THEOREM ListTyped == ASSUME ListAssumptions PROVE ListSpec => []ListTypeOK
<1>1. ListInv => ListTypeOK
  BY DEF ListInv
<1> QED  BY <1>1, ListHolds, PTL

\* A settled list shows the page of the rows that match its filters, their
\* number, and a button to the next page exactly if rows are left, whatever was
\* asked, lost and overtaken before (the lists of the admin console, listPage of
\* their services), for any number of rows and any size of a page.
THEOREM ListShowsServer == ASSUME ListAssumptions PROVE ListSpec => []ListScreenTrue
<1>1. ListInv => ListScreenTrue
  BY ListShows
<1> QED  BY <1>1, ListHolds, PTL

----------------------------------------------------------------------------
(***************************************************************************)
(* The page of an organization, for any number of administrators.          *)
(***************************************************************************)

\* A request carries what its endpoint needs, and shows no later read than any.
OrgFine(c) ==
  /\ c.kind \in {"found", "save", "contact"} => c.name \in Names
  /\ c.kind \in OfEditor \cup {"provision"} => c.admin \in OrgAdmins
  /\ c.nr <= orgReads

\* Nothing that has been written waits to be read again.
OrgNoneServed == \A i \in DOMAIN orgCalls : orgCalls[i].stage # "served"

\* The latest read, unless something has happened since.
OrgLatest(seen, nr, doubt) == nr = orgReads /\ ~doubt => seen = server

OrgInv ==
  /\ OrgTypeOK
  /\ \A i \in DOMAIN orgCalls : OrgFine(orgCalls[i])
  /\ orgPage.nr <= orgReads
  /\ OrgNoneServed =>
       /\ orgPage.seen # Nil => OrgLatest(orgPage.seen, orgPage.nr, orgPage.doubt)
       /\ \A i \in DOMAIN orgCalls :
            orgCalls[i].stage = "read" =>
              OrgLatest(orgCalls[i].detail, orgCalls[i].nr, orgCalls[i].doubt)

----------------------------------------------------------------------------
(* The server *)

LEMMA EffectTyped ==
  ASSUME OrgAssumptions, server \in Server, NEW c \in OrgCall, OrgFine(c), OrgAccepts(c)
  PROVE  Effect(c) \in Server
<1>1. ASSUME NEW s \in Server PROVE Recorded(s, c) \in Server
  BY <1>1 DEF Recorded, Server, OrgCall
<1>2. OrgNewAccount \in OrgAccount
  BY DEF OrgNewAccount, OrgAccount, Names
<1>3. CASE c.kind = "found"
  <2>1. [server EXCEPT !.status = "active", !.name = c.name,
                       !.staff[FirstAdmin] = OrgNewAccount] \in Server
    BY <1>2, <1>3 DEF OrgAssumptions, Server, OrgFine
  <2> QED  BY <1>1, <1>3, <2>1 DEF Effect, Lifecycle
<1>4. CASE c.kind = "save"
  <2>1. [server EXCEPT !.name = c.name] \in Server
    BY <1>4 DEF Server, OrgFine
  <2> QED  BY <1>1, <1>4, <2>1 DEF Effect, Lifecycle
<1>5. CASE c.kind \in Lifecycle
  <2>1. [server EXCEPT !.status = Target(c.kind)] \in Server
    BY <1>5 DEF Server, Target, Lifecycle
  <2> QED  BY <1>1, <1>5, <2>1 DEF Effect, Lifecycle
<1>6. CASE c.kind = "contact"
  <2>1. c.admin \in OrgAdmins /\ c.name \in Names /\ server.staff[c.admin] \in OrgAccount
    BY <1>6 DEF OrgFine, OrgAccepts, OfEditor, Server, Lifecycle
  <2>2. [server EXCEPT !.staff[c.admin].contact = c.name] \in Server
    BY <2>1 DEF Server, OrgAccount
  <2> QED  BY <1>1, <1>6, <2>2 DEF Effect, Lifecycle
<1>7. CASE c.kind = "provision"
  <2>1. [server EXCEPT !.staff[c.admin] = OrgNewAccount] \in Server
    BY <1>2, <1>7 DEF OrgFine, Server, OfEditor
  <2> QED  BY <1>1, <1>7, <2>1 DEF Effect, Lifecycle
<1>8. CASE c.kind \in {"suspendAdmin", "reactivateAdmin"}
  <2>1. c.admin \in OrgAdmins /\ server.staff[c.admin] \in OrgAccount
    BY <1>8 DEF OrgFine, OrgAccepts, OfEditor, Server, Lifecycle
  <2>2. [server EXCEPT !.staff[c.admin].status =
             IF c.kind = "suspendAdmin" THEN "suspended" ELSE "active"] \in Server
    BY <2>1 DEF Server, OrgAccount
  <2> QED  BY <1>1, <1>8, <2>2 DEF Effect, Lifecycle
<1>9. CASE c.kind = "load"
  BY <1>9 DEF Effect, Lifecycle
<1> QED
  BY <1>3, <1>4, <1>5, <1>6, <1>7, <1>8, <1>9 DEF OrgCall, OrgKinds, OfEditor

LEMMA OrgServeStep ==
  ASSUME OrgAssumptions, OrgInv, OrgServe
  PROVE  OrgInv'
<1>1. PICK i \in DOMAIN orgCalls :
        /\ orgCalls[i].stage = "sent"
        /\ server' = IF OrgAccepts(orgCalls[i]) THEN Effect(orgCalls[i]) ELSE server
        /\ orgCalls' = [orgCalls EXCEPT ![i].stage =
                           IF OrgAccepts(orgCalls[i]) THEN "served" ELSE "refused"]
        /\ UNCHANGED <<orgPage, orgReads, orgDone, orgMode>>
  BY DEF OrgServe
<1>2. orgCalls \in Seq(OrgCall) /\ orgCalls[i] \in OrgCall /\ OrgFine(orgCalls[i])
  BY <1>1 DEF OrgInv, OrgTypeOK
<1>3. server' \in Server
  BY <1>1, <1>2, EffectTyped DEF OrgInv, OrgTypeOK
<1> DEFINE next == [orgCalls[i] EXCEPT !.stage =
                      IF OrgAccepts(orgCalls[i]) THEN "served" ELSE "refused"]
<1>a. next \in OrgCall
  BY <1>2 DEF OrgCall
<1>b. orgCalls' = [orgCalls EXCEPT ![i] = next]
  BY <1>1, <1>2
<1>4. /\ orgCalls' \in Seq(OrgCall) /\ DOMAIN orgCalls' = DOMAIN orgCalls
      /\ \A j \in DOMAIN orgCalls \ {i} : orgCalls'[j] = orgCalls[j]
      /\ orgCalls'[i] = next
  BY <1>2, <1>a, <1>b
<1>5. \A j \in DOMAIN orgCalls' : OrgFine(orgCalls[j])'
  BY <1>1, <1>2, <1>4 DEF OrgInv, OrgFine, OrgCall
<1>6. OrgTypeOK'
  BY <1>1, <1>3, <1>4 DEF OrgInv, OrgTypeOK
<1>7. CASE OrgAccepts(orgCalls[i])
  <2>1. ~OrgNoneServed'
    BY <1>2, <1>4, <1>7 DEF OrgNoneServed, OrgCall
  <2> QED  BY <1>1, <1>5, <1>6, <2>1 DEF OrgInv
<1>8. CASE ~OrgAccepts(orgCalls[i])
  <2>1. OrgNoneServed' => OrgNoneServed
    BY <1>1, <1>4 DEF OrgNoneServed
  <2>2. server' = server /\ orgCalls'[i].stage = "refused"
    BY <1>1, <1>2, <1>4, <1>8 DEF OrgCall
  <2>3. \A j \in DOMAIN orgCalls' : orgCalls'[j].stage = "read" => orgCalls'[j] = orgCalls[j]
    BY <1>4, <2>2
  <2> QED  BY <1>1, <1>4, <1>5, <1>6, <2>1, <2>2, <2>3 DEF OrgInv, OrgLatest
<1> QED  BY <1>7, <1>8

LEMMA OrgReadDetailStep ==
  ASSUME OrgInv, OrgReadDetail
  PROVE  OrgInv'
<1>1. PICK i \in DOMAIN orgCalls :
        /\ orgCalls[i].stage = "served"
        /\ orgCalls' = [orgCalls EXCEPT ![i].stage = "read", ![i].detail = server,
                                        ![i].nr = orgReads + 1]
        /\ orgReads' = orgReads + 1
        /\ UNCHANGED <<server, orgPage, orgDone, orgMode>>
  BY DEF OrgReadDetail
<1>2. /\ orgCalls \in Seq(OrgCall) /\ orgCalls[i] \in OrgCall /\ server \in Server
      /\ orgReads \in Nat
  BY <1>1 DEF OrgInv, OrgTypeOK
<1> DEFINE answer == [orgCalls[i] EXCEPT !.stage = "read", !.detail = server,
                                         !.nr = orgReads + 1]
<1>a. answer \in OrgCall
  <2>1. orgReads + 1 \in Nat
    BY <1>2
  <2> QED  BY <1>2, <2>1 DEF OrgCall
<1>b. orgCalls' = [orgCalls EXCEPT ![i] = answer]
  BY <1>1, <1>2
<1>3. /\ orgCalls' \in Seq(OrgCall) /\ DOMAIN orgCalls' = DOMAIN orgCalls
      /\ \A j \in DOMAIN orgCalls \ {i} : orgCalls'[j] = orgCalls[j]
      /\ orgCalls'[i] = answer
  BY <1>2, <1>a, <1>b
<1>4. \A j \in DOMAIN orgCalls : orgCalls[j] \in OrgCall /\ orgCalls[j].nr \in Nat
  <2>1. \A j \in DOMAIN orgCalls : orgCalls[j] \in OrgCall
    BY <1>2
  <2> QED  BY <2>1 DEF OrgCall
<1>5. \A j \in DOMAIN orgCalls' : OrgFine(orgCalls[j])'
  BY <1>1, <1>2, <1>3, <1>4 DEF OrgInv, OrgFine, OrgCall
<1>6. orgPage.nr \in Nat /\ orgPage.nr <= orgReads
  BY DEF OrgInv, OrgTypeOK, OrgPage
<1>7. OrgTypeOK'
  BY <1>1, <1>2, <1>3 DEF OrgInv, OrgTypeOK
<1>8. orgPage'.nr <= orgReads' /\ orgPage'.nr # orgReads'
  BY <1>1, <1>2, <1>6
<1>9. \A j \in DOMAIN orgCalls' : OrgLatest(orgCalls[j].detail, orgCalls[j].nr, orgCalls[j].doubt)'
  <2>1. orgCalls'[i].detail = server'
    BY <1>1, <1>2, <1>3 DEF OrgCall
  <2>2. \A j \in DOMAIN orgCalls \ {i} : orgCalls'[j].nr # orgReads'
    BY <1>1, <1>2, <1>3, <1>4 DEF OrgInv, OrgFine
  <2> QED  BY <1>3, <2>1, <2>2 DEF OrgLatest
<1> QED  BY <1>5, <1>7, <1>8, <1>9 DEF OrgInv, OrgLatest

----------------------------------------------------------------------------
(* The page *)

\* the same request, whatever has become of the form that sent it
OrgSame(d, c) ==
  /\ d.kind = c.kind /\ d.admin = c.admin /\ d.name = c.name
  /\ d.stage = c.stage /\ d.detail = c.detail /\ d.nr = c.nr /\ d.doubt = c.doubt

\* What the page shows is what it showed, or what it has been answered.
OrgLooked ==
  \/ orgPage'.seen = Nil /\ orgPage'.nr = orgPage.nr
  \/ orgPage'.doubt /\ orgPage'.nr = orgPage.nr
  \/ orgPage'.seen = orgPage.seen /\ orgPage'.nr = orgPage.nr /\ orgPage'.doubt = orgPage.doubt
  \/ \E i \in DOMAIN orgCalls :
       /\ orgCalls[i].stage = "read"
       /\ orgPage'.seen = orgCalls[i].detail /\ orgPage'.nr = orgCalls[i].nr
       /\ orgPage'.doubt = orgCalls[i].doubt

\* As long as the server stands still nothing that was told becomes untrue.
LEMMA OrgPageStep ==
  ASSUME OrgInv, UNCHANGED <<server, orgReads, orgMode>>, orgDone' \in 0 .. OrgMaxOps[orgMode],
         orgPage' \in OrgPage, OrgLooked, orgCalls' \in Seq(OrgCall),
         \A j \in DOMAIN orgCalls' :
           \/ \E i \in DOMAIN orgCalls : OrgSame(orgCalls'[j], orgCalls[i])
           \/ OrgFine(orgCalls'[j]) /\ orgCalls'[j].stage = "sent",
         OrgNoneServed' => OrgNoneServed
  PROVE  OrgInv'
<1>1. OrgTypeOK'
  BY DEF OrgInv, OrgTypeOK
<1>2. \A j \in DOMAIN orgCalls' : OrgFine(orgCalls[j])'
  BY DEF OrgInv, OrgFine, OrgSame
<1>3. orgPage'.nr <= orgReads'
  BY DEF OrgInv, OrgLooked, OrgFine
<1>4. ASSUME OrgNoneServed', orgPage'.seen # Nil
      PROVE  OrgLatest(orgPage.seen, orgPage.nr, orgPage.doubt)'
  BY <1>4 DEF OrgInv, OrgLooked, OrgLatest
<1>5. ASSUME OrgNoneServed', NEW j \in DOMAIN orgCalls', orgCalls'[j].stage = "read"
      PROVE  OrgLatest(orgCalls[j].detail, orgCalls[j].nr, orgCalls[j].doubt)'
  BY <1>5 DEF OrgInv, OrgSame, OrgLatest
<1> QED  BY <1>1, <1>2, <1>3, <1>4, <1>5 DEF OrgInv

\* what a request that has been sent looks like
LEMMA OrgSentCall ==
  ASSUME OrgTypeOK, NEW kind \in OrgKinds, NEW admin \in OrgAdmins \cup {Nil},
         NEW name \in Names \cup {Nil},
         kind \in {"found", "save", "contact"} => name \in Names,
         kind \in OfEditor \cup {"provision"} => admin \in OrgAdmins
  PROVE  /\ OrgSent(kind, admin, name) \in OrgCall /\ OrgFine(OrgSent(kind, admin, name))
         /\ OrgSent(kind, admin, name).stage = "sent"
BY DEF OrgSent, OrgCall, OrgFine, OrgTypeOK

\* A request has come to its end.
LEMMA OrgCallEnds ==
  ASSUME OrgInv, NEW i \in DOMAIN orgCalls, orgCalls[i].stage # "served",
         orgCalls' = RemoveAt(orgCalls, i)
  PROVE  /\ orgCalls' \in Seq(OrgCall)
         /\ \A j \in DOMAIN orgCalls' : \E k \in DOMAIN orgCalls : OrgSame(orgCalls'[j], orgCalls[k])
         /\ OrgNoneServed' => OrgNoneServed
<1>1. orgCalls \in Seq(OrgCall)
  BY DEF OrgInv, OrgTypeOK
<1>2. /\ orgCalls' \in Seq(OrgCall)
      /\ \A j \in DOMAIN orgCalls' : Before(i, j) \in DOMAIN orgCalls /\ orgCalls'[j] = orgCalls[Before(i, j)]
  BY <1>1, RemovedAt
<1>3. \A k \in DOMAIN orgCalls \ {i} : \E j \in DOMAIN orgCalls' : orgCalls'[j] = orgCalls[k]
  BY <1>1, RestKept
<1>4. OrgNoneServed' => OrgNoneServed
  BY <1>3 DEF OrgNoneServed
<1> QED  BY <1>2, <1>4 DEF OrgSame

LEMMA OrgClosedPage ==
  ASSUME orgPage \in OrgPage, NEW c \in OrgCall
  PROVE  /\ OrgClosed(c) \in OrgPage /\ OrgClosed(c).nr = orgPage.nr
         /\ OrgClosed(c).doubt = orgPage.doubt
         /\ OrgClosed(c).seen = IF c.kind = "found" THEN Nil ELSE orgPage.seen
<1> USE DEF OrgPage, Lifecycle
<1>1. CASE c.kind = "found"
  BY <1>1 DEF OrgClosed
<1>2. CASE c.kind = "load"
  BY <1>2 DEF OrgClosed
<1>3. CASE c.kind = "save"
  BY <1>3 DEF OrgClosed
<1>4. CASE c.kind \in Lifecycle
  BY <1>4 DEF OrgClosed
<1>5. CASE c.kind = "provision"
  BY <1>5 DEF OrgClosed
<1>6. CASE c.kind \in OfEditor
  BY <1>6 DEF OrgClosed, OfEditor
<1> QED  BY <1>1, <1>2, <1>3, <1>4, <1>5, <1>6 DEF OrgCall, OrgKinds

LEMMA OrgAnswerStep ==
  ASSUME OrgInv, OrgAnswer
  PROVE  OrgInv'
<1>1. PICK i \in DOMAIN orgCalls :
        /\ orgCalls[i].stage = "read"
        /\ IF orgCalls[i].kind = "found"
           THEN orgPage' = OrgClosed(orgCalls[i])
                /\ orgCalls' = Append(RemoveAt(orgCalls, i), OrgSent("load", Nil, Nil))
           ELSE orgPage' = OrgShow(orgCalls[i]) /\ orgCalls' = RemoveAt(orgCalls, i)
        /\ UNCHANGED <<server, orgReads, orgDone, orgMode>>
  BY DEF OrgAnswer
<1>2. orgCalls \in Seq(OrgCall) /\ orgCalls[i] \in OrgCall /\ orgPage \in OrgPage /\ OrgTypeOK
  BY DEF OrgInv, OrgTypeOK
<1>3. orgCalls[i].detail \in Server \cup {Nil} /\ orgCalls[i].nr \in Nat /\ orgCalls[i].doubt \in BOOLEAN
  BY <1>2 DEF OrgCall
<1>4. orgDone' \in 0 .. OrgMaxOps[orgMode]
  BY <1>1 DEF OrgInv, OrgTypeOK
<1>5. CASE orgCalls[i].kind # "found"
  <2>1. orgCalls' = RemoveAt(orgCalls, i) /\ orgPage' = OrgShow(orgCalls[i])
    BY <1>1, <1>5
  <2>2. /\ orgPage' \in OrgPage /\ orgPage'.seen = orgCalls[i].detail
        /\ orgPage'.nr = orgCalls[i].nr /\ orgPage'.doubt = orgCalls[i].doubt
    BY <1>2, <1>3, <2>1, OrgClosedPage DEF OrgShow, OrgPage
  <2>3. OrgLooked
    BY <1>1, <2>2 DEF OrgLooked
  <2> QED  BY <1>1, <1>4, <2>1, <2>2, <2>3, OrgCallEnds, OrgPageStep
<1>6. CASE orgCalls[i].kind = "found"
  <2> DEFINE rest == RemoveAt(orgCalls, i)
             load == OrgSent("load", Nil, Nil)
  <2>1. orgCalls' = Append(rest, load) /\ orgPage' = OrgClosed(orgCalls[i])
    BY <1>1, <1>6
  <2>2. orgPage' \in OrgPage /\ OrgLooked
    BY <1>2, <1>6, <2>1, OrgClosedPage DEF OrgLooked
  <2>3. load \in OrgCall /\ OrgFine(load) /\ load.stage = "sent"
    BY <1>2, OrgSentCall DEF OrgKinds, OfEditor
  <2>4. /\ rest \in Seq(OrgCall)
        /\ \A j \in DOMAIN rest : Before(i, j) \in DOMAIN orgCalls /\ rest[j] = orgCalls[Before(i, j)]
        /\ \A k \in DOMAIN orgCalls \ {i} : \E j \in DOMAIN rest : rest[j] = orgCalls[k]
    BY <1>2, RemovedAt, RestKept
  <2> HIDE DEF rest, load
  <2>5. /\ orgCalls' \in Seq(OrgCall)
        /\ \A j \in DOMAIN orgCalls' :
             \/ j \in DOMAIN rest /\ orgCalls'[j] = rest[j]
             \/ orgCalls'[j] = load
        /\ \A k \in DOMAIN rest : k \in DOMAIN orgCalls' /\ orgCalls'[k] = rest[k]
    BY <2>1, <2>3, <2>4, Appended
  <2>6. \A j \in DOMAIN orgCalls' :
          \/ \E k \in DOMAIN orgCalls : OrgSame(orgCalls'[j], orgCalls[k])
          \/ OrgFine(orgCalls'[j]) /\ orgCalls'[j].stage = "sent"
    BY <2>3, <2>4, <2>5 DEF OrgSame
  <2>7. OrgNoneServed' => OrgNoneServed
    BY <1>1, <2>4, <2>5 DEF OrgNoneServed
  <2> QED  BY <1>1, <1>4, <2>2, <2>5, <2>6, <2>7, OrgPageStep
<1> QED  BY <1>5, <1>6

LEMMA OrgRefuseStep ==
  ASSUME OrgInv, OrgRefuse
  PROVE  OrgInv'
<1>1. PICK i \in DOMAIN orgCalls :
        /\ orgCalls[i].stage = "refused"
        /\ orgPage' = [orgPage EXCEPT !.error = TRUE]
        /\ orgCalls' = RemoveAt(orgCalls, i)
        /\ UNCHANGED <<server, orgReads, orgDone, orgMode>>
  BY DEF OrgRefuse
<1>2. orgPage' \in OrgPage /\ OrgLooked /\ orgDone' \in 0 .. OrgMaxOps[orgMode]
  BY <1>1 DEF OrgInv, OrgTypeOK, OrgPage, OrgLooked
<1> QED  BY <1>1, <1>2, OrgCallEnds, OrgPageStep

LEMMA OrgLoseStep ==
  ASSUME OrgInv, OrgLose
  PROVE  OrgInv'
<1>1. PICK i \in DOMAIN orgCalls :
        /\ orgCalls[i].stage \in {"sent", "read"}
        /\ orgPage' = [orgPage EXCEPT !.error = TRUE, !.doubt = TRUE]
        /\ orgCalls' = RemoveAt(orgCalls, i)
        /\ UNCHANGED <<server, orgReads, orgDone, orgMode>>
  BY DEF OrgLose
<1>2. orgPage' \in OrgPage /\ OrgLooked /\ orgDone' \in 0 .. OrgMaxOps[orgMode]
  BY <1>1 DEF OrgInv, OrgTypeOK, OrgPage, OrgLooked
<1> QED  BY <1>1, <1>2, OrgCallEnds, OrgPageStep

----------------------------------------------------------------------------
(* What the user does *)

LEMMA OrgActs ==
  ASSUME OrgAssumptions, OrgInv, OrgUserActs
  PROVE  UNCHANGED <<server, orgReads, orgMode>> /\ orgDone' \in 0 .. OrgMaxOps[orgMode]
BY DEF OrgUserActs, OrgInv, OrgTypeOK, OrgAssumptions

LEMMA OrgSubmitStep ==
  ASSUME OrgAssumptions, OrgInv, NEW kind \in OrgKinds, NEW admin \in OrgAdmins \cup {Nil},
         NEW name \in Names \cup {Nil},
         kind \in {"found", "save", "contact"} => name \in Names,
         kind \in OfEditor \cup {"provision"} => admin \in OrgAdmins,
         OrgSubmit(kind, admin, name)
  PROVE  OrgInv'
<1> DEFINE new == OrgSent(kind, admin, name)
<1>1. /\ OrgUserActs /\ orgCalls' = Append(orgCalls, new)
      /\ orgPage' = [orgPage EXCEPT !.error = FALSE]
  BY DEF OrgSubmit
<1>2. orgPage' \in OrgPage /\ OrgLooked
  BY <1>1 DEF OrgInv, OrgTypeOK, OrgPage, OrgLooked
<1>3. new \in OrgCall /\ OrgFine(new) /\ new.stage = "sent" /\ orgCalls \in Seq(OrgCall)
  BY OrgSentCall DEF OrgInv, OrgTypeOK
<1> HIDE DEF new
<1>4. /\ orgCalls' \in Seq(OrgCall)
      /\ \A j \in DOMAIN orgCalls' :
           \/ j \in DOMAIN orgCalls /\ orgCalls'[j] = orgCalls[j]
           \/ orgCalls'[j] = new
      /\ \A k \in DOMAIN orgCalls : k \in DOMAIN orgCalls' /\ orgCalls'[k] = orgCalls[k]
  BY <1>1, <1>3, Appended
<1>5. OrgNoneServed' => OrgNoneServed
  BY <1>4 DEF OrgNoneServed
<1> QED  BY <1>1, <1>2, <1>3, <1>4, <1>5, OrgActs, OrgPageStep DEF OrgSame

\* The user changes what is open on the page.
LEMMA OrgLookStep ==
  ASSUME OrgAssumptions, OrgInv, OrgUserActs, orgPage' \in OrgPage, orgCalls' = orgCalls,
         orgPage'.seen = orgPage.seen, orgPage'.nr = orgPage.nr, orgPage'.doubt = orgPage.doubt
  PROVE  OrgInv'
<1>1. orgCalls' \in Seq(OrgCall) /\ (OrgNoneServed' => OrgNoneServed)
  BY DEF OrgInv, OrgTypeOK, OrgNoneServed
<1>2. OrgLooked
  BY DEF OrgLooked
<1> QED  BY <1>1, <1>2, OrgActs, OrgPageStep DEF OrgSame

LEMMA OrgPickTabStep ==
  ASSUME OrgAssumptions, OrgInv, OrgPickTab
  PROVE  OrgInv'
<1>1. orgPage' \in OrgPage /\ OrgLooked
  BY DEF OrgPickTab, OrgInv, OrgTypeOK, OrgPage, OrgLooked
<1>2. /\ orgCalls' = [i \in DOMAIN orgCalls |->
                        [orgCalls[i] EXCEPT !.mounted =
                            @ /\ orgCalls[i].kind \notin OfEditor \cup {"provision"}]]
      /\ orgCalls \in Seq(OrgCall)
  BY DEF OrgPickTab, OrgInv, OrgTypeOK
<1>3. \A i \in DOMAIN orgCalls : orgCalls'[i] \in OrgCall /\ OrgSame(orgCalls'[i], orgCalls[i])
  <2> SUFFICES ASSUME NEW i \in DOMAIN orgCalls
               PROVE  orgCalls'[i] \in OrgCall /\ OrgSame(orgCalls'[i], orgCalls[i])
    OBVIOUS
  <2>1. orgCalls[i] \in OrgCall
    BY <1>2
  <2> QED  BY <1>2, <2>1 DEF OrgCall, OrgSame
<1>4. orgCalls' \in Seq(OrgCall) /\ DOMAIN orgCalls' = DOMAIN orgCalls
  <2>1. orgCalls' = [i \in DOMAIN orgCalls |-> orgCalls'[i]]
    BY <1>2
  <2>2. orgCalls \in Seq(OrgCall)
    BY <1>2
  <2>3. \A i \in DOMAIN orgCalls : orgCalls'[i] \in OrgCall
    BY <1>3
  <2> QED  BY <2>1, <2>2, <2>3, Mapped
<1>5. OrgNoneServed' => OrgNoneServed
  BY <1>3, <1>4 DEF OrgNoneServed, OrgSame
<1> QED  BY <1>1, <1>3, <1>4, <1>5, OrgActs, OrgPageStep DEF OrgPickTab

LEMMA OrgOpenStep ==
  ASSUME OrgAssumptions, OrgInv,
         \/ ToggleEdit \/ OrgOpenDialog \/ CloseDialog \/ ToggleForm
  PROVE  OrgInv'
<1>1. OrgUserActs /\ orgCalls' = orgCalls
  BY DEF ToggleEdit, OrgOpenDialog, CloseDialog, ToggleForm
<1>2. /\ orgPage' \in OrgPage /\ orgPage'.seen = orgPage.seen /\ orgPage'.nr = orgPage.nr
      /\ orgPage'.doubt = orgPage.doubt
  BY DEF ToggleEdit, OrgOpenDialog, CloseDialog, ToggleForm, OrgInv, OrgTypeOK, OrgPage
<1> QED  BY <1>1, <1>2, OrgLookStep

LEMMA OrgRequestStep ==
  ASSUME OrgAssumptions, OrgInv,
         \/ OrgCreateOrganization \/ OrgRetry \/ SaveOrganization \/ OrgApplyLifecycle
         \/ OrgSaveAdmin \/ SuspendAdmin \/ ReactivateAdmin \/ CreateAdmin
  PROVE  OrgInv'
<1> USE DEF OrgKinds, OfEditor, Lifecycle, Names
<1>1. ASSUME OrgCreateOrganization PROVE OrgInv'
  BY <1>1, OrgSubmitStep DEF OrgCreateOrganization
<1>2. ASSUME OrgRetry PROVE OrgInv'
  BY <1>2, OrgSubmitStep DEF OrgRetry
<1>3. ASSUME SaveOrganization PROVE OrgInv'
  BY <1>3, OrgSubmitStep DEF SaveOrganization
<1>4. ASSUME OrgApplyLifecycle PROVE OrgInv'
  <2>1. orgPage.dialog \in Lifecycle
    BY <1>4 DEF OrgApplyLifecycle, OrgInv, OrgTypeOK, OrgPage
  <2> QED  BY <1>4, <2>1, OrgSubmitStep DEF OrgApplyLifecycle
<1>5. ASSUME OrgSaveAdmin PROVE OrgInv'
  BY <1>5, OrgSubmitStep DEF OrgSaveAdmin
<1>6. ASSUME SuspendAdmin PROVE OrgInv'
  BY <1>6, OrgSubmitStep DEF SuspendAdmin
<1>7. ASSUME ReactivateAdmin PROVE OrgInv'
  BY <1>7, OrgSubmitStep DEF ReactivateAdmin
<1>8. ASSUME CreateAdmin PROVE OrgInv'
  BY <1>8, OrgSubmitStep DEF CreateAdmin
<1> QED  BY <1>1, <1>2, <1>3, <1>4, <1>5, <1>6, <1>7, <1>8

----------------------------------------------------------------------------
LEMMA OrgOthersActStep ==
  ASSUME OrgAssumptions, OrgInv, OrgOthersAct
  PROVE  OrgInv'
<1>1. PICK kind \in OrgKinds \ {"found", "load"}, a \in OrgAdmins, name \in Names :
        LET c == OrgSent(kind, IF kind \in OfEditor \cup {"provision"} THEN a ELSE Nil,
                         name) IN
        OrgAccepts(c) /\ server.status # "absent" /\ server' = Effect(c)
  BY DEF OrgOthersAct
<1> DEFINE c == OrgSent(kind, IF kind \in OfEditor \cup {"provision"} THEN a ELSE Nil, name)
<1>2. c \in OrgCall /\ OrgFine(c)
  BY OrgSentCall DEF OrgInv
<1> HIDE DEF c
<1>3. server' \in Server
  BY <1>1, <1>2, EffectTyped DEF OrgInv, OrgTypeOK, c
<1>4. /\ orgPage' = [orgPage EXCEPT !.doubt = TRUE]
      /\ orgCalls' = [i \in DOMAIN orgCalls |->
                        [orgCalls[i] EXCEPT !.doubt = orgCalls[i].stage = "read"]]
      /\ UNCHANGED <<orgReads, orgMode>> /\ orgDone' \in 0 .. OrgMaxOps[orgMode]
      /\ orgCalls \in Seq(OrgCall)
  BY DEF OrgOthersAct, OrgInv, OrgTypeOK, OrgAssumptions
<1>5. \A i \in DOMAIN orgCalls :
        /\ orgCalls'[i] \in OrgCall /\ OrgFine(orgCalls'[i])
        /\ orgCalls'[i].stage = orgCalls[i].stage
        /\ orgCalls'[i].stage = "read" => orgCalls'[i].doubt
  <2> SUFFICES ASSUME NEW i \in DOMAIN orgCalls
               PROVE  /\ orgCalls'[i] \in OrgCall /\ OrgFine(orgCalls'[i])
                      /\ orgCalls'[i].stage = orgCalls[i].stage
                      /\ orgCalls'[i].stage = "read" => orgCalls'[i].doubt
    OBVIOUS
  <2>1. orgCalls[i] \in OrgCall /\ OrgFine(orgCalls[i])
    BY <1>4 DEF OrgInv
  <2> QED  BY <1>4, <2>1 DEF OrgCall, OrgFine
<1>6. orgCalls' \in Seq(OrgCall) /\ DOMAIN orgCalls' = DOMAIN orgCalls
  <2>1. orgCalls' = [i \in DOMAIN orgCalls |-> orgCalls'[i]]
    BY <1>4
  <2>2. orgCalls \in Seq(OrgCall)
    BY <1>4
  <2>3. \A i \in DOMAIN orgCalls : orgCalls'[i] \in OrgCall
    BY <1>5
  <2> QED  BY <2>1, <2>2, <2>3, Mapped
<1>7. orgPage' \in OrgPage /\ orgPage'.doubt /\ orgPage'.nr = orgPage.nr
  BY <1>4 DEF OrgInv, OrgTypeOK, OrgPage
<1>8. OrgTypeOK'
  BY <1>3, <1>4, <1>6, <1>7 DEF OrgInv, OrgTypeOK
<1>9. \A i \in DOMAIN orgCalls' : OrgFine(orgCalls[i])'
  BY <1>4, <1>5, <1>6 DEF OrgFine
<1> QED  BY <1>4, <1>5, <1>6, <1>7, <1>8, <1>9 DEF OrgInv, OrgLatest

LEMMA OrgStart == ASSUME OrgAssumptions, OrgInit PROVE OrgInv
<1>1. PICK status \in {"absent", "active", "suspended"} :
        /\ server = [status |-> status, name |-> "first",
                     staff |-> [a \in OrgAdmins |->
                                   IF a = FirstAdmin /\ status # "absent"
                                   THEN OrgNewAccount ELSE Nil],
                     audits |-> {}]
        /\ orgPage = [at |-> IF status = "absent" THEN "new" ELSE "detail",
                      seen |-> Nil, tab |-> "other", editing |-> FALSE,
                      adding |-> FALSE, dialog |-> Nil, error |-> FALSE,
                      nr |-> 0, doubt |-> FALSE]
        /\ orgCalls = IF status = "absent" THEN <<>>
                      ELSE <<OrgSent("load", Nil, Nil)>>
  BY DEF OrgInit
<1>2. server \in Server
  BY <1>1 DEF Server, OrgNewAccount, OrgAccount, Names
<1>3. orgPage \in OrgPage /\ orgPage.seen = Nil /\ orgPage.nr = 0
  BY <1>1 DEF OrgPage
<1>4. /\ OrgSent("load", Nil, Nil) \in OrgCall
      /\ OrgSent("load", Nil, Nil).stage = "sent" /\ OrgSent("load", Nil, Nil).nr = 0
      /\ OrgSent("load", Nil, Nil).kind = "load"
  BY DEF OrgSent, OrgCall, OrgKinds
<1>5. orgCalls \in Seq(OrgCall) /\ \A i \in DOMAIN orgCalls : orgCalls[i] = OrgSent("load", Nil, Nil)
  BY <1>1, <1>4
<1>6. orgReads = 0 /\ orgDone \in 0 .. OrgMaxOps[orgMode] /\ orgMode \in PageModes
  BY DEF OrgInit, OrgAssumptions
<1>7. OrgTypeOK
  BY <1>2, <1>3, <1>5, <1>6 DEF OrgTypeOK
<1> QED  BY <1>3, <1>4, <1>5, <1>6, <1>7 DEF OrgInv, OrgFine, OfEditor

LEMMA OrgStep == ASSUME OrgAssumptions, OrgInv, [OrgNext]_tenant PROVE OrgInv'
<1>1. CASE UNCHANGED tenant
  <2>1. OrgTypeOK'
    BY <1>1 DEF tenant, OrgInv, OrgTypeOK
  <2> QED  BY <1>1, <2>1 DEF tenant, OrgInv, OrgFine, OrgNoneServed, OrgLatest
<1>2. CASE OrgNext
  BY <1>2, OrgServeStep, OrgReadDetailStep, OrgAnswerStep, OrgRefuseStep, OrgLoseStep, OrgRequestStep,
     OrgPickTabStep, OrgOpenStep, OrgOthersActStep DEF OrgNext
<1> QED  BY <1>1, <1>2

LEMMA OrgHolds == ASSUME OrgAssumptions PROVE OrgSpec => []OrgInv
<1> QED  BY OrgStart, OrgStep, PTL DEF OrgSpec

\* The organization, and its page with the requests under way, are well formed
\* (organizations.service.ts, admin/organizations/[id]/page.tsx).
THEOREM OrgTyped == ASSUME OrgAssumptions PROVE OrgSpec => []OrgTypeOK
<1>1. OrgInv => OrgTypeOK
  BY DEF OrgInv
<1> QED  BY <1>1, OrgHolds, PTL

----------------------------------------------------------------------------
\* A page that shows what the server has offers what the server accepts.
LEMMA OrgOffersFit ==
  ASSUME OrgTypeOK, orgPage.seen = server, OrgShown
  PROVE  OrgOffersAccepted
<1>1. server \in Server
  BY DEF OrgTypeOK
<1>2. ASSUME NEW action \in Lifecycle
      PROVE  Offers(action) <=> OrgAccepts(OrgSent(action, Nil, Nil))
  BY <1>1, <1>2 DEF Lifecycle, Offers, OrgAccepts, OrgSent, OrgTransition, Target, Server
<1>3. OrgCanEdit <=> OrgAccepts(OrgSent("save", Nil, "first"))
  BY <1>1 DEF OrgCanEdit, OrgAccepts, OrgSent, Writable, Server, Lifecycle
<1>4. ASSUME NEW a \in OrgAdmins
      PROVE  CanAdd /\ orgPage.seen.staff[a] = Nil <=> OrgAccepts(OrgSent("provision", a, Nil))
  BY <1>1 DEF CanAdd, OrgAccepts, OrgSent, Server, Lifecycle
<1>5. ASSUME NEW a \in OrgAdmins, Writable, orgPage.tab = "admins", NEW kind \in OfEditor
      PROVE  EditorOffers(kind, a) <=> OrgAccepts(OrgSent(kind, a, "first"))
  BY <1>1, <1>5 DEF OfEditor, EditorOffers, OrgAccepts, OrgSent, Writable, Lifecycle
<1> QED  BY <1>2, <1>3, <1>4, <1>5 DEF OrgOffersAccepted

\* A settled page shows the organization, its administrators and its history as
\* the server has them and offers what the server accepts, for any number of
\* administrators, of requests at once and of others who change them meanwhile.
THEOREM OrgShowsServer == ASSUME OrgAssumptions PROVE OrgSpec => []OrgScreenTrue
<1>1. OrgInv => OrgScreenTrue
  <2> SUFFICES ASSUME OrgInv, OrgSettled PROVE orgPage.seen = server /\ OrgOffersAccepted
    BY DEF OrgScreenTrue
  <2>1. OrgNoneServed /\ orgPage.seen # Nil /\ orgPage.nr = orgReads /\ ~orgPage.doubt
    BY DEF OrgSettled, OrgShown, OrgNoneServed
  <2>2. orgPage.seen = server
    BY <2>1 DEF OrgInv, OrgLatest
  <2> QED  BY <2>2, OrgOffersFit DEF OrgInv, OrgSettled
<1> QED  BY <1>1, OrgHolds, PTL

----------------------------------------------------------------------------
(***************************************************************************)
(* The page of an office, for any number of offices and staff.             *)
(***************************************************************************)

\* A request carries what its endpoint needs.
BureauFine(c) == (c.kind = "approve" => c.who \in BureauStaff) /\ c.nr <= officeReads

\* Nothing that has been written waits to be read again.
BureauNoneServed == \A i \in DOMAIN officeCalls : officeCalls[i].stage = "served" => officeCalls[i].kind = "options"

\* The latest read, unless something has happened since.
BureauLatest(seen, nr, doubt) == nr = officeReads /\ ~doubt => seen = TheDetail

\* No office is below itself.
BureauForest == \A o \in BureauOffices : o \notin BureauDescendants(o)

BureauInv ==
  /\ BureauTypeOK
  /\ BureauForest
  /\ \A i \in DOMAIN officeCalls : BureauFine(officeCalls[i])
  /\ officePage.nr <= officeReads
  /\ BureauNoneServed =>
       /\ officePage.seen # Nil => BureauLatest(officePage.seen, officePage.nr, officePage.doubt)
       /\ \A i \in DOMAIN officeCalls :
            officeCalls[i].stage = "read" /\ officeCalls[i].kind # "options" =>
              BureauLatest(officeCalls[i].answer, officeCalls[i].nr, officeCalls[i].doubt)

----------------------------------------------------------------------------
(* The offices *)

LEMMA Below ==
  ASSUME NEW o \in BureauOffices
  PROVE  /\ BureauChildren(o) \subseteq BureauDescendants(o) /\ BureauDescendants(o) \subseteq BureauOffices
         /\ \A y \in BureauDescendants(o) : BureauChildren(y) \subseteq BureauDescendants(o)
BY DEF BureauChildren, BureauDescendants

LEMMA LeastDescendants ==
  ASSUME NEW o \in BureauOffices, NEW D \in SUBSET BureauOffices, BureauChildren(o) \subseteq D,
         \A y \in D : BureauChildren(y) \subseteq D
  PROVE  BureauDescendants(o) \subseteq D
BY DEF BureauDescendants

\* An office that is put where ParentAllowed lets it is not put below itself.
LEMMA StaysForest ==
  ASSUME BureauForest, NEW o \in BureauOffices, NEW p,
         p \in BureauOffices => p # o /\ p \notin BureauDescendants(o),
         \A y \in BureauOffices : BureauChildren(y)' \subseteq
             IF y = p THEN BureauChildren(y) \cup {o} ELSE BureauChildren(y)
  PROVE  BureauForest'
<1> SUFFICES ASSUME NEW x \in BureauOffices PROVE x \notin BureauDescendants(x)'
  BY DEF BureauForest
<1> DEFINE B == BureauDescendants(x)
           D == IF p \in B \cup {x} THEN B \cup {o} \cup BureauDescendants(o) ELSE B
<1>1. /\ BureauChildren(x) \subseteq B /\ B \subseteq BureauOffices /\ x \notin B
      /\ \A y \in B : BureauChildren(y) \subseteq B
  BY Below DEF BureauForest
<1>2. /\ BureauChildren(o) \subseteq BureauDescendants(o) /\ BureauDescendants(o) \subseteq BureauOffices
      /\ \A y \in BureauDescendants(o) : BureauChildren(y) \subseteq BureauDescendants(o)
      /\ o \notin BureauDescendants(o)
  BY Below DEF BureauForest
<1>3. x \notin D
  <2>1. CASE p \in B \cup {x}
    <3>1. p \in BureauOffices
      BY <1>1, <2>1
    <3>2. x # o
      BY <2>1, <3>1
    <3>3. ASSUME x \in BureauDescendants(o) PROVE FALSE
      <4>1. B \subseteq BureauDescendants(o)
        BY <1>2, <3>3, LeastDescendants
      <4> QED  BY <2>1, <3>1, <3>3, <4>1
    <3> QED  BY <1>1, <3>2, <3>3
  <2>2. CASE p \notin B \cup {x}
    BY <1>1, <2>2
  <2> QED  BY <2>1, <2>2
<1>4. D \subseteq BureauOffices
  BY <1>1, <1>2
<1>5. BureauChildren(x)' \subseteq D /\ \A y \in D : BureauChildren(y)' \subseteq D
  BY <1>1, <1>2, <1>4
<1> HIDE DEF D
<1>6. BureauDescendants(x)' \subseteq D
  BY <1>4, <1>5 DEF BureauDescendants
<1> QED  BY <1>3, <1>6

\* The parent of an office is neither the office nor below it.
LEMMA ParentAbove ==
  ASSUME BureauAssumptions, BureauTypeOK, BureauForest, NEW o \in BureauOffices, offices[o].status # "absent",
         offices[o].parent # Nil
  PROVE  offices[o].parent # o /\ offices[o].parent \notin BureauDescendants(o)
<1> DEFINE p == offices[o].parent
<1>1. p \in BureauOffices /\ o \in BureauChildren(p)
  BY DEF BureauTypeOK, Office, BureauChildren
<1>2. /\ BureauChildren(o) \subseteq BureauDescendants(o) /\ o \notin BureauDescendants(o)
      /\ \A y \in BureauDescendants(o) : BureauChildren(y) \subseteq BureauDescendants(o)
  BY Below DEF BureauForest
<1> QED  BY <1>1, <1>2

LEMMA Typed ==
  ASSUME BureauAssumptions, BureauTypeOK, NEW o \in BureauOffices, NEW c \in BureauCall, BureauFine(c), Apply(o, c)
  PROVE  /\ offices' \in [BureauOffices -> Office]
         /\ staff' \in [BureauStaff -> {"pending", "active"}]
         /\ audits' \subseteq BureauKinds
<1>1. Written(o, c) \in Office
  <2>1. offices[o] \in Office
    BY DEF BureauTypeOK
  <2>2. CASE c.kind = "create"
    BY <2>2 DEF Written, Office, Levels
  <2>3. CASE c.kind = "save"
    BY <2>1, <2>3 DEF Written, Office, BureauCall
  <2>4. CASE c.kind \in {"archive", "reactivate"}
    BY <2>1, <2>4 DEF Written, Office
  <2>5. CASE c.kind \notin {"create", "save", "archive", "reactivate"}
    BY <2>1, <2>5 DEF Written
  <2> QED  BY <2>2, <2>3, <2>4, <2>5
<1> QED  BY <1>1 DEF Apply, BureauTypeOK, BureauFine, BureauCall, BureauKinds

\* Whatever is written, the offices stay a forest.
LEMMA WrittenForest ==
  ASSUME BureauAssumptions, BureauTypeOK, BureauForest, NEW o \in BureauOffices, NEW c \in BureauCall,
         BureauAccepts(o, c), Apply(o, c)
  PROVE  BureauForest'
<1>1. /\ offices' = [offices EXCEPT ![o] = Written(o, c)]
      /\ offices \in [BureauOffices -> Office]
  BY DEF Apply, BureauTypeOK
<1>2. ASSUME c.kind = "create" PROVE BureauForest'
  <2>1. \A y \in BureauOffices : BureauChildren(y)' \subseteq BureauChildren(y)
    <3>1. offices'[o].parent = Nil /\ \A x \in BureauOffices \ {o} : offices'[x] = offices[x]
      BY <1>1, <1>2 DEF Written
    <3> QED  BY <3>1 DEF BureauChildren, BureauAssumptions
  <2>2. Nil \notin BureauOffices
    BY DEF BureauAssumptions
  <2> QED  BY <2>1, <2>2, StaysForest
<1>3. ASSUME c.kind = "save" PROVE BureauForest'
  <2>1. /\ offices'[o].parent = c.parent /\ offices'[o].status = offices[o].status
        /\ \A x \in BureauOffices \ {o} : offices'[x] = offices[x]
    BY <1>1, <1>3 DEF Written, Office
  <2>2. \A y \in BureauOffices : BureauChildren(y)' \subseteq
          IF y = c.parent THEN BureauChildren(y) \cup {o} ELSE BureauChildren(y)
    BY <2>1 DEF BureauChildren
  <2>3. c.parent \in BureauOffices => c.parent # o /\ c.parent \notin BureauDescendants(o)
    BY <1>3 DEF BureauAccepts, BureauParentAllowed, BureauAssumptions
  <2> QED  BY <2>2, <2>3, StaysForest
<1>4. ASSUME c.kind \notin {"create", "save"} PROVE BureauForest'
  <2>1. /\ offices'[o].parent = offices[o].parent
        /\ offices'[o].status # "absent" => offices[o].status # "absent"
        /\ \A x \in BureauOffices \ {o} : offices'[x] = offices[x]
    BY <1>1, <1>4 DEF Written, BureauAccepts, IsActive, Office, BureauCall, BureauKinds
  <2>2. \A y \in BureauOffices : BureauChildren(y)' \subseteq BureauChildren(y)
    BY <2>1 DEF BureauChildren
  <2>3. Nil \notin BureauOffices
    BY DEF BureauAssumptions
  <2> QED  BY <2>2, <2>3, StaysForest
<1> QED  BY <1>2, <1>3, <1>4

----------------------------------------------------------------------------
(* The server *)

LEMMA DetailTyped ==
  ASSUME BureauTypeOK, Here \in BureauOffices
  PROVE  TheDetail \in Detail
<1>1. \A x \in BureauChildren(Here) : x \in BureauOffices /\ offices[x].status \in {"active", "archived"}
  BY DEF BureauTypeOK, BureauChildren, Office
<1>2. {<<x, offices[x].status>> : x \in BureauChildren(Here)}
        \subseteq BureauOffices \X {"active", "archived"}
  BY <1>1
<1> QED  BY <1>2 DEF BureauTypeOK, TheDetail, Detail

LEMMA BureauServeStep ==
  ASSUME BureauAssumptions, BureauInv, BureauServe
  PROVE  BureauInv'
<1>1. PICK i \in DOMAIN officeCalls, taken \in BOOLEAN :
        /\ officeCalls[i].stage = "sent"
        /\ taken => officeCalls[i].kind \in {"create", "save"}
        /\ IF BureauAccepts(Here, officeCalls[i]) /\ ~taken THEN Apply(Here, officeCalls[i])
           ELSE UNCHANGED bureau
        /\ officeCalls' = [officeCalls EXCEPT ![i].stage =
                              IF BureauAccepts(Here, officeCalls[i]) /\ ~taken THEN "served" ELSE "refused"]
        /\ UNCHANGED <<officePage, officeReads, officeDone, bureauMode>>
  BY DEF BureauServe
<1>2. officeCalls \in Seq(BureauCall) /\ officeCalls[i] \in BureauCall /\ BureauFine(officeCalls[i])
  BY <1>1 DEF BureauInv, BureauTypeOK
<1> DEFINE ok == BureauAccepts(Here, officeCalls[i]) /\ ~taken
           next == [officeCalls[i] EXCEPT !.stage = IF ok THEN "served" ELSE "refused"]
<1>3. next \in BureauCall
  BY <1>2 DEF BureauCall
<1>4. /\ officeCalls' \in Seq(BureauCall) /\ DOMAIN officeCalls' = DOMAIN officeCalls
      /\ \A j \in DOMAIN officeCalls \ {i} : officeCalls'[j] = officeCalls[j]
      /\ officeCalls'[i] = next
  <2>1. officeCalls' = [officeCalls EXCEPT ![i] = next]
    BY <1>1, <1>2
  <2> QED  BY <1>2, <1>3, <2>1
<1>5. \A j \in DOMAIN officeCalls' : BureauFine(officeCalls[j])'
  BY <1>1, <1>2, <1>4 DEF BureauInv, BureauFine, BureauCall
<1>6. /\ offices' \in [BureauOffices -> Office] /\ BureauForest'
      /\ staff' \in [BureauStaff -> {"pending", "active"}] /\ audits' \subseteq BureauKinds
  <2>1. CASE ok
    <3>1. BureauTypeOK /\ BureauForest /\ Here \in BureauOffices /\ Apply(Here, officeCalls[i])
      BY <1>1, <2>1 DEF BureauInv, BureauAssumptions
    <3> QED  BY <1>2, <2>1, <3>1, Typed, WrittenForest
  <2>2. CASE ~ok
    <3>1. UNCHANGED <<offices, staff, audits>>
      BY <1>1, <2>2 DEF bureau
    <3> QED  BY <3>1 DEF BureauInv, BureauTypeOK, BureauForest, BureauDescendants, BureauChildren
  <2> QED  BY <2>1, <2>2
<1>7. BureauTypeOK'
  BY <1>1, <1>4, <1>6 DEF BureauInv, BureauTypeOK
<1>8. officePage'.nr <= officeReads'
  BY <1>1 DEF BureauInv
<1>9. CASE ok /\ officeCalls[i].kind \notin {"load", "options"}
  <2>1. ~BureauNoneServed'
    BY <1>2, <1>4, <1>9 DEF BureauNoneServed, BureauCall
  <2> QED  BY <1>5, <1>6, <1>7, <1>8, <2>1 DEF BureauInv
<1>10. CASE ~(ok /\ officeCalls[i].kind \notin {"load", "options"})
  <2>1. UNCHANGED <<offices, staff, audits>>
    <3>1. CASE ok
      <4>1. Written(Here, officeCalls[i]) = offices[Here]
        BY <1>10, <3>1 DEF Written
      <4> QED  BY <1>1, <1>10, <3>1, <4>1 DEF Apply, BureauInv, BureauTypeOK
    <3> QED  BY <1>1, <3>1 DEF bureau
  <2>2. BureauNoneServed' => BureauNoneServed
    BY <1>1, <1>4 DEF BureauNoneServed
  <2>3. TheDetail' = TheDetail
    BY <2>1 DEF TheDetail, BureauChildren
  <2>4. \A j \in DOMAIN officeCalls' : officeCalls'[j].stage = "read" => officeCalls'[j] = officeCalls[j]
    BY <1>2, <1>4 DEF BureauCall
  <2> QED  BY <1>1, <1>4, <1>5, <1>6, <1>7, <1>8, <2>2, <2>3, <2>4 DEF BureauInv, BureauLatest
<1> QED  BY <1>9, <1>10

LEMMA BureauReadDetailStep ==
  ASSUME BureauAssumptions, BureauInv, BureauReadDetail
  PROVE  BureauInv'
<1>1. PICK i \in DOMAIN officeCalls :
        /\ officeCalls[i].stage = "served"
        /\ IF officeCalls[i].kind = "options"
           THEN /\ officeCalls' = [officeCalls EXCEPT ![i].stage = "read",
                                                     ![i].options = ParentOptions]
                /\ UNCHANGED officeReads
           ELSE /\ officeCalls' = [officeCalls EXCEPT ![i].stage = "read",
                                                     ![i].answer = TheDetail,
                                                     ![i].nr = officeReads + 1]
                /\ officeReads' = officeReads + 1
        /\ UNCHANGED <<bureau, officePage, officeDone, bureauMode>>
  BY DEF BureauReadDetail
<1>2. /\ officeCalls \in Seq(BureauCall) /\ officeCalls[i] \in BureauCall /\ officeReads \in Nat
      /\ \A j \in DOMAIN officeCalls : officeCalls[j] \in BureauCall
  BY <1>1 DEF BureauInv, BureauTypeOK
<1>3. UNCHANGED <<offices, staff, audits>> /\ TheDetail' = TheDetail /\ BureauForest'
  BY <1>1 DEF bureau, TheDetail, BureauChildren, BureauInv, BureauForest, BureauDescendants
<1>4. officePage.nr \in Nat /\ officePage.nr <= officeReads
  BY DEF BureauInv, BureauTypeOK, BureauPage
<1>5. CASE officeCalls[i].kind = "options"
  <2> DEFINE answer == [officeCalls[i] EXCEPT !.stage = "read", !.options = ParentOptions]
  <2>1. answer \in BureauCall
    BY <1>2 DEF BureauCall, ParentOptions
  <2>2. officeCalls' = [officeCalls EXCEPT ![i] = answer]
    BY <1>1, <1>2, <1>5
  <2>3. /\ officeCalls' \in Seq(BureauCall) /\ DOMAIN officeCalls' = DOMAIN officeCalls
        /\ \A j \in DOMAIN officeCalls \ {i} : officeCalls'[j] = officeCalls[j]
        /\ officeCalls'[i] = answer
    BY <1>2, <2>1, <2>2
  <2>4. /\ answer.kind = "options" /\ answer.stage = "read" /\ answer.who = officeCalls[i].who
        /\ answer.nr = officeCalls[i].nr
    BY <1>2, <1>5 DEF BureauCall
  <2> HIDE DEF answer
  <2>5. \A j \in DOMAIN officeCalls' : BureauFine(officeCalls[j])'
    BY <1>1, <1>5, <2>3, <2>4 DEF BureauInv, BureauFine
  <2>6. BureauNoneServed' => BureauNoneServed
    BY <1>5, <2>3 DEF BureauNoneServed
  <2>7. BureauTypeOK'
    BY <1>1, <1>3, <1>5, <2>3 DEF BureauInv, BureauTypeOK
  <2> QED
    <3>1. officePage' = officePage /\ officeReads' = officeReads
      BY <1>1, <1>5
    <3>2. \A j \in DOMAIN officeCalls' : officeCalls'[j].kind # "options" => officeCalls'[j] = officeCalls[j]
      BY <2>3, <2>4
    <3> QED  BY <1>3, <2>3, <2>5, <2>6, <2>7, <3>1, <3>2 DEF BureauInv, BureauLatest
<1>6. CASE officeCalls[i].kind # "options"
  <2>0. officeReads' = officeReads + 1
    BY <1>1, <1>6
  <2> DEFINE answer == [officeCalls[i] EXCEPT !.stage = "read", !.answer = TheDetail,
                                              !.nr = officeReads + 1]
  <2>1. answer \in BureauCall
    <3>1. officeReads + 1 \in Nat /\ TheDetail \in Detail
      BY <1>2, DetailTyped DEF BureauInv, BureauAssumptions
    <3> QED  BY <1>2, <3>1 DEF BureauCall
  <2>2. officeCalls' = [officeCalls EXCEPT ![i] = answer]
    BY <1>1, <1>2, <1>6
  <2>3. /\ officeCalls' \in Seq(BureauCall) /\ DOMAIN officeCalls' = DOMAIN officeCalls
        /\ \A j \in DOMAIN officeCalls \ {i} : officeCalls'[j] = officeCalls[j]
        /\ officeCalls'[i] = answer
    BY <1>2, <2>1, <2>2
  <2>4. /\ answer.kind = officeCalls[i].kind /\ answer.stage = "read"
        /\ answer.who = officeCalls[i].who /\ answer.nr = officeReads + 1 /\ answer.answer = TheDetail
    BY <1>2 DEF BureauCall
  <2> HIDE DEF answer
  <2>5. \A j \in DOMAIN officeCalls : officeCalls[j].nr \in Nat
    BY <1>2 DEF BureauCall
  <2>6. \A j \in DOMAIN officeCalls' : BureauFine(officeCalls[j])'
    <3>1. \A j \in DOMAIN officeCalls : officeCalls[j].nr <= officeReads + 1
      BY <1>2, <2>5 DEF BureauInv, BureauFine
    <3>2. BureauFine(officeCalls[i])'
      BY <1>2, <2>0, <2>3, <2>4 DEF BureauInv, BureauFine
    <3>3. \A j \in DOMAIN officeCalls \ {i} : BureauFine(officeCalls[j])'
      BY <2>0, <2>3, <3>1 DEF BureauInv, BureauFine
    <3> QED  BY <2>3, <3>2, <3>3
  <2>7. officePage'.nr <= officeReads' /\ officePage'.nr # officeReads'
    BY <1>1, <1>2, <1>4, <1>6
  <2>8. BureauTypeOK'
    BY <1>1, <1>2, <1>3, <1>6, <2>3 DEF BureauInv, BureauTypeOK
  <2>9. \A j \in DOMAIN officeCalls' : BureauLatest(officeCalls[j].answer, officeCalls[j].nr, officeCalls[j].doubt)'
    <3>1. \A j \in DOMAIN officeCalls \ {i} : officeCalls'[j].nr # officeReads'
      BY <1>1, <1>2, <1>6, <2>3, <2>5 DEF BureauInv, BureauFine
    <3> QED  BY <1>3, <2>3, <2>4, <3>1 DEF BureauLatest
  <2> QED  BY <1>3, <2>6, <2>7, <2>8, <2>9 DEF BureauInv, BureauLatest
<1> QED  BY <1>5, <1>6

----------------------------------------------------------------------------
(* The page *)

\* What the page shows is what it showed, or what it has been answered.
BureauLooked ==
  \/ officePage'.doubt /\ officePage'.nr = officePage.nr
  \/ officePage'.seen = officePage.seen /\ officePage'.nr = officePage.nr /\ officePage'.doubt = officePage.doubt
  \/ \E i \in DOMAIN officeCalls :
       /\ officeCalls[i].stage = "read" /\ officeCalls[i].kind # "options"
       /\ officePage'.seen = officeCalls[i].answer /\ officePage'.nr = officeCalls[i].nr
       /\ officePage'.doubt = officeCalls[i].doubt

\* As long as the server stands still nothing that was told becomes untrue.
LEMMA BureauPageStep ==
  ASSUME BureauInv, UNCHANGED <<bureau, officeReads, bureauMode>>, officeDone' \in 0 .. OfficeMaxOps[bureauMode],
         officePage' \in BureauPage, BureauLooked, officeCalls' \in Seq(BureauCall),
         \A j \in DOMAIN officeCalls' :
           \/ \E i \in DOMAIN officeCalls : officeCalls'[j] = officeCalls[i]
           \/ BureauFine(officeCalls'[j]) /\ officeCalls'[j].stage = "sent",
         BureauNoneServed' => BureauNoneServed
  PROVE  BureauInv'
<1>1. UNCHANGED <<offices, staff, audits>> /\ TheDetail' = TheDetail /\ BureauForest'
  <2>1. UNCHANGED <<offices, staff, audits>>
    BY DEF bureau
  <2>2. TheDetail' = TheDetail
    BY <2>1 DEF TheDetail, BureauChildren
  <2>3. BureauForest <=> BureauForest'
    BY <2>1 DEF BureauForest, BureauDescendants, BureauChildren
  <2> QED  BY <2>1, <2>2, <2>3 DEF BureauInv
<1>2. BureauTypeOK'
  BY <1>1 DEF BureauInv, BureauTypeOK
<1>3. \A j \in DOMAIN officeCalls' : BureauFine(officeCalls[j])'
  BY DEF BureauInv, BureauFine
<1>4. officePage'.nr <= officeReads'
  BY DEF BureauInv, BureauLooked, BureauFine
<1>5. ASSUME BureauNoneServed', officePage'.seen # Nil
      PROVE  BureauLatest(officePage.seen, officePage.nr, officePage.doubt)'
  BY <1>1, <1>5 DEF BureauInv, BureauLooked, BureauLatest
<1>6. ASSUME BureauNoneServed', NEW j \in DOMAIN officeCalls', officeCalls'[j].stage = "read",
             officeCalls'[j].kind # "options"
      PROVE  BureauLatest(officeCalls[j].answer, officeCalls[j].nr, officeCalls[j].doubt)'
  BY <1>1, <1>6 DEF BureauInv, BureauLatest
<1> QED  BY <1>1, <1>2, <1>3, <1>4, <1>5, <1>6 DEF BureauInv

LEMMA BureauSentCall ==
  ASSUME BureauInv, NEW kind \in BureauKinds
  PROVE  /\ BureauSent(kind) \in BureauCall /\ BureauSent(kind).stage = "sent" /\ BureauSent(kind).kind = kind
         /\ BureauSent(kind).nr = 0 /\ 0 <= officeReads
BY DEF BureauSent, BureauCall, Levels, BureauInv, BureauTypeOK

LEMMA BureauCallEnds ==
  ASSUME BureauInv, NEW i \in DOMAIN officeCalls, officeCalls[i].stage # "served"
  PROVE  /\ RemoveAt(officeCalls, i) \in Seq(BureauCall)
         /\ \A j \in DOMAIN RemoveAt(officeCalls, i) :
              \E k \in DOMAIN officeCalls : RemoveAt(officeCalls, i)[j] = officeCalls[k]
         /\ \A k \in DOMAIN officeCalls \ {i} :
              \E j \in DOMAIN RemoveAt(officeCalls, i) : RemoveAt(officeCalls, i)[j] = officeCalls[k]
         /\ officeCalls' = RemoveAt(officeCalls, i) => (BureauNoneServed' => BureauNoneServed)
<1>1. officeCalls \in Seq(BureauCall)
  BY DEF BureauInv, BureauTypeOK
<1>2. /\ RemoveAt(officeCalls, i) \in Seq(BureauCall)
      /\ \A j \in DOMAIN RemoveAt(officeCalls, i) :
           /\ Before(i, j) \in DOMAIN officeCalls
           /\ RemoveAt(officeCalls, i)[j] = officeCalls[Before(i, j)]
  BY <1>1, RemovedAt
<1>3. \A k \in DOMAIN officeCalls \ {i} :
        \E j \in DOMAIN RemoveAt(officeCalls, i) : RemoveAt(officeCalls, i)[j] = officeCalls[k]
  BY <1>1, RestKept
<1>4. officeCalls' = RemoveAt(officeCalls, i) => (BureauNoneServed' => BureauNoneServed)
  BY <1>3 DEF BureauNoneServed
<1> QED  BY <1>2, <1>3, <1>4

\* A request has come to its end, and the page has asked for more.
LEMMA CallFollowed ==
  ASSUME BureauInv, NEW i \in DOMAIN officeCalls, officeCalls[i].stage # "served",
         NEW kind \in {"load", "options"},
         officeCalls' = Append(RemoveAt(officeCalls, i), BureauSent(kind))
  PROVE  /\ officeCalls' \in Seq(BureauCall)
         /\ \A j \in DOMAIN officeCalls' :
              \/ \E k \in DOMAIN officeCalls : officeCalls'[j] = officeCalls[k]
              \/ BureauFine(officeCalls'[j]) /\ officeCalls'[j].stage = "sent"
         /\ BureauNoneServed' => BureauNoneServed
<1> DEFINE rest == RemoveAt(officeCalls, i)
           new == BureauSent(kind)
<1>1. new \in BureauCall /\ BureauFine(new) /\ new.stage = "sent"
  BY BureauSentCall DEF BureauKinds, BureauFine
<1>2. /\ rest \in Seq(BureauCall)
      /\ \A j \in DOMAIN rest : \E k \in DOMAIN officeCalls : rest[j] = officeCalls[k]
      /\ \A k \in DOMAIN officeCalls \ {i} : \E j \in DOMAIN rest : rest[j] = officeCalls[k]
      /\ officeCalls' = Append(rest, new)
  BY BureauCallEnds
<1> HIDE DEF rest, new
<1>3. /\ officeCalls' \in Seq(BureauCall)
      /\ \A j \in DOMAIN officeCalls' :
           \/ j \in DOMAIN rest /\ officeCalls'[j] = rest[j]
           \/ officeCalls'[j] = new
      /\ \A k \in DOMAIN rest : k \in DOMAIN officeCalls' /\ officeCalls'[k] = rest[k]
  BY <1>1, <1>2, Appended
<1>4. BureauNoneServed' => BureauNoneServed
  BY <1>2, <1>3 DEF BureauNoneServed
<1> QED  BY <1>1, <1>2, <1>3, <1>4

LEMMA EndedPage ==
  ASSUME officePage \in BureauPage, NEW c \in BureauCall
  PROVE  /\ Ended(c) \in BureauPage /\ Ended(c).nr = officePage.nr
         /\ Ended(c).doubt = officePage.doubt /\ Ended(c).seen = officePage.seen
         /\ Ended(c).at = officePage.at /\ Ended(c).options = officePage.options
         /\ Ended(c).loading = (officePage.loading /\ c.kind # "options")
BY DEF Ended, BureauPage

LEMMA BureauClosedPage ==
  ASSUME officePage \in BureauPage, NEW c \in BureauCall
  PROVE  /\ BureauClosed(c) \in BureauPage /\ BureauClosed(c).at = officePage.at
         /\ BureauClosed(c).options = officePage.options
         /\ c.kind # "options" => BureauClosed(c).loading = officePage.loading
BY EndedPage DEF BureauClosed, BureauPage

LEMMA ShownPage ==
  ASSUME officePage \in BureauPage, NEW c \in BureauCall
  PROVE  /\ BureauShow(c) \in BureauPage /\ BureauShow(c).seen = c.answer /\ BureauShow(c).nr = c.nr
         /\ BureauShow(c).doubt = c.doubt /\ BureauShow(c).at = officePage.at
         /\ BureauShow(c).options = officePage.options
         /\ c.kind # "options" => BureauShow(c).loading = officePage.loading
<1>1. c.answer \in Detail \cup {Nil} /\ c.nr \in Nat /\ c.doubt \in BOOLEAN
  BY DEF BureauCall
<1> QED  BY <1>1, BureauClosedPage DEF BureauShow, BureauPage

LEMMA BureauAnswerStep ==
  ASSUME BureauInv, BureauAnswer
  PROVE  BureauInv'
<1>1. PICK i \in DOMAIN officeCalls :
        /\ officeCalls[i].stage = "read"
        /\ CASE officeCalls[i].kind = "create" ->
                  /\ officePage' = [officePage EXCEPT !.at = "detail", !.loading = TRUE]
                  /\ officeCalls' = Append(RemoveAt(officeCalls, i), BureauSent("load"))
             [] officeCalls[i].kind = "load" ->
                  officePage' = BureauShow(officeCalls[i]) /\ officeCalls' = Append(RemoveAt(officeCalls, i), BureauSent("options"))
             [] officeCalls[i].kind = "options" ->
                  officePage' = [Ended(officeCalls[i]) EXCEPT !.options = officeCalls[i].options]
                  /\ officeCalls' = RemoveAt(officeCalls, i)
             [] OTHER -> officePage' = BureauShow(officeCalls[i]) /\ officeCalls' = RemoveAt(officeCalls, i)
        /\ UNCHANGED <<bureau, officeReads, officeDone, bureauMode>>
  BY DEF BureauAnswer
<1>2. officeCalls[i] \in BureauCall /\ officePage \in BureauPage /\ officeDone' \in 0 .. OfficeMaxOps[bureauMode]
  BY <1>1 DEF BureauInv, BureauTypeOK
<1>3. ASSUME officeCalls[i].kind = "create" PROVE BureauInv'
  <2>1. officePage' \in BureauPage /\ BureauLooked
    BY <1>1, <1>2, <1>3 DEF BureauPage, BureauLooked
  <2>2. officeCalls' = Append(RemoveAt(officeCalls, i), BureauSent("load"))
    BY <1>1, <1>3
  <2> QED  BY <1>1, <1>2, <2>1, <2>2, CallFollowed, BureauPageStep
<1>4. ASSUME officeCalls[i].kind = "load" PROVE BureauInv'
  <2>1. /\ officePage' = BureauShow(officeCalls[i])
        /\ officeCalls' = Append(RemoveAt(officeCalls, i), BureauSent("options"))
    BY <1>1, <1>4
  <2>2. officePage' \in BureauPage /\ BureauLooked
    BY <1>1, <1>2, <1>4, <2>1, ShownPage DEF BureauLooked
  <2> QED  BY <1>1, <1>2, <2>1, <2>2, CallFollowed, BureauPageStep
<1>5. ASSUME officeCalls[i].kind = "options" PROVE BureauInv'
  <2>1. /\ officePage' = [Ended(officeCalls[i]) EXCEPT !.options = officeCalls[i].options]
        /\ officeCalls' = RemoveAt(officeCalls, i)
    BY <1>1, <1>5
  <2>2. officeCalls[i].options \in SUBSET BureauOffices
    BY <1>2 DEF BureauCall
  <2>3. officePage' \in BureauPage /\ BureauLooked
    BY <1>2, <2>1, <2>2, EndedPage DEF BureauPage, BureauLooked
  <2> QED  BY <1>1, <1>2, <2>1, <2>3, BureauCallEnds, BureauPageStep
<1>6. ASSUME officeCalls[i].kind \notin {"create", "load", "options"} PROVE BureauInv'
  <2>1. officePage' = BureauShow(officeCalls[i]) /\ officeCalls' = RemoveAt(officeCalls, i)
    BY <1>1, <1>6
  <2>2. officePage' \in BureauPage /\ BureauLooked
    BY <1>1, <1>2, <1>6, <2>1, ShownPage DEF BureauLooked
  <2> QED  BY <1>1, <1>2, <2>1, <2>2, BureauCallEnds, BureauPageStep
<1> QED  BY <1>3, <1>4, <1>5, <1>6

LEMMA FailedPage ==
  ASSUME officePage \in BureauPage, NEW c \in BureauCall
  PROVE  /\ Failed(c) \in BureauPage /\ Failed(c).nr = officePage.nr
         /\ Failed(c).doubt = officePage.doubt /\ Failed(c).seen = officePage.seen
         /\ Failed(c).at = officePage.at /\ Failed(c).options = officePage.options
         /\ ~Failed(c).loading
BY EndedPage DEF Failed, BureauPage

LEMMA BureauRefuseStep ==
  ASSUME BureauInv, BureauRefuse
  PROVE  BureauInv'
<1>1. PICK i \in DOMAIN officeCalls :
        /\ officeCalls[i].stage = "refused"
        /\ officePage' = Failed(officeCalls[i]) /\ officeCalls' = RemoveAt(officeCalls, i)
        /\ UNCHANGED <<bureau, officeReads, officeDone, bureauMode>>
  BY DEF BureauRefuse
<1>2. officeCalls[i] \in BureauCall /\ officePage \in BureauPage /\ officeDone' \in 0 .. OfficeMaxOps[bureauMode]
  BY <1>1 DEF BureauInv, BureauTypeOK
<1>3. officePage' \in BureauPage /\ BureauLooked
  BY <1>1, <1>2, FailedPage DEF BureauLooked
<1> QED  BY <1>1, <1>2, <1>3, BureauCallEnds, BureauPageStep

LEMMA BureauLoseStep ==
  ASSUME BureauInv, BureauLose
  PROVE  BureauInv'
<1>1. PICK i \in DOMAIN officeCalls :
        /\ officeCalls[i].stage \in {"sent", "read"}
        /\ officePage' = [Failed(officeCalls[i]) EXCEPT !.doubt = @ \/ officeCalls[i].kind # "options"]
        /\ officeCalls' = RemoveAt(officeCalls, i)
        /\ UNCHANGED <<bureau, officeReads, officeDone, bureauMode>>
  BY DEF BureauLose
<1>2. officeCalls[i] \in BureauCall /\ officePage \in BureauPage /\ officeDone' \in 0 .. OfficeMaxOps[bureauMode]
  BY <1>1 DEF BureauInv, BureauTypeOK
<1>3. officePage' \in BureauPage /\ BureauLooked
  BY <1>1, <1>2, FailedPage DEF BureauLooked, BureauPage
<1> QED  BY <1>1, <1>2, <1>3, BureauCallEnds, BureauPageStep

----------------------------------------------------------------------------
(* What the user does *)

LEMMA BureauActs ==
  ASSUME BureauAssumptions, BureauInv, BureauUserActs
  PROVE  UNCHANGED <<bureau, officeReads, bureauMode>> /\ officeDone' \in 0 .. OfficeMaxOps[bureauMode]
<1>1. /\ UNCHANGED <<bureau, officeReads, bureauMode>> /\ officeDone < OfficeMaxOps[bureauMode] /\ officeDone' = officeDone + 1
  BY DEF BureauUserActs
<1>2. officeDone \in 0 .. OfficeMaxOps[bureauMode] /\ OfficeMaxOps[bureauMode] \in Nat
  BY DEF BureauInv, BureauTypeOK, BureauAssumptions
<1> QED  BY <1>1, <1>2

LEMMA BureauSubmitStep ==
  ASSUME BureauAssumptions, BureauInv, NEW c \in BureauCall, BureauFine(c), c.stage = "sent", BureauSubmit(c),
         officePage' \in BureauPage, officePage'.seen = officePage.seen, officePage'.nr = officePage.nr,
         officePage'.doubt = officePage.doubt
  PROVE  BureauInv'
<1>1. BureauUserActs /\ officeCalls' = Append(officeCalls, c) /\ officeCalls \in Seq(BureauCall) /\ BureauLooked
  BY DEF BureauSubmit, BureauInv, BureauTypeOK, BureauLooked
<1>2. /\ officeCalls' \in Seq(BureauCall)
      /\ \A j \in DOMAIN officeCalls' :
           \/ j \in DOMAIN officeCalls /\ officeCalls'[j] = officeCalls[j]
           \/ officeCalls'[j] = c
      /\ \A k \in DOMAIN officeCalls : k \in DOMAIN officeCalls' /\ officeCalls'[k] = officeCalls[k]
  BY <1>1, Appended
<1>3. BureauNoneServed' => BureauNoneServed
  BY <1>2 DEF BureauNoneServed
<1> QED  BY <1>1, <1>2, <1>3, BureauActs, BureauPageStep

LEMMA BureauOpenStep ==
  ASSUME BureauAssumptions, BureauInv, OpenForm \/ CloseModal \/ BureauOpenDialog
  PROVE  BureauInv'
<1>1. BureauUserActs /\ officeCalls' = officeCalls
  BY DEF OpenForm, CloseModal, BureauOpenDialog
<1>2. FormParent \in BureauOffices \cup {Nil}
  BY DEF FormParent, BureauInv, BureauTypeOK, BureauPage
<1>p. officePage \in BureauPage
  BY DEF BureauInv, BureauTypeOK
<1>3. officePage' \in BureauPage /\ BureauLooked
  <2>1. CASE OpenForm
    BY <1>2, <1>p, <2>1 DEF OpenForm, BureauPage, BureauLooked
  <2>2. CASE CloseModal
    BY <1>p, <2>2 DEF CloseModal, BureauPage, BureauLooked
  <2>3. CASE BureauOpenDialog
    BY <1>p, <2>3 DEF BureauOpenDialog, BureauPage, BureauLooked
  <2> QED  BY <2>1, <2>2, <2>3
<1>4. officeCalls' \in Seq(BureauCall) /\ (BureauNoneServed' => BureauNoneServed)
  BY <1>1 DEF BureauInv, BureauTypeOK, BureauNoneServed
<1> QED  BY <1>1, <1>3, <1>4, BureauActs, BureauPageStep

LEMMA BureauRequestStep ==
  ASSUME BureauAssumptions, BureauInv,
         CreateOffice \/ BureauRetry \/ SaveOffice \/ BureauApplyLifecycle \/ BureauApproveStaff
  PROVE  BureauInv'
<1> USE DEF BureauKinds
<1>p. officePage \in BureauPage
  BY DEF BureauInv, BureauTypeOK
<1>1. ASSUME CreateOffice PROVE BureauInv'
  <2>1. /\ officePage' \in BureauPage /\ officePage'.seen = officePage.seen /\ officePage'.nr = officePage.nr
        /\ officePage'.doubt = officePage.doubt
    BY <1>1, <1>p DEF CreateOffice, BureauPage
  <2> QED  BY <1>1, <2>1, BureauSentCall, BureauSubmitStep DEF CreateOffice, BureauFine
<1>2. ASSUME BureauRetry PROVE BureauInv'
  <2>1. /\ officePage' \in BureauPage /\ officePage'.seen = officePage.seen /\ officePage'.nr = officePage.nr
        /\ officePage'.doubt = officePage.doubt
    BY <1>2, <1>p DEF BureauRetry, BureauPage
  <2> QED  BY <1>2, <2>1, BureauSentCall, BureauSubmitStep DEF BureauRetry, BureauFine
<1>3. ASSUME SaveOffice PROVE BureauInv'
  <2>1. /\ officePage' \in BureauPage /\ officePage'.seen = officePage.seen /\ officePage'.nr = officePage.nr
        /\ officePage'.doubt = officePage.doubt
    BY <1>3, <1>p DEF SaveOffice, BureauPage
  <2>2. PICK p \in {officePage.form.parent, Nil} \cup officePage.options, l \in Levels :
          officePage.form # Nil /\ BureauSubmit([BureauSent("save") EXCEPT !.parent = p, !.level = l])
    BY <1>3 DEF SaveOffice
  <2> DEFINE c == [BureauSent("save") EXCEPT !.parent = p, !.level = l]
  <2>3. p \in BureauOffices \cup {Nil}
    BY <1>p, <2>2 DEF BureauPage
  <2>4. c \in BureauCall /\ BureauFine(c) /\ c.stage = "sent"
    BY <2>2, <2>3, BureauSentCall DEF BureauCall, BureauFine
  <2> QED  BY <2>1, <2>2, <2>4, BureauSubmitStep
<1>4. ASSUME BureauApplyLifecycle PROVE BureauInv'
  <2>1. /\ officePage' \in BureauPage /\ officePage'.seen = officePage.seen /\ officePage'.nr = officePage.nr
        /\ officePage'.doubt = officePage.doubt
    BY <1>4, <1>p DEF BureauApplyLifecycle, BureauPage
  <2>2. officePage.dialog \in {"archive", "reactivate"} /\ BureauSubmit(OfLevel(officePage.dialog))
    BY <1>4, <1>p DEF BureauApplyLifecycle, BureauPage
  <2>3. /\ OfLevel(officePage.dialog) \in BureauCall /\ BureauFine(OfLevel(officePage.dialog))
        /\ OfLevel(officePage.dialog).stage = "sent"
    <3>1. /\ BureauSent(officePage.dialog) \in BureauCall /\ BureauSent(officePage.dialog).nr = 0 /\ 0 <= officeReads
          /\ BureauSent(officePage.dialog).kind = officePage.dialog /\ BureauSent(officePage.dialog).stage = "sent"
      BY <2>2, BureauSentCall
    <3> QED  BY <2>2, <3>1 DEF OfLevel, BureauCall, BureauFine
  <2> QED  BY <2>1, <2>2, <2>3, BureauSubmitStep
<1>5. ASSUME BureauApproveStaff PROVE BureauInv'
  <2>1. PICK s \in BureauStaff : /\ BureauSubmit([BureauSent("approve") EXCEPT !.who = s])
                                 /\ officePage' = [officePage EXCEPT !.approving = s, !.error = FALSE]
    BY <1>5 DEF BureauApproveStaff
  <2>2. /\ officePage' \in BureauPage /\ officePage'.seen = officePage.seen /\ officePage'.nr = officePage.nr
        /\ officePage'.doubt = officePage.doubt
    BY <2>1, <1>p DEF BureauPage
  <2> DEFINE c == [BureauSent("approve") EXCEPT !.who = s]
  <2>3. c \in BureauCall /\ BureauFine(c) /\ c.stage = "sent"
    BY BureauSentCall DEF BureauCall, BureauFine
  <2> QED  BY <2>1, <2>2, <2>3, BureauSubmitStep
<1> QED  BY <1>1, <1>2, <1>3, <1>4, <1>5

LEMMA BureauOthersActStep ==
  ASSUME BureauAssumptions, BureauInv, BureauOthersAct
  PROVE  BureauInv'
<1>1. PICK o \in BureauOffices, kind \in {"save", "archive", "reactivate", "approve"},
           p \in BureauOffices \cup {Nil}, s \in BureauStaff :
        LET c == [BureauSent(kind) EXCEPT !.parent = p, !.level = offices[o].level, !.who = s] IN
        BureauAccepts(o, c) /\ Apply(o, c)
  BY DEF BureauOthersAct
<1> DEFINE c == [BureauSent(kind) EXCEPT !.parent = p, !.level = offices[o].level, !.who = s]
<1>2. c \in BureauCall /\ BureauFine(c)
  <2>1. offices[o].level \in Levels
    BY DEF BureauInv, BureauTypeOK, Office
  <2>2. /\ BureauSent(kind) \in BureauCall /\ BureauSent(kind).nr = 0 /\ 0 <= officeReads
    BY BureauSentCall DEF BureauKinds
  <2> QED  BY <2>1, <2>2 DEF BureauCall, BureauFine
<1>3. BureauAccepts(o, c) /\ Apply(o, c)
  BY <1>1
<1> HIDE DEF c
<1>4. /\ offices' \in [BureauOffices -> Office] /\ BureauForest'
      /\ staff' \in [BureauStaff -> {"pending", "active"}] /\ audits' \subseteq BureauKinds
  BY <1>2, <1>3, Typed, WrittenForest DEF BureauInv
<1>5. /\ officePage' = [officePage EXCEPT !.doubt = TRUE]
      /\ officeCalls' = [i \in DOMAIN officeCalls |->
                           [officeCalls[i] EXCEPT !.doubt = officeCalls[i].stage = "read"]]
      /\ UNCHANGED <<officeReads, bureauMode>> /\ officeDone' \in 0 .. OfficeMaxOps[bureauMode]
      /\ officeCalls \in Seq(BureauCall)
  BY DEF BureauOthersAct, BureauInv, BureauTypeOK, BureauAssumptions
<1>6. \A i \in DOMAIN officeCalls :
        /\ officeCalls'[i] \in BureauCall /\ BureauFine(officeCalls'[i])
        /\ officeCalls'[i].stage = "read" => officeCalls'[i].doubt
  <2> SUFFICES ASSUME NEW i \in DOMAIN officeCalls
               PROVE  /\ officeCalls'[i] \in BureauCall /\ BureauFine(officeCalls'[i])
                      /\ officeCalls'[i].stage = "read" => officeCalls'[i].doubt
    OBVIOUS
  <2>1. officeCalls[i] \in BureauCall /\ BureauFine(officeCalls[i])
    BY <1>5 DEF BureauInv
  <2> QED  BY <1>5, <2>1 DEF BureauCall, BureauFine
<1>7. officeCalls' \in Seq(BureauCall) /\ DOMAIN officeCalls' = DOMAIN officeCalls
  <2>1. officeCalls' = [i \in DOMAIN officeCalls |-> officeCalls'[i]]
    BY <1>5
  <2>2. \A i \in DOMAIN officeCalls : officeCalls'[i] \in BureauCall
    BY <1>6
  <2> QED  BY <1>5, <2>1, <2>2, Mapped
<1>8. officePage' \in BureauPage /\ officePage'.doubt /\ officePage'.nr = officePage.nr
  BY <1>5 DEF BureauInv, BureauTypeOK, BureauPage
<1>9. BureauTypeOK'
  BY <1>4, <1>5, <1>7, <1>8 DEF BureauInv, BureauTypeOK
<1>10. \A i \in DOMAIN officeCalls' : BureauFine(officeCalls[i])'
  BY <1>5, <1>6, <1>7 DEF BureauFine
<1> QED  BY <1>4, <1>5, <1>6, <1>7, <1>8, <1>9, <1>10 DEF BureauInv, BureauLatest

LEMMA BureauStart == ASSUME BureauAssumptions, BureauInit PROVE BureauInv
<1> DEFINE new == offices[Here].status = "absent"
<1>1. /\ offices \in Hierarchies /\ staff \in [BureauStaff -> {"pending", "active"}]
      /\ audits = {} /\ officeReads = 0 /\ officeDone = 0 /\ bureauMode \in PageModes
      /\ officePage = [at |-> IF new THEN "new" ELSE "detail", loading |-> ~new,
                       seen |-> Nil, options |-> {}, form |-> Nil, dialog |-> Nil,
                       approving |-> Nil, error |-> FALSE, nr |-> 0, doubt |-> FALSE]
      /\ officeCalls = IF new THEN <<>> ELSE <<BureauSent("load")>>
  BY DEF BureauInit
<1>2. officePage \in BureauPage /\ officePage.seen = Nil /\ officePage.nr = 0
  BY <1>1 DEF BureauPage
<1>3. /\ BureauSent("load") \in BureauCall /\ BureauFine(BureauSent("load")) /\ BureauSent("load").stage = "sent"
  BY <1>1 DEF BureauSent, BureauCall, BureauKinds, BureauFine, Levels
<1>4. officeCalls \in Seq(BureauCall) /\ \A i \in DOMAIN officeCalls : officeCalls[i] = BureauSent("load")
  BY <1>1, <1>3
<1>5. officeDone \in 0 .. OfficeMaxOps[bureauMode]
  BY <1>1 DEF BureauAssumptions
<1>6. BureauTypeOK
  BY <1>1, <1>2, <1>4, <1>5 DEF BureauTypeOK, Hierarchies
<1>7. BureauForest
  <2>1. PICK above \in [BureauOffices -> 1 .. Cardinality(BureauOffices)] :
          \A o \in BureauOffices : offices[o].parent # Nil => above[offices[o].parent] < above[o]
    BY <1>1 DEF Hierarchies
  <2> SUFFICES ASSUME NEW o \in BureauOffices PROVE o \notin BureauDescendants(o)
    BY DEF BureauForest
  <2> DEFINE D == {x \in BureauOffices : above[o] < above[x]}
  <2>2. \A x \in BureauOffices : above[x] \in Int
    BY <2>1
  <2>3. \A x \in BureauOffices : \A y \in BureauChildren(x) : y \in BureauOffices /\ above[x] < above[y]
    BY <2>1 DEF BureauChildren, BureauAssumptions
  <2>4. BureauChildren(o) \subseteq D /\ \A x \in D : BureauChildren(x) \subseteq D
    BY <2>2, <2>3
  <2>5. o \notin D
    BY <2>2
  <2> HIDE DEF D
  <2>6. D \in SUBSET BureauOffices
    BY DEF D
  <2> QED  BY <2>4, <2>5, <2>6, LeastDescendants
<1> QED  BY <1>1, <1>2, <1>3, <1>4, <1>6, <1>7 DEF BureauInv

LEMMA BureauStep == ASSUME BureauAssumptions, BureauInv, [BureauNext]_office PROVE BureauInv'
<1>1. CASE UNCHANGED office
  <2>1. BureauLooked /\ officeCalls' \in Seq(BureauCall) /\ officePage' \in BureauPage /\ officeDone' \in 0 .. OfficeMaxOps[bureauMode]
    BY <1>1 DEF office, BureauInv, BureauTypeOK, BureauLooked
  <2>2. (BureauNoneServed' => BureauNoneServed) /\ UNCHANGED <<bureau, officeReads, bureauMode, officeCalls>>
    BY <1>1 DEF office, BureauNoneServed
  <2> QED  BY <2>1, <2>2, BureauPageStep
<1>2. CASE BureauNext
  BY <1>2, BureauServeStep, BureauReadDetailStep, BureauAnswerStep, BureauRefuseStep, BureauLoseStep, BureauRequestStep,
     BureauOpenStep, BureauOthersActStep DEF BureauNext
<1> QED  BY <1>1, <1>2

LEMMA BureauHolds == ASSUME BureauAssumptions PROVE BureauSpec => []BureauInv
<1> QED  BY BureauStart, BureauStep, PTL DEF BureauSpec

\* The offices, and the page of one with the requests under way, are well formed
\* (office-ops.service.ts, admin/offices/[id]/page.tsx).
THEOREM BureauTyped == ASSUME BureauAssumptions PROVE BureauSpec => []BureauTypeOK
<1>1. BureauInv => BureauTypeOK
  BY DEF BureauInv
<1> QED  BY <1>1, BureauHolds, PTL

----------------------------------------------------------------------------
(* An office that nobody else changes *)

Calm == bureauMode \in {"patient", "hasty"}

\* What is under way when the page is in each of its states, and the offices
\* its form may move the office under: none but this office ever changes.
PageCalm ==
  /\ officePage.at = "new" =>
       Len(officeCalls) <= 1 /\ \A i \in DOMAIN officeCalls : officeCalls[i].kind = "create"
  /\ officePage.at = "detail" /\ officePage.loading =>
       /\ Len(officeCalls) = 1 /\ officeCalls[1].kind \in {"load", "options"}
       /\ officeCalls[1].stage # "refused"
       /\ officeCalls[1].kind = "options" => officePage.seen # Nil
  /\ officePage.at = "detail" /\ ~officePage.loading =>
       /\ officePage.seen # Nil /\ officePage.options = ParentOptions
       /\ \A i \in DOMAIN officeCalls : officeCalls[i].kind \notin {"create", "load", "options"}

CalmInv ==
  Calm =>
    /\ PageCalm
    /\ \A i \in DOMAIN officeCalls :
         officeCalls[i].stage = "read" =>
           IF officeCalls[i].kind = "options" THEN officeCalls[i].options = ParentOptions
           ELSE officeCalls[i].answer # Nil
    /\ IsActive(Here) => BureauParentAllowed(Here, offices[Here].parent)

\* This office alone is written to, and stays where ParentAllowed lets it.
LEMMA CalmWrite ==
  ASSUME BureauAssumptions, BureauInv, NEW c \in BureauCall, BureauFine(c), BureauAccepts(Here, c), Apply(Here, c),
         IsActive(Here) => BureauParentAllowed(Here, offices[Here].parent)
  PROVE  /\ ParentOptions' = ParentOptions
         /\ IsActive(Here)' => BureauParentAllowed(Here, offices[Here].parent)'
<1>1. /\ offices' = [offices EXCEPT ![Here] = Written(Here, c)]
      /\ offices \in [BureauOffices -> Office] /\ Here \in BureauOffices /\ Nil \notin BureauOffices
      /\ offices[Here] \in Office
  BY DEF Apply, BureauInv, BureauTypeOK, BureauAssumptions
<1>2. \A o \in BureauOffices \ {Here} : offices'[o] = offices[o]
  BY <1>1
<1>3. ParentOptions' = ParentOptions
  BY <1>2 DEF ParentOptions, IsActive
<1> SUFFICES ASSUME IsActive(Here)', offices'[Here].parent # Nil
             PROVE  BureauParentAllowed(Here, offices[Here].parent)'
  BY <1>3 DEF BureauParentAllowed
<1>q. PICK q : q = offices'[Here].parent
  OBVIOUS
<1>4. BureauParentAllowed(Here, q)
  <2> USE <1>q
  <2>1. CASE c.kind = "create"
    BY <1>1, <2>1 DEF Written
  <2>2. CASE c.kind = "save"
    BY <1>1, <2>2 DEF Written, BureauAccepts, Office
  <2>3. CASE c.kind = "archive"
    BY <1>1, <2>3 DEF Written, IsActive, Office
  <2>4. CASE c.kind = "reactivate"
    BY <1>1, <2>4 DEF Written, BureauAccepts, Office
  <2>5. CASE c.kind \notin {"create", "save", "archive", "reactivate"}
    BY <1>1, <2>5 DEF Written, IsActive
  <2> QED  BY <2>1, <2>2, <2>3, <2>4, <2>5
<1>5. q \in BureauOffices /\ q # Here /\ IsActive(q) /\ q \notin BureauDescendants(Here)
  <2>1. IsActive(q) /\ q # Here /\ q \notin BureauDescendants(Here)
    BY <1>4, <1>q DEF BureauParentAllowed
  <2>2. offices'[Here] \in Office
    BY Typed, <1>1 DEF BureauInv
  <2> QED  BY <1>q, <2>1, <2>2 DEF Office
<1>6. IsActive(q)'
  BY <1>2, <1>5 DEF IsActive
<1>7. q \notin BureauDescendants(Here)'
  <2>1. \A y \in BureauDescendants(Here) \cup {Here} : BureauChildren(y)' \subseteq BureauChildren(y)
    <3>1. BureauDescendants(Here) \subseteq BureauOffices /\ q \notin BureauDescendants(Here) \cup {Here}
      BY <1>1, <1>5, Below
    <3>2. ASSUME NEW y \in BureauOffices, y # q, NEW x \in BureauChildren(y)' PROVE x \in BureauChildren(y)
      BY <1>2, <1>q, <3>2 DEF BureauChildren
    <3> QED  BY <1>1, <3>1, <3>2
  <2>2. /\ BureauChildren(Here) \subseteq BureauDescendants(Here) /\ BureauDescendants(Here) \subseteq BureauOffices
        /\ \A y \in BureauDescendants(Here) : BureauChildren(y) \subseteq BureauDescendants(Here)
    BY <1>1, Below
  <2>3. BureauChildren(Here)' \subseteq BureauDescendants(Here)
        /\ \A y \in BureauDescendants(Here) : BureauChildren(y)' \subseteq BureauDescendants(Here)
    BY <2>1, <2>2
  <2>4. BureauDescendants(Here)' \subseteq BureauDescendants(Here)
    BY <2>2, <2>3 DEF BureauDescendants
  <2> QED  BY <1>5, <2>4
<1> QED  BY <1>q, <1>5, <1>6, <1>7 DEF BureauParentAllowed

LEMMA CalmServe ==
  ASSUME BureauAssumptions, BureauInv, CalmInv, Calm, BureauServe
  PROVE  CalmInv'
<1>1. PICK i \in DOMAIN officeCalls, taken \in BOOLEAN :
        /\ officeCalls[i].stage = "sent"
        /\ taken => officeCalls[i].kind \in {"create", "save"}
        /\ IF BureauAccepts(Here, officeCalls[i]) /\ ~taken THEN Apply(Here, officeCalls[i])
           ELSE UNCHANGED bureau
        /\ officeCalls' = [officeCalls EXCEPT ![i].stage =
                              IF BureauAccepts(Here, officeCalls[i]) /\ ~taken THEN "served" ELSE "refused"]
        /\ UNCHANGED <<officePage, officeReads, officeDone, bureauMode>>
  BY DEF BureauServe
<1> DEFINE ok == BureauAccepts(Here, officeCalls[i]) /\ ~taken
<1>2. officeCalls \in Seq(BureauCall) /\ officeCalls[i] \in BureauCall /\ BureauFine(officeCalls[i])
  BY <1>1 DEF BureauInv, BureauTypeOK
<1>3. /\ DOMAIN officeCalls' = DOMAIN officeCalls /\ Len(officeCalls') = Len(officeCalls)
      /\ \A j \in DOMAIN officeCalls \ {i} : officeCalls'[j] = officeCalls[j]
      /\ officeCalls'[i].kind = officeCalls[i].kind
      /\ officeCalls'[i].stage = IF ok THEN "served" ELSE "refused"
  BY <1>1, <1>2 DEF BureauCall
<1>4. /\ ParentOptions' = ParentOptions
      /\ IsActive(Here)' => BureauParentAllowed(Here, offices[Here].parent)'
  <2>1. CASE ok
    BY <1>1, <1>2, <2>1, CalmWrite DEF CalmInv
  <2>2. CASE ~ok
    <3>1. offices' = offices
      BY <1>1, <2>2 DEF bureau
    <3> QED
      BY <3>1 DEF CalmInv, ParentOptions, IsActive, BureauParentAllowed, BureauDescendants, BureauChildren
  <2> QED  BY <2>1, <2>2
<1>5. officeCalls[i].kind \in {"load", "options"} => ok
  BY <1>1 DEF BureauAccepts
<1>6. \A j \in DOMAIN officeCalls : officeCalls'[j].kind = officeCalls[j].kind
  BY <1>3
<1>7. PageCalm'
  BY <1>1, <1>3, <1>4, <1>5, <1>6 DEF CalmInv, PageCalm
<1>8. \A j \in DOMAIN officeCalls' : officeCalls'[j].stage = "read" => officeCalls'[j] = officeCalls[j]
  BY <1>3
<1> QED  BY <1>3, <1>4, <1>7, <1>8 DEF CalmInv

LEMMA CalmRead ==
  ASSUME BureauAssumptions, BureauInv, CalmInv, Calm, BureauReadDetail
  PROVE  CalmInv'
<1>1. PICK i \in DOMAIN officeCalls :
        /\ officeCalls[i].stage = "served"
        /\ IF officeCalls[i].kind = "options"
           THEN officeCalls' = [officeCalls EXCEPT ![i].stage = "read",
                                                     ![i].options = ParentOptions]
           ELSE officeCalls' = [officeCalls EXCEPT ![i].stage = "read",
                                                     ![i].answer = TheDetail,
                                                     ![i].nr = officeReads + 1]
        /\ UNCHANGED <<bureau, officePage, bureauMode>>
  BY DEF BureauReadDetail
<1>2. officeCalls \in Seq(BureauCall) /\ officeCalls[i] \in BureauCall
  BY <1>1 DEF BureauInv, BureauTypeOK
<1>3. TheDetail # Nil
  BY DetailTyped DEF BureauAssumptions, BureauInv
<1>4. /\ DOMAIN officeCalls' = DOMAIN officeCalls /\ Len(officeCalls') = Len(officeCalls)
      /\ \A j \in DOMAIN officeCalls \ {i} : officeCalls'[j] = officeCalls[j]
      /\ officeCalls'[i].kind = officeCalls[i].kind /\ officeCalls'[i].stage = "read"
      /\ IF officeCalls[i].kind = "options" THEN officeCalls'[i].options = ParentOptions
         ELSE officeCalls'[i].answer # Nil
  <2>1. CASE officeCalls[i].kind = "options"
    <3>1. officeCalls' = [officeCalls EXCEPT ![i] = [officeCalls[i] EXCEPT !.stage = "read",
                                                                          !.options = ParentOptions]]
      BY <1>1, <1>2, <2>1
    <3>2. /\ DOMAIN officeCalls' = DOMAIN officeCalls /\ Len(officeCalls') = Len(officeCalls)
          /\ \A j \in DOMAIN officeCalls \ {i} : officeCalls'[j] = officeCalls[j]
          /\ officeCalls'[i] = [officeCalls[i] EXCEPT !.stage = "read", !.options = ParentOptions]
      BY <1>2, <3>1
    <3> QED  BY <1>2, <2>1, <3>2 DEF BureauCall
  <2>2. CASE officeCalls[i].kind # "options"
    <3>1. officeCalls' = [officeCalls EXCEPT ![i] = [officeCalls[i] EXCEPT !.stage = "read",
                                                                          !.answer = TheDetail,
                                                                          !.nr = officeReads + 1]]
      BY <1>1, <1>2, <2>2
    <3>2. /\ DOMAIN officeCalls' = DOMAIN officeCalls /\ Len(officeCalls') = Len(officeCalls)
          /\ \A j \in DOMAIN officeCalls \ {i} : officeCalls'[j] = officeCalls[j]
          /\ officeCalls'[i] = [officeCalls[i] EXCEPT !.stage = "read", !.answer = TheDetail,
                                                    !.nr = officeReads + 1]
      BY <1>2, <3>1
    <3> QED  BY <1>2, <1>3, <2>2, <3>2 DEF BureauCall
  <2> QED  BY <2>1, <2>2
<1>5. /\ ParentOptions' = ParentOptions
      /\ IsActive(Here)' => BureauParentAllowed(Here, offices[Here].parent)'
  <2>1. offices' = offices
    BY <1>1 DEF bureau
  <2> QED
    BY <2>1 DEF CalmInv, ParentOptions, IsActive, BureauParentAllowed, BureauDescendants, BureauChildren
<1>6. \A j \in DOMAIN officeCalls : officeCalls'[j].kind = officeCalls[j].kind
  BY <1>4
<1>7. PageCalm'
  BY <1>1, <1>4, <1>5, <1>6 DEF CalmInv, PageCalm
<1>8. \A j \in DOMAIN officeCalls' \ {i} : officeCalls'[j] = officeCalls[j]
  BY <1>4
<1> QED  BY <1>4, <1>5, <1>7, <1>8 DEF CalmInv

\* As long as the offices stand still.
LEMMA CalmFrame ==
  ASSUME CalmInv, Calm, UNCHANGED <<bureau, bureauMode>>, PageCalm',
         \A j \in DOMAIN officeCalls' :
           (\E i \in DOMAIN officeCalls : officeCalls'[j] = officeCalls[i]) \/ officeCalls'[j].stage = "sent"
  PROVE  CalmInv'
<1>1. offices' = offices
  BY DEF bureau
<1>2. /\ ParentOptions' = ParentOptions
      /\ IsActive(Here)' => BureauParentAllowed(Here, offices[Here].parent)'
  BY <1>1 DEF CalmInv, ParentOptions, IsActive, BureauParentAllowed, BureauDescendants, BureauChildren
<1> QED  BY <1>2 DEF CalmInv

LEMMA StillParents ==
  ASSUME UNCHANGED bureau
  PROVE  ParentOptions' = ParentOptions
BY DEF bureau, ParentOptions, IsActive

\* Requests of a page that is shown do not take it away.
LEMMA CalmStays ==
  ASSUME CalmInv, Calm, UNCHANGED <<bureau, bureauMode>>, officePage.at = "detail", ~officePage.loading,
         officePage'.at = "detail", ~officePage'.loading, officePage'.seen # Nil,
         officePage'.options = officePage.options,
         \A j \in DOMAIN officeCalls' :
           \/ \E i \in DOMAIN officeCalls : officeCalls'[j] = officeCalls[i]
           \/ /\ officeCalls'[j].kind \notin {"create", "load", "options"}
              /\ officeCalls'[j].stage = "sent"
  PROVE  CalmInv'
<1>1. PageCalm'
  <2>1. ParentOptions' = ParentOptions
    BY StillParents
  <2>2. /\ officePage.options = ParentOptions
        /\ \A i \in DOMAIN officeCalls : officeCalls[i].kind \notin {"create", "load", "options"}
    BY DEF CalmInv, PageCalm
  <2> QED  BY <2>1, <2>2 DEF PageCalm
<1> QED  BY <1>1, CalmFrame

\* what is left of one request
LEMMA Uncontended ==
  ASSUME BureauInv, Len(officeCalls) <= 1, NEW i \in DOMAIN officeCalls
  PROVE  i = 1 /\ RemoveAt(officeCalls, i) = << >> /\ DOMAIN RemoveAt(officeCalls, i) = {}
<1>1. officeCalls \in Seq(BureauCall)
  BY DEF BureauInv, BureauTypeOK
<1>2. i = 1 /\ Len(officeCalls) = 1
  <2>1. Len(officeCalls) \in Nat /\ i \in 1 .. Len(officeCalls)
    BY <1>1
  <2>2. ASSUME NEW n \in Nat, n <= 1, NEW k \in 1 .. n PROVE k = 1 /\ n = 1
    BY <2>2
  <2> QED  BY <2>1, <2>2
<1>3. RemoveAt(officeCalls, i) \in Seq(BureauCall) /\ Len(RemoveAt(officeCalls, i)) = Len(officeCalls) - 1
  BY <1>1, RemovedAt
<1> QED  BY <1>2, <1>3

LEMMA CalmAnswer ==
  ASSUME BureauAssumptions, BureauInv, CalmInv, Calm, BureauAnswer
  PROVE  CalmInv'
<1>1. PICK i \in DOMAIN officeCalls :
        /\ officeCalls[i].stage = "read"
        /\ CASE officeCalls[i].kind = "create" ->
                  /\ officePage' = [officePage EXCEPT !.at = "detail", !.loading = TRUE]
                  /\ officeCalls' = Append(RemoveAt(officeCalls, i), BureauSent("load"))
             [] officeCalls[i].kind = "load" ->
                  officePage' = BureauShow(officeCalls[i]) /\ officeCalls' = Append(RemoveAt(officeCalls, i), BureauSent("options"))
             [] officeCalls[i].kind = "options" ->
                  officePage' = [Ended(officeCalls[i]) EXCEPT !.options = officeCalls[i].options]
                  /\ officeCalls' = RemoveAt(officeCalls, i)
             [] OTHER -> officePage' = BureauShow(officeCalls[i]) /\ officeCalls' = RemoveAt(officeCalls, i)
        /\ UNCHANGED <<bureau, officeReads, officeDone, bureauMode>>
  BY DEF BureauAnswer
<1>2. /\ officeCalls[i] \in BureauCall /\ officePage \in BureauPage /\ officePage.at \in {"new", "detail"}
      /\ officePage.loading \in BOOLEAN
  BY <1>1 DEF BureauInv, BureauTypeOK, BureauPage
<1>3. /\ PageCalm
      /\ IF officeCalls[i].kind = "options" THEN officeCalls[i].options = ParentOptions
         ELSE officeCalls[i].answer # Nil
  BY <1>1 DEF CalmInv
<1>s. ParentOptions' = ParentOptions
  BY <1>1, StillParents
<1>4. ASSUME officeCalls[i].kind = "create" PROVE CalmInv'
  <2>1. officePage.at = "new" /\ Len(officeCalls) <= 1
    <3>1. ~(officePage.at = "detail" /\ officePage.loading)
      <4> SUFFICES ASSUME officePage.at = "detail", officePage.loading PROVE FALSE
        OBVIOUS
      <4>1. Len(officeCalls) <= 1 /\ officeCalls[1].kind \in {"load", "options"}
        <5>1. Len(officeCalls) = 1 /\ officeCalls[1].kind \in {"load", "options"}
          BY <1>3 DEF PageCalm
        <5> QED  BY <5>1
      <4> QED  BY <1>4, <4>1, Uncontended
    <3> QED  BY <1>2, <1>3, <1>4, <3>1 DEF PageCalm
  <2>2. officeCalls' = Append(<< >>, BureauSent("load"))
    BY <1>1, <1>4, <2>1, Uncontended
  <2>3. officeCalls' = <<BureauSent("load")>>
    BY <2>2
  <2>4. officePage'.at = "detail" /\ officePage'.loading
    BY <1>1, <1>2, <1>4 DEF BureauPage
  <2>5. Len(officeCalls') = 1 /\ officeCalls'[1] = BureauSent("load") /\ DOMAIN officeCalls' = {1}
    BY <2>3
  <2>6. BureauSent("load").kind = "load" /\ BureauSent("load").stage = "sent"
    BY DEF BureauSent
  <2>7. PageCalm'
    BY <2>4, <2>5, <2>6 DEF PageCalm
  <2> QED  BY <1>1, <2>5, <2>6, <2>7, CalmFrame
<1>5. ASSUME officeCalls[i].kind \in {"load", "options"}
      PROVE  officePage.at = "detail" /\ officePage.loading /\ Len(officeCalls) <= 1 /\ i = 1
  <2>1. officePage.at = "detail" /\ officePage.loading
    BY <1>2, <1>3, <1>5 DEF PageCalm
  <2>2. Len(officeCalls) = 1
    BY <1>3, <2>1 DEF PageCalm
  <2>3. Len(officeCalls) <= 1
    BY <2>2
  <2> QED  BY <2>1, <2>3, Uncontended
<1>6. ASSUME officeCalls[i].kind = "load" PROVE CalmInv'
  <2>1. officePage.at = "detail" /\ officePage.loading /\ Len(officeCalls) <= 1
    BY <1>5, <1>6
  <2>2. /\ officePage' = BureauShow(officeCalls[i])
        /\ officeCalls' = Append(RemoveAt(officeCalls, i), BureauSent("options"))
    BY <1>1, <1>6
  <2>3. officeCalls' = Append(<< >>, BureauSent("options"))
    BY <2>1, <2>2, Uncontended
  <2>4. officeCalls' = <<BureauSent("options")>>
    BY <2>3
  <2>5. Len(officeCalls') = 1 /\ officeCalls'[1] = BureauSent("options") /\ DOMAIN officeCalls' = {1}
    BY <2>4
  <2>6. BureauSent("options").kind = "options" /\ BureauSent("options").stage = "sent"
    BY DEF BureauSent
  <2>7. officePage'.at = "detail" /\ officePage'.loading /\ officePage'.seen # Nil
    BY <1>2, <1>3, <1>6, <2>1, <2>2, ShownPage
  <2>8. PageCalm'
    BY <2>5, <2>6, <2>7 DEF PageCalm
  <2> QED  BY <1>1, <2>5, <2>6, <2>8, CalmFrame
<1>7. ASSUME officeCalls[i].kind = "options" PROVE CalmInv'
  <2>1. officePage.at = "detail" /\ officePage.loading /\ Len(officeCalls) <= 1 /\ i = 1
    BY <1>5, <1>7
  <2>2. /\ officePage' = [Ended(officeCalls[i]) EXCEPT !.options = officeCalls[i].options]
        /\ officeCalls' = RemoveAt(officeCalls, i)
    BY <1>1, <1>7
  <2>3. DOMAIN officeCalls' = {}
    BY <2>1, <2>2, Uncontended
  <2>4. /\ officePage'.at = "detail" /\ ~officePage'.loading /\ officePage'.seen = officePage.seen
        /\ officePage'.options = officeCalls[i].options
    BY <1>2, <1>7, <2>1, <2>2, EndedPage DEF BureauPage
  <2>5. officePage.seen # Nil
    BY <1>3, <1>7, <2>1 DEF PageCalm
  <2>6. PageCalm'
    BY <1>3, <1>7, <1>s, <2>3, <2>4, <2>5 DEF PageCalm
  <2> QED  BY <1>1, <2>3, <2>6, CalmFrame
<1>8. ASSUME officeCalls[i].kind \notin {"create", "load", "options"} PROVE CalmInv'
  <2>1. officePage.at = "detail" /\ ~officePage.loading
    <3>1. officePage.at # "new"
      BY <1>3, <1>8 DEF PageCalm
    <3>2. ASSUME officePage.at = "detail", officePage.loading PROVE FALSE
      <4>1. Len(officeCalls) <= 1 /\ officeCalls[1].kind \in {"load", "options"}
        <5>1. Len(officeCalls) = 1 /\ officeCalls[1].kind \in {"load", "options"}
          BY <1>3, <3>2 DEF PageCalm
        <5> QED  BY <5>1
      <4> QED  BY <1>8, <4>1, Uncontended
    <3> QED  BY <1>2, <3>1, <3>2
  <2>2. officePage' = BureauShow(officeCalls[i]) /\ officeCalls' = RemoveAt(officeCalls, i)
    BY <1>1, <1>8
  <2>3. /\ officePage'.at = "detail" /\ ~officePage'.loading /\ officePage'.seen # Nil
        /\ officePage'.options = officePage.options
    BY <1>2, <1>3, <1>8, <2>1, <2>2, ShownPage
  <2>4. \A j \in DOMAIN officeCalls' : \E k \in DOMAIN officeCalls : officeCalls'[j] = officeCalls[k]
    BY <1>1, <2>2, BureauCallEnds
  <2> QED  BY <1>1, <2>1, <2>3, <2>4, CalmStays
<1> QED  BY <1>4, <1>6, <1>7, <1>8

LEMMA CalmRefuse ==
  ASSUME BureauAssumptions, BureauInv, CalmInv, Calm, BureauRefuse
  PROVE  CalmInv'
<1>1. PICK i \in DOMAIN officeCalls :
        /\ officeCalls[i].stage = "refused"
        /\ officePage' = Failed(officeCalls[i]) /\ officeCalls' = RemoveAt(officeCalls, i)
        /\ UNCHANGED <<bureau, officeReads, officeDone, bureauMode>>
  BY DEF BureauRefuse
<1>2. /\ officeCalls[i] \in BureauCall /\ officePage \in BureauPage /\ officePage.at \in {"new", "detail"}
      /\ PageCalm
  BY <1>1 DEF BureauInv, BureauTypeOK, BureauPage, CalmInv
<1>3. /\ officePage'.at = officePage.at /\ officePage'.seen = officePage.seen /\ officePage'.options = officePage.options
      /\ ~officePage'.loading
  BY <1>1, <1>2, FailedPage
<1>4. CASE officePage.at = "new"
  <2>1. DOMAIN officeCalls' = {} /\ officeCalls' = << >>
    BY <1>1, <1>2, <1>4, Uncontended DEF PageCalm
  <2>2. Len(officeCalls') <= 1
    BY <2>1
  <2>3. PageCalm'
    BY <1>3, <1>4, <2>1, <2>2 DEF PageCalm
  <2> QED  BY <1>1, <2>1, <2>3, CalmFrame
<1>5. CASE officePage.at = "detail"
  <2>1. ~officePage.loading
    <3> SUFFICES ASSUME officePage.loading PROVE FALSE
      OBVIOUS
    <3>1. Len(officeCalls) <= 1 /\ officeCalls[1].stage # "refused"
      <4>1. Len(officeCalls) = 1 /\ officeCalls[1].stage # "refused"
        BY <1>2, <1>5 DEF PageCalm
      <4> QED  BY <4>1
    <3> QED  BY <1>1, <3>1, Uncontended
  <2>2. officePage.seen # Nil
    BY <1>2, <1>5, <2>1 DEF PageCalm
  <2>3. \A j \in DOMAIN officeCalls' : \E k \in DOMAIN officeCalls : officeCalls'[j] = officeCalls[k]
    BY <1>1, BureauCallEnds
  <2> QED  BY <1>1, <1>3, <1>5, <2>1, <2>2, <2>3, CalmStays
<1> QED  BY <1>2, <1>4, <1>5

LEMMA CalmUser ==
  ASSUME BureauAssumptions, BureauInv, CalmInv, Calm,
         \/ CreateOffice \/ BureauRetry \/ OpenForm \/ CloseModal \/ SaveOffice
         \/ BureauOpenDialog \/ BureauApplyLifecycle \/ BureauApproveStaff
  PROVE  CalmInv'
<1>p. /\ officePage \in BureauPage /\ PageCalm /\ officeCalls \in Seq(BureauCall)
  BY DEF BureauInv, BureauTypeOK, CalmInv
<1>1. ~BureauRetry
  BY <1>p DEF BureauRetry, PageCalm
<1>2. ASSUME CreateOffice PROVE CalmInv'
  <2>1. /\ officePage.at = "new" /\ UNCHANGED <<bureau, bureauMode>>
        /\ officeCalls' = Append(officeCalls, BureauSent("create"))
        /\ officePage' = [officePage EXCEPT !.error = FALSE]
        /\ \A i \in DOMAIN officeCalls : officeCalls[i].kind # "create"
    BY <1>2 DEF CreateOffice, BureauSubmit, BureauUserActs, BureauWaiting
  <2>2. Len(officeCalls) = 0 /\ officeCalls = << >>
    BY <1>p, <2>1 DEF PageCalm
  <2>3. officeCalls' = <<BureauSent("create")>>
    BY <2>1, <2>2
  <2>4. Len(officeCalls') = 1 /\ DOMAIN officeCalls' = {1} /\ officeCalls'[1] = BureauSent("create")
    BY <2>3
  <2>5. BureauSent("create").kind = "create" /\ BureauSent("create").stage = "sent"
    BY DEF BureauSent
  <2>6. officePage'.at = "new"
    BY <1>p, <2>1 DEF BureauPage
  <2>7. PageCalm'
    BY <2>4, <2>5, <2>6 DEF PageCalm
  <2> QED  BY <2>1, <2>4, <2>5, <2>7, CalmFrame
<1>3. ASSUME OpenForm \/ CloseModal \/ BureauOpenDialog PROVE CalmInv'
  <2>1. BureauShown /\ BureauUserActs /\ officeCalls' = officeCalls
    BY <1>3 DEF OpenForm, CloseModal, BureauOpenDialog
  <2>2. /\ officePage'.at = officePage.at /\ officePage'.loading = officePage.loading
        /\ officePage'.seen = officePage.seen /\ officePage'.options = officePage.options
    BY <1>3, <1>p DEF OpenForm, CloseModal, BureauOpenDialog, BureauPage
  <2> QED  BY <2>1, <2>2, CalmStays DEF BureauShown, BureauUserActs
<1>4. ASSUME NEW c, c.kind \notin {"create", "load", "options"}, c.stage = "sent",
             BureauSubmit(c), BureauShown, officePage'.at = officePage.at, officePage'.loading = officePage.loading,
             officePage'.seen = officePage.seen, officePage'.options = officePage.options
      PROVE  CalmInv'
  <2>1. BureauUserActs /\ officeCalls' = Append(officeCalls, c)
    BY <1>4 DEF BureauSubmit
  <2>2. \A j \in DOMAIN officeCalls' : (\E i \in DOMAIN officeCalls : officeCalls'[j] = officeCalls[i]) \/ officeCalls'[j] = c
    BY <1>p, <2>1
  <2> QED  BY <1>4, <2>1, <2>2, CalmStays DEF BureauShown, BureauUserActs
<1>5. ASSUME SaveOffice PROVE CalmInv'
  <2>1. PICK p, l : BureauSubmit([BureauSent("save") EXCEPT !.parent = p, !.level = l])
    BY <1>5 DEF SaveOffice
  <2>2. /\ BureauShown /\ officePage'.at = officePage.at /\ officePage'.loading = officePage.loading
        /\ officePage'.seen = officePage.seen /\ officePage'.options = officePage.options
    BY <1>5, <1>p DEF SaveOffice, BureauPage
  <2> DEFINE c == [BureauSent("save") EXCEPT !.parent = p, !.level = l]
  <2>3. c.kind = "save" /\ c.stage = "sent"
    BY DEF BureauSent
  <2> QED  BY <1>4, <2>1, <2>2, <2>3
<1>6. ASSUME BureauApplyLifecycle PROVE CalmInv'
  <2>1. officePage.dialog \in {"archive", "reactivate"} /\ BureauSubmit(OfLevel(officePage.dialog))
    BY <1>6, <1>p DEF BureauApplyLifecycle, BureauPage
  <2>2. /\ BureauShown /\ officePage'.at = officePage.at /\ officePage'.loading = officePage.loading
        /\ officePage'.seen = officePage.seen /\ officePage'.options = officePage.options
    BY <1>6, <1>p DEF BureauApplyLifecycle, BureauPage
  <2>3. OfLevel(officePage.dialog).kind = officePage.dialog /\ OfLevel(officePage.dialog).stage = "sent"
    BY DEF OfLevel, BureauSent
  <2> QED  BY <1>4, <2>1, <2>2, <2>3
<1>7. ASSUME BureauApproveStaff PROVE CalmInv'
  <2>1. PICK s : /\ BureauSubmit([BureauSent("approve") EXCEPT !.who = s])
                /\ officePage' = [officePage EXCEPT !.approving = s, !.error = FALSE]
    BY <1>7 DEF BureauApproveStaff
  <2>2. /\ BureauShown /\ officePage'.at = officePage.at /\ officePage'.loading = officePage.loading
        /\ officePage'.seen = officePage.seen /\ officePage'.options = officePage.options
    BY <1>7, <1>p, <2>1 DEF BureauApproveStaff, BureauPage
  <2> DEFINE c == [BureauSent("approve") EXCEPT !.who = s]
  <2>3. c.kind = "approve" /\ c.stage = "sent"
    BY DEF BureauSent
  <2> QED  BY <1>4, <2>1, <2>2, <2>3
<1> QED  BY <1>1, <1>2, <1>3, <1>5, <1>6, <1>7

LEMMA CalmStart == ASSUME BureauAssumptions, BureauInit PROVE CalmInv
<1> DEFINE new == offices[Here].status = "absent"
<1>1. /\ offices \in Hierarchies /\ officeReads = 0
      /\ officePage = [at |-> IF new THEN "new" ELSE "detail", loading |-> ~new,
                       seen |-> Nil, options |-> {}, form |-> Nil, dialog |-> Nil,
                       approving |-> Nil, error |-> FALSE, nr |-> 0, doubt |-> FALSE]
      /\ officeCalls = IF new THEN <<>> ELSE <<BureauSent("load")>>
  BY DEF BureauInit
<1>2. BureauSent("load").stage = "sent" /\ BureauSent("load").kind = "load"
  BY DEF BureauSent
<1>3. PageCalm
  <2>1. CASE new
    BY <1>1, <2>1 DEF PageCalm
  <2>2. CASE ~new
    <3>1. Len(officeCalls) = 1 /\ officeCalls[1] = BureauSent("load") /\ officePage.at = "detail" /\ officePage.loading
      BY <1>1, <2>2
    <3> QED  BY <1>2, <3>1 DEF PageCalm
  <2> QED  BY <2>1, <2>2
<1>4. \A i \in DOMAIN officeCalls : officeCalls[i].stage # "read"
  BY <1>1, <1>2
<1>5. IsActive(Here) => BureauParentAllowed(Here, offices[Here].parent)
  <2> SUFFICES ASSUME IsActive(Here), offices[Here].parent # Nil
               PROVE  BureauParentAllowed(Here, offices[Here].parent)
    BY DEF BureauParentAllowed
  <2>1. IsActive(offices[Here].parent)
    BY <1>1 DEF Hierarchies, IsActive, BureauAssumptions
  <2>2. offices[Here].status # "absent" /\ BureauInv /\ Here \in BureauOffices
    BY BureauStart DEF IsActive, BureauAssumptions
  <2> QED  BY <2>1, <2>2, ParentAbove DEF BureauParentAllowed, BureauInv
<1> QED  BY <1>3, <1>4, <1>5 DEF CalmInv

LEMMA CalmStep ==
  ASSUME BureauAssumptions, BureauInv, CalmInv, [BureauNext]_office
  PROVE  CalmInv'
<1>1. CASE UNCHANGED office
  <2>1. UNCHANGED <<offices, officePage, officeCalls, bureauMode>>
    BY <1>1 DEF office, bureau
  <2> QED
    BY <2>1 DEF CalmInv, Calm, PageCalm, ParentOptions, IsActive, BureauParentAllowed, BureauDescendants,
                BureauChildren
<1>2. CASE BureauNext
  <2>1. bureauMode' = bureauMode
    BY <1>2 DEF BureauNext, BureauServe, BureauReadDetail, BureauAnswer, BureauRefuse, BureauLose, CreateOffice, BureauRetry,
                OpenForm, CloseModal, SaveOffice, BureauOpenDialog, BureauApplyLifecycle,
                BureauApproveStaff, BureauOthersAct, BureauSubmit, BureauUserActs
  <2>2. CASE ~Calm
    BY <2>1, <2>2 DEF CalmInv, Calm
  <2>3. CASE Calm
    <3>1. ~BureauLose /\ ~BureauOthersAct
      BY <2>3 DEF Calm, BureauLose, BureauOthersAct
    <3> QED
      BY <1>2, <2>3, <3>1, CalmServe, CalmRead, CalmAnswer, CalmRefuse, CalmUser DEF BureauNext
  <2> QED  BY <2>2, <2>3
<1> QED  BY <1>1, <1>2

----------------------------------------------------------------------------
\* A page that shows what the server has offers what the server accepts.
LEMMA BureauOffersFit ==
  ASSUME BureauAssumptions, BureauTypeOK, BureauForest, officePage.seen = TheDetail, BureauShown
  PROVE  BureauOffersAccepted
<1>1. /\ Here \in BureauOffices /\ offices[Here] \in Office
      /\ officePage.seen.office = offices[Here] /\ officePage.seen.staff = staff
      /\ officePage.seen.children = {<<x, offices[x].status>> : x \in BureauChildren(Here)}
  BY DEF BureauAssumptions, BureauTypeOK, TheDetail
<1>2. \A action \in {"archive", "reactivate"} :
        /\ OfLevel(action).kind = action
        /\ OfLevel(action).regional = (offices[Here].level = "regional")
  BY <1>1 DEF OfLevel, BureauSent
<1>3. BureauAccepts(Here, OfLevel("archive")) <=>
        IsActive(Here) /\ \A x \in BureauChildren(Here) : ~IsActive(x)
  BY <1>2 DEF BureauAccepts
<1>4. CanArchive => BureauAccepts(Here, OfLevel("archive"))
  BY <1>1, <1>3 DEF CanArchive, IsActive
<1>5. ASSUME BureauAccepts(Here, OfLevel("archive")), NEW child \in officePage.seen.children
      PROVE  child[2] = "archived"
  <2>1. PICK x \in BureauChildren(Here) : child = <<x, offices[x].status>>
    BY <1>1, <1>5
  <2>2. offices[x] \in Office /\ offices[x].status # "absent" /\ offices[x].status # "active"
    BY <1>3, <1>5, <2>1 DEF BureauTypeOK, BureauChildren, IsActive
  <2> QED  BY <2>1, <2>2 DEF Office
<1>6. BureauAccepts(Here, OfLevel("reactivate")) <=>
        /\ offices[Here].status = "archived"
        /\ BureauParentAllowed(Here, offices[Here].parent)
  BY <1>2 DEF BureauAccepts
<1>7. BureauAccepts(Here, OfLevel("reactivate")) <=>
        CanReactivate /\ (offices[Here].parent # Nil => IsActive(offices[Here].parent))
  BY <1>1, <1>6, ParentAbove DEF CanReactivate, BureauParentAllowed
<1>8. ASSUME NEW s \in BureauStaff
      PROVE  CanApprove(s) <=> BureauAccepts(Here, [BureauSent("approve") EXCEPT !.who = s])
  BY <1>1 DEF CanApprove, BureauAccepts, BureauSent
<1> QED  BY <1>4, <1>5, <1>7, <1>8 DEF BureauOffersAccepted

LEMMA FormStays ==
  ASSUME BureauAssumptions, BureauTypeOK, CalmInv, officePage.seen = TheDetail, BureauShown
  PROVE  FormFits
<1> SUFFICES ASSUME BureauCanEdit, Calm
             PROVE  /\ FormParent = offices[Here].parent
                    /\ BureauAccepts(Here, [BureauSent("save") EXCEPT !.parent = FormParent])
  BY DEF FormFits, Calm
<1> DEFINE p == offices[Here].parent
<1>1. /\ IsActive(Here) /\ officePage.seen.office.parent = p /\ Here \in BureauOffices
      /\ p \in BureauOffices \cup {Nil} /\ Nil \notin BureauOffices
  BY DEF BureauCanEdit, IsActive, TheDetail, BureauAssumptions, BureauTypeOK, Office
<1>2. officePage.options = ParentOptions /\ BureauParentAllowed(Here, p)
  BY <1>1 DEF CalmInv, PageCalm, BureauShown
<1>3. FormParent = p
  BY <1>1, <1>2 DEF FormParent, ParentOptions, BureauParentAllowed
<1>4. BureauAccepts(Here, [BureauSent("save") EXCEPT !.parent = p])
  BY <1>1, <1>2 DEF BureauAccepts, BureauSent
<1> QED  BY <1>3, <1>4

\* A settled page shows the office, its children, its staff and its history as
\* the server has them; its buttons fit, and its form leaves the office where it
\* is, for every forest of offices (getOffice, validateParent, updateOffice).
THEOREM BureauShowsServer == ASSUME BureauAssumptions PROVE BureauSpec => []BureauScreenTrue
<1>1. BureauInv /\ CalmInv => BureauScreenTrue
  <2> SUFFICES ASSUME BureauInv, CalmInv, BureauSettled
               PROVE  officePage.seen = TheDetail /\ BureauOffersAccepted /\ FormFits
    BY DEF BureauScreenTrue
  <2>1. BureauNoneServed /\ officePage.seen # Nil /\ officePage.nr = officeReads /\ ~officePage.doubt /\ BureauShown
    BY DEF BureauSettled, BureauShown, BureauNoneServed
  <2>2. officePage.seen = TheDetail
    BY <2>1 DEF BureauInv, BureauLatest
  <2> QED  BY <2>1, <2>2, BureauOffersFit, FormStays DEF BureauInv
<1>2. BureauInit => CalmInv
  BY CalmStart
<1>3. BureauInv /\ CalmInv /\ [BureauNext]_office => CalmInv'
  BY CalmStep
<1> QED  BY <1>1, <1>2, <1>3, BureauHolds, PTL DEF BureauSpec

----------------------------------------------------------------------------
(* The pages side by side *)

\* The pages that stand still stutter.
LEMMA PagesBehave == ConsoleSpec => MatrixSpec /\ ListSpec /\ OrgSpec /\ BureauSpec
<1>1. ConsoleInit => MatrixInit /\ ListInit /\ OrgInit /\ BureauInit
  BY DEF ConsoleInit
<1>2. [ConsoleNext]_consoleVars =>
        [MatrixNext]_matrix /\ [ListNext]_lists /\ [OrgNext]_tenant /\ [BureauNext]_office
  BY DEF ConsoleNext, consoleVars
<1> QED  BY <1>1, <1>2, PTL DEF ConsoleSpec, MatrixSpec, ListSpec, OrgSpec, BureauSpec

\* The four pages, their requests and what the server has of them are well
\* formed, for every value of the constants.
THEOREM PagesTyped == ASSUME ConsoleAssumptions PROVE ConsoleSpec => []PagesTypeOK
<1>1. MatrixAssumptions /\ ListAssumptions /\ OrgAssumptions /\ BureauAssumptions
  BY DEF ConsoleAssumptions
<1>2. /\ MatrixSpec => []MatrixTypeOK
      /\ ListSpec => []ListTypeOK
      /\ OrgSpec => []OrgTypeOK
      /\ BureauSpec => []BureauTypeOK
  BY <1>1, MatrixTyped, ListTyped, OrgTyped, BureauTyped
<1> QED  BY <1>2, PagesBehave, PTL DEF PagesTypeOK

\* What a settled page shows is what the server has, and what the pages of an
\* organization and of an office offer is what it would accept, for any number
\* of rows, offices, people and requests (the pages under admin/ of the portal).
THEOREM PagesShow == ASSUME ConsoleAssumptions PROVE ConsoleSpec => []PagesShowServer
<1>1. MatrixAssumptions /\ ListAssumptions /\ OrgAssumptions /\ BureauAssumptions
  BY DEF ConsoleAssumptions
<1>2. /\ MatrixSpec => []MatrixScreenTrue
      /\ ListSpec => []ListScreenTrue
      /\ OrgSpec => []OrgScreenTrue
      /\ BureauSpec => []BureauScreenTrue
  BY <1>1, MatrixShowsServer, ListShowsServer, OrgShowsServer, BureauShowsServer
<1> QED  BY <1>2, PagesBehave, PTL DEF PagesShowServer

=============================================================================
