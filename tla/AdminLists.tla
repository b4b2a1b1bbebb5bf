------------------------------ MODULE AdminLists ------------------------------
(***************************************************************************)
(* The four lists of the console that are searched, filtered and paged:    *)
(* organizations, administrators of organizations, offices, and the        *)
(* offices of an organization.  A page keeps its filters, asks for a page  *)
(* of rows when they change, and shows what is answered last; the server   *)
(* counts the rows and reads them in two statements.  A page of rows is a  *)
(* set: the rows are always in the same order.                             *)
(***************************************************************************)
EXTENDS ConsoleBase, Integers, FiniteSets, SequencesExt

CONSTANTS
    ShownLists, \* those of the four that are looked at
    PageSize,   \* page_size: 20, and 10 on the page of an organization
    MaxRows,    \* bound: rows of the list
    ListMaxOps  \* bound: what users do, in a mode

\* the options of the two selectors of a list; Nil is `All'
Statuses(list) ==
    CASE list = "organizations" -> {"active", "suspended", "archived"}
      [] list = "admins" -> {"active", "suspended"}
      [] OTHER -> {"active", "archived"}

ListKinds(list) ==
    CASE list = "organizations" -> {}
      [] list = "admins" -> {"pending", "accepted"}
      [] OTHER -> {"regional", "local"}

VARIABLES
    list,       \* the one a behaviour looks at
    listRows,   \* its rows in the order they were created
    filters,    \* search, status, the second selector, page: state of the page
    due,        \* the effect of the page has a timer set
    listScreen, \* result, loading and error of the page
    listCalls,  \* the requests in flight
    sent,       \* requests sent so far
    listDone, listMode

lists == <<list, listRows, filters, due, listScreen, listCalls, sent, listDone,
           listMode>>

\* A row is found by the text one searches for, or is not.  The kind of an
\* organization is Nil: its page has a checkbox instead.
Row == [named : BOOLEAN,
        status : UNION {Statuses(l) : l \in ShownLists},
        kind : {Nil} \cup UNION {ListKinds(l) : l \in ShownLists}]

Rows(l) == {row \in Row : /\ row.status \in Statuses(l)
                          /\ IF ListKinds(l) = {} THEN row.kind = Nil
                             ELSE row.kind \in ListKinds(l)}

Filters == [search : BOOLEAN,
            status : {Nil} \cup UNION {Statuses(l) : l \in ShownLists},
            kind : {Nil} \cup UNION {ListKinds(l) : l \in ShownLists},
            archived : BOOLEAN, page : 1..(MaxRows + 1)]

Ids == 1..MaxRows

\* `torn' and `nr' are not of the answer: the rows changed since they were
\* counted, and which request it answers.
ListAnswer == [total : 0..MaxRows, data : SUBSET Ids, torn : BOOLEAN]

\* A request that is sent, and one whose rows are counted and perhaps read.
ListCall == [nr : Nat, query : Filters, total : {Nil}]
            \cup
            [nr : Nat, query : Filters, torn : BOOLEAN, total : 0..MaxRows,
             data : {Nil} \cup SUBSET Ids]

\* what is assumed of the constants
ListAssumptions ==
    /\ ShownLists \subseteq {"organizations", "admins", "offices", "section"}
    /\ PageSize \in Nat \ {0} /\ MaxRows \in Nat /\ ListMaxOps \in [PageModes -> Nat]
    /\ PageModesKnown
    /\ Nil \notin (0..MaxRows) \cup ListAnswer /\ \A ids \in SUBSET Ids : ids # Nil

----------------------------------------------------------------------------
(* The WHERE clauses *)

\* organizations: archived ones only if they are asked for
OrganizationMatches(f, row) ==
    /\ f.archived \/ f.status = "archived" \/ row.status # "archived"
    /\ f.search => row.named
    /\ f.status # Nil => row.status = f.status

\* administrators: by status and by their last invitation
AdminMatches(f, row) ==
    /\ f.search => row.named
    /\ f.status # Nil => row.status = f.status
    /\ f.kind # Nil => row.kind = f.kind

\* offices, of the caller's organization: by status and level
OfficeMatches(f, row) ==
    /\ f.search => row.named
    /\ f.kind # Nil => row.kind = f.kind
    /\ f.status # Nil => row.status = f.status

\* the offices of an organization that a platform_admin looks at
SectionMatches(f, row) == OfficeMatches(f, row)

Matches(f, row) ==
    CASE list = "organizations" -> OrganizationMatches(f, row)
      [] list = "admins" -> AdminMatches(f, row)
      [] list = "offices" -> OfficeMatches(f, row)
      [] OTHER -> SectionMatches(f, row)

Found(f) == {i \in DOMAIN listRows : Matches(f, listRows[i])}

\* ORDER BY created_at DESC: how many come before i
Newer(found, i) == Cardinality({j \in found : j > i})

\* LIMIT page_size OFFSET (page - 1) * page_size
PageOf(found, page) ==
    {i \in found : /\ (page - 1) * PageSize <= Newer(found, i)
                   /\ Newer(found, i) < page * PageSize}

TotalPages(total) ==
    IF total = 0 THEN 1 ELSE (total + PageSize - 1) \div PageSize

----------------------------------------------------------------------------
(* The requests of a page *)

\* load: what is shown gives way to the skeleton.
Send ==
    /\ listCalls' = Append(listCalls, [nr |-> sent + 1, query |-> filters, total |-> Nil])
    /\ sent' = sent + 1
    /\ listScreen' = [listScreen EXCEPT !.loading = TRUE, !.error = FALSE]

\* the effect of the page, when its timer ends
ListLoad ==
    /\ due
    /\ due' = FALSE
    /\ Send
    /\ UNCHANGED <<list, listRows, filters, listDone, listMode>>

\* The server counts, ...
CountRows ==
    \E i \in DOMAIN listCalls :
        /\ listCalls[i].total = Nil
        /\ listCalls' = [listCalls EXCEPT ![i] =
                            [nr |-> @.nr, query |-> @.query, torn |-> FALSE,
                             total |-> Cardinality(Found(@.query)), data |-> Nil]]
        /\ UNCHANGED <<list, listRows, filters, due, listScreen, sent, listDone,
                       listMode>>

\* ... and reads the rows.
ReadRows ==
    \E i \in DOMAIN listCalls :
        /\ listCalls[i].total # Nil /\ listCalls[i].data = Nil
        /\ listCalls' = [listCalls EXCEPT ![i].data =
                            PageOf(Found(listCalls[i].query), listCalls[i].query.page)]
        /\ UNCHANGED <<list, listRows, filters, due, listScreen, sent, listDone,
                       listMode>>

\* The answers of two requests come in any order, and the last is shown.
Receive ==
    \E i \in DOMAIN listCalls :
        /\ listCalls[i].total # Nil /\ listCalls[i].data # Nil
        /\ listScreen' = [listScreen EXCEPT
               !.result = [total |-> listCalls[i].total, data |-> listCalls[i].data,
                           torn |-> listCalls[i].torn],
               !.loading = FALSE, !.last = listCalls[i].nr]
        /\ listCalls' = RemoveAt(listCalls, i)
        /\ UNCHANGED <<list, listRows, filters, due, sent, listDone, listMode>>

\* A request that fails leaves the result of an earlier one behind the error.
Fail ==
    \E i \in DOMAIN listCalls :
        /\ listMode = "lossy"
        /\ listScreen' = [listScreen EXCEPT !.loading = FALSE, !.error = TRUE]
        /\ listCalls' = RemoveAt(listCalls, i)
        /\ UNCHANGED <<list, listRows, filters, due, sent, listDone, listMode>>

----------------------------------------------------------------------------
(* What the user does *)

\* The form is never disabled; all but a hasty user wait for the answer.
ListUserActs ==
    /\ listDone < ListMaxOps[listMode]
    /\ listMode # "hasty" => ~due /\ listCalls = <<>>
    /\ listDone' = listDone + 1
    /\ UNCHANGED <<list, listRows, listCalls, sent, listScreen, listMode>>

\* The fault: a filter leaves the page as it is.
SamePage(f, page) == [f EXCEPT !.page = page]

\* A filter starts from the first page.
FirstPage(f, page) == [f EXCEPT !.page = 1]

\* The effect runs again if something it reads has changed.
Refilter(f) ==
    /\ filters' = FirstPage(f, filters.page)
    /\ due' = (due \/ filters' # filters)

\* the same text may be submitted again
Search ==
    ListUserActs /\ \E text \in BOOLEAN : Refilter([filters EXCEPT !.search = text])

PickStatus ==
    /\ ListUserActs
    /\ \E s \in ({Nil} \cup Statuses(list)) \ {filters.status} :
           Refilter([filters EXCEPT !.status = s])

PickKind ==
    /\ ListUserActs
    /\ list # "organizations"
    /\ \E k \in ({Nil} \cup ListKinds(list)) \ {filters.kind} :
           Refilter([filters EXCEPT !.kind = k])

\* the checkbox of the organizations
IncludeArchived ==
    /\ ListUserActs
    /\ list = "organizations"
    /\ Refilter([filters EXCEPT !.archived = ~@])

\* The table is shown, or the empty state of two of the lists, which has no
\* buttons: beyond the last page one cannot go back but by a filter.
OrganizationsPaged == listScreen.result # Nil /\ listScreen.result.data # {}
OfficesPaged       == listScreen.result # Nil /\ listScreen.result.data # {}

\* The two others always have them.
AdminsPaged  == TRUE
SectionPaged == TRUE

Paged ==
    /\ ~listScreen.loading /\ ~listScreen.error
    /\ CASE list = "organizations" -> OrganizationsPaged
         [] list = "admins" -> AdminsPaged
         [] list = "offices" -> OfficesPaged
         [] OTHER -> SectionPaged

CanPrevious == Paged /\ filters.page > 1
CanNext ==
    Paged /\ listScreen.result # Nil /\ filters.page < TotalPages(listScreen.result.total)

Turn(by) ==
    /\ filters' = [filters EXCEPT !.page = @ + by]
    /\ due' = TRUE

Previous == ListUserActs /\ CanPrevious /\ Turn(-1)
NextPage == ListUserActs /\ CanNext /\ Turn(1)

\* the button of an error
ListRetry ==
    /\ listScreen.error
    /\ listDone < ListMaxOps[listMode]
    /\ listDone' = listDone + 1
    /\ Send
    /\ UNCHANGED <<list, listRows, filters, due, listMode>>

----------------------------------------------------------------------------
(* Others create rows and change their status; nothing is ever deleted. *)

Touched(call) == IF call.total = Nil THEN call ELSE [call EXCEPT !.torn = TRUE]

OthersChange ==
    /\ listMode = "shared"
    /\ listDone < ListMaxOps[listMode]
    /\ listDone' = listDone + 1
    /\ \/ /\ Len(listRows) < MaxRows
          /\ \E row \in Rows(list) : listRows' = Append(listRows, row)
       \/ \E i \in DOMAIN listRows :
              \E s \in Statuses(list) \ {listRows[i].status} :
                  listRows' = [listRows EXCEPT ![i].status = s]
    /\ listCalls' = [i \in DOMAIN listCalls |-> Touched(listCalls[i])]
    /\ listScreen' = IF listScreen.result = Nil THEN listScreen
                     ELSE [listScreen EXCEPT !.result.torn = TRUE]
    /\ UNCHANGED <<list, filters, due, sent, listMode>>

----------------------------------------------------------------------------
NoFilter == [search |-> FALSE, status |-> Nil, kind |-> Nil,
             archived |-> FALSE, page |-> 1]

\* The page opens.  Users are hasty, requests fail and others change the rows
\* in the modes of these names only.
ListInit ==
    /\ list \in ShownLists
    /\ listRows \in UNION {[1..n -> Rows(list)] : n \in 0..MaxRows}
    /\ filters = NoFilter
    /\ due = TRUE
    /\ listScreen = [result |-> Nil, loading |-> TRUE, error |-> FALSE, last |-> 0]
    /\ listCalls = <<>> /\ sent = 0 /\ listDone = 0
    /\ listMode \in PageModes

ListNext ==
    \/ ListLoad \/ CountRows \/ ReadRows \/ Receive \/ Fail
    \/ Search \/ PickStatus \/ PickKind \/ IncludeArchived
    \/ Previous \/ NextPage \/ ListRetry
    \/ OthersChange

ListSpec == ListInit /\ [][ListNext]_lists

----------------------------------------------------------------------------
ListTypeOK ==
    /\ list \in ShownLists
    /\ listRows \in Seq(Rows(list)) /\ Len(listRows) <= MaxRows
    /\ filters \in Filters
    /\ due \in BOOLEAN
    /\ listScreen \in [result : {Nil} \cup ListAnswer, loading : BOOLEAN,
                       error : BOOLEAN, last : Nat]
    /\ listCalls \in Seq(ListCall)
    /\ sent \in Nat /\ listScreen.last <= sent
    /\ \A i \in DOMAIN listCalls : listCalls[i].nr \in 1..sent
    /\ listMode \in PageModes /\ listDone \in 0..ListMaxOps[listMode]

\* Nothing is on its way, nothing failed, and the answer to the request that
\* was sent last came last.
ListSettled ==
    /\ ~due /\ listCalls = <<>>
    /\ ~listScreen.loading /\ ~listScreen.error
    /\ listScreen.last = sent

\* A settled list whose rows nobody has changed since they were counted shows
\* the page of the rows that match its filters, their number, and a `ListNext'
\* that leads to the rows that are left.  An answer that is overtaken, and a
\* page that is empty because others changed its rows, are what the pages do
\* not guard against.
ListScreenTrue ==
    ListSettled /\ ~listScreen.result.torn =>
        LET found == Found(filters) IN
        /\ listScreen.result.data = PageOf(found, filters.page)
        /\ listScreen.result.total = Cardinality(found)
        /\ CanNext <=> filters.page * PageSize < Cardinality(found)

=============================================================================
