-------------------------------- MODULE Listing --------------------------------
(***************************************************************************)
(* The tables "Scheduled emails" and "Sent emails": one user pages through *)
(* a list that workers and API calls change meanwhile.  A page is read by  *)
(* offset, in two statements that run concurrently: the rows of the page,  *)
(* and the count from which the number of pages is computed.               *)
(*                                                                         *)
(* Campaigns are created and cancelled, and emails deferred and sent, one  *)
(* row at a time here; several rows of one commit are successive steps.    *)
(***************************************************************************)
EXTENDS Integers, FiniteSets

CONSTANTS
    Emails,       \* the rows of this user's campaigns
    PageSize,     \* limit
    LastKey,      \* bound: instants that are told apart
    MaxChanges,   \* bound: changes of the list while one tab is open
    Unread

ASSUME ListingAssumption ==
    /\ IsFiniteSet(Emails)
    /\ PageSize \in Nat \ {0}
    /\ LastKey \in Nat
    /\ MaxChanges \in Nat
    /\ Unread \notin Nat
    /\ \A S \in SUBSET Emails : Unread # S

Tabs == {"scheduled", "sent"}
Keys == 0..LastKey

VARIABLES
    group,        \* Postgres: the list whose statuses a row has, or "absent"
    key,          \* Postgres: its sort key there, ascending in the order of the list
    tab, page, totalPages, rows, loading, error,   \* the page component's state
    reqs,         \* requests of this component that have not been answered
    rowsOf,       \* history: the page for which rows was read
    missed,       \* history: rows listed when the tab was opened, not changed and
                  \* not shown since
    changes,      \* history: changes of the list since then
    tied          \* history: a page was read from a list with equal keys

db == <<group, key>>
view == <<tab, page, totalPages, rows, loading, error, rowsOf>>
walk == <<missed, changes, tied>>
vars == <<db, view, reqs, walk>>

\* where: status in SCHEDULED_STATUSES, or in COMPLETED_STATUSES.
List(t) == {e \in Emails : group[e] = t}

-----------------------------------------------------------------------------
\* The query.  A set of first rows in an order by key; equal keys come in any
\* order, and in another one the next time.
Firsts(n) ==
    {A \in SUBSET List(tab) :
        /\ Cardinality(A) = IF n < Cardinality(List(tab)) THEN n ELSE Cardinality(List(tab))
        /\ \A e \in A, f \in List(tab) \ A : key[e] <= key[f]}

SkipOneMore(p) == (p - 1) * PageSize + 1                          \* mutant
Skip(p) == (p - 1) * PageSize

PageOf(p) ==
    {ab[2] \ ab[1] : ab \in {x \in Firsts(Skip(p)) \X Firsts(Skip(p) + PageSize) :
                               x[1] \subseteq x[2]}}

OnePageMore(total) == total \div PageSize + 1                     \* mutant
PagesOf(total) == (total + PageSize - 1) \div PageSize

-----------------------------------------------------------------------------
\* What the page component renders: TableStates, or the table and its buttons.
Screen ==
    CASE loading -> "loading"
      [] ~loading /\ error -> "error"
      [] ~loading /\ ~error /\ rows = {} -> "empty"
      [] OTHER -> "table"

Request(p) == [page |-> p, rows |-> Unread, total |-> Unread]

\* load(): the effect of opening the tab, of a page change, or of "Try again".
Load(p) ==
    /\ loading' = TRUE
    /\ error' = FALSE
    /\ reqs' = reqs \cup {Request(p)}

\* The tab is mounted with fresh state; answers to its predecessor are dropped.
Open(t) ==
    /\ tab' = t
    /\ page' = 1
    /\ totalPages' = 1
    /\ rows' = {}
    /\ loading' = TRUE
    /\ error' = FALSE
    /\ reqs' = {Request(1)}
    /\ rowsOf' = 1
    /\ missed' = List(t)
    /\ changes' = 0
    /\ tied' = FALSE
    /\ UNCHANGED db

Turn(p) ==
    /\ page' = p
    /\ Load(p)
    /\ UNCHANGED <<db, tab, totalPages, rows, rowsOf, walk>>

NextPageAnyTime == page < totalPages /\ Turn(page + 1)            \* mutant
NextPage == Screen = "table" /\ page < totalPages /\ Turn(page + 1)
PreviousPageAnyTime == page > 1 /\ Turn(page - 1)                \* mutant
PreviousPage == Screen = "table" /\ page > 1 /\ Turn(page - 1)

Retry ==
    /\ Screen = "error"
    /\ Load(page)
    /\ UNCHANGED <<db, tab, page, totalPages, rows, rowsOf, walk>>

Replace(r, s) == reqs' = (reqs \ {r}) \cup {s}

Find(r) ==
    /\ r.rows = Unread
    /\ \E S \in PageOf(r.page) : Replace(r, [r EXCEPT !.rows = S])
    /\ tied' = (tied \/ \E e, f \in List(tab) : e # f /\ key[e] = key[f])
    /\ UNCHANGED <<db, view, missed, changes>>

Count(r) ==
    /\ r.total = Unread
    /\ Replace(r, [r EXCEPT !.total = Cardinality(List(tab))])
    /\ UNCHANGED <<db, view, walk>>

Answer(r) ==
    /\ r.rows # Unread
    /\ r.total # Unread
    /\ rows' = r.rows
    /\ rowsOf' = r.page
    /\ totalPages' = PagesOf(r.total)
    /\ loading' = FALSE
    /\ reqs' = reqs \ {r}
    /\ missed' = missed \ r.rows
    /\ UNCHANGED <<db, tab, page, error, changes, tied>>

FailWithoutFinally(r) ==                                          \* mutant
    /\ error' = TRUE
    /\ reqs' = reqs \ {r}
    /\ UNCHANGED <<db, tab, page, totalPages, rows, loading, rowsOf, walk>>

\* No token, no connection, an error of a statement or of the server.
Fail(r) ==
    /\ error' = TRUE
    /\ loading' = FALSE
    /\ reqs' = reqs \ {r}
    /\ UNCHANGED <<db, tab, page, totalPages, rows, rowsOf, walk>>

-----------------------------------------------------------------------------
\* What others do to the rows.
Changed(e, tabs) ==
    /\ changes < MaxChanges
    /\ IF tab \in tabs
       THEN missed' = missed \ {e} /\ changes' = changes + 1
       ELSE UNCHANGED <<missed, changes>>
    /\ UNCHANGED <<view, reqs, tied>>

Put(e, t, k) ==
    /\ group' = [group EXCEPT ![e] = t]
    /\ key' = [key EXCEPT ![e] = k]

Create(e, k) ==
    /\ group[e] = "absent"
    /\ Put(e, "scheduled", k)
    /\ Changed(e, {"scheduled"})

Defer(e, k) ==
    /\ group[e] = "scheduled"
    /\ k > key[e]
    /\ Put(e, "scheduled", k)
    /\ Changed(e, {"scheduled"})

\* A row ends: a late sentAt comes first, and no sentAt (FAILED, CANCELLED)
\* before all, with key 0.  Transactions need not commit in the order of sentAt.
End(e, k) ==
    /\ group[e] = "scheduled"
    /\ Put(e, "sent", k)
    /\ Changed(e, Tabs)

Init ==
    /\ group = [e \in Emails |-> "absent"]
    /\ key = [e \in Emails |-> 0]
    /\ tab \in Tabs
    /\ page = 1
    /\ totalPages = 1
    /\ rows = {}
    /\ loading = TRUE
    /\ error = FALSE
    /\ reqs = {Request(1)}
    /\ rowsOf = 1
    /\ missed = {}
    /\ changes = 0
    /\ tied = FALSE

User == (\E t \in Tabs : Open(t)) \/ NextPage \/ PreviousPage \/ Retry
Server == \E r \in reqs : Find(r) \/ Count(r) \/ Answer(r) \/ Fail(r)
Others == \E e \in Emails, k \in Keys : Create(e, k) \/ Defer(e, k) \/ End(e, k)

Next == User \/ Server \/ Others

\* A request is served in the end, or fails: both statements and the answer run.
Spec == Init /\ [][Next]_vars /\ WF_vars(Server)

-----------------------------------------------------------------------------
Requests == [page : Nat \ {0}, rows : {Unread} \cup SUBSET Emails, total : {Unread} \cup Nat]

Types ==
    /\ group \in [Emails -> Tabs \cup {"absent"}]
    /\ key \in [Emails -> Keys]
    /\ tab \in Tabs
    /\ page \in Nat \ {0}
    /\ totalPages \in Nat
    /\ rows \in SUBSET Emails
    /\ loading \in BOOLEAN
    /\ error \in BOOLEAN
    /\ reqs \subseteq Requests
    /\ rowsOf \in Nat \ {0}
    /\ missed \in SUBSET Emails
    /\ changes \in 0..MaxChanges
    /\ tied \in BOOLEAN

InFlight ==
    /\ loading => \E r \in reqs : reqs = {r} /\ r.page = page
    /\ ~loading => reqs = {}

\* Types, and what is in flight: a component that loads awaits exactly one request,
\* the one for its page, and one that does not load awaits none, although load()
\* neither cancels nor tells apart the requests of earlier pages
\* (app/dashboard/scheduled/page.tsx:14-28 and 43).
TypeOK == Types /\ InFlight

\* The rows under "Page p of n" are those of page p, although answers may come
\* in any order and neither page cancels a request or compares page numbers
\* (app/dashboard/scheduled/page.tsx:14-28): the buttons are hidden while one is
\* under way (line 43).
RowsMatchPage == Screen = "table" => rowsOf = page

\* "Nothing here yet" (components/EmailTable.tsx:147-158) is the truth when the
\* list has not changed since the tab was opened; and in the list of ended
\* emails, which never shrinks, paging never runs past the end.
NothingHereYet ==
    Screen = "empty" =>
        /\ changes = 0 => List(tab) = {}
        /\ tab = "sent" => page = 1

\* Paging by offset over a list in motion (api/routes/emails.ts:33-57): whoever
\* has reached the last page, or an empty one, has been shown every row that was
\* there all the time, except at most one for each change of the list.  This
\* takes an order without ties: orderBy names one column, and rows that share it
\* may trade places between two reads.
WalkMisses ==
    (Screen \in {"table", "empty"} /\ page >= totalPages /\ ~tied)
        => Cardinality(missed) <= changes

\* The skeleton rows give way to an answer or to an error message: the finally
\* block runs on every path (app/dashboard/scheduled/page.tsx:23-25).
\* A user who reloads for ever sees skeletons for ever.
LoadSettles == <>[][\A t \in Tabs : ~Open(t)]_vars => (loading ~> ~loading)

=============================================================================
