---------------------------- MODULE Listing_proofs -----------------------------
(* What the two tables show: the rows of their page, an emptiness that is true, and     *)
(* of a list in motion all rows but one for each change.                              *)
EXTENDS Listing, CardinalityLemmas, TLAPS, FiniteSetTheorems

USE ListingAssumption

LEMMA Listed == \A t : Cardinality(List(t)) \in Nat /\ List(t) \in SUBSET Emails
<1>1. \A t : List(t) \subseteq Emails
  BY DEF List
<1> QED
  BY <1>1, FS_Subset, FS_CardinalityType

LEMMA PagesNat == ASSUME NEW n \in Nat PROVE PagesOf(n) \in Nat
<1>1. n + PageSize - 1 \in Nat /\ PageSize > 0
  OBVIOUS
<1> QED
  BY <1>1 DEF PagesOf

LEMMA PageRows == ASSUME NEW p, NEW S \in PageOf(p) PROVE S \in SUBSET Emails
<1>1. PICK ab \in Firsts(Skip(p)) \X Firsts(Skip(p) + PageSize) : S = ab[2] \ ab[1]
  BY DEF PageOf
<1>2. ab[2] \in SUBSET List(tab)
  BY <1>1 DEF Firsts
<1> QED
  BY <1>1, <1>2, Listed

LEMMA RequestType == ASSUME NEW p \in Nat \ {0} PROVE Request(p) \in Requests
  BY DEF Request, Requests

-----------------------------------------------------------------------------

LEMMA TypesInit == Init => Types
<1> SUFFICES ASSUME Init PROVE Types
  OBVIOUS
<1>1. reqs \subseteq Requests
  BY RequestType DEF Init
<1>2. /\ group \in [Emails -> Tabs \cup {"absent"}]
      /\ key \in [Emails -> Keys]
  BY DEF Init, Keys
<1>3. /\ tab \in Tabs /\ page \in Nat \ {0} /\ totalPages \in Nat /\ rowsOf \in Nat \ {0}
      /\ rows \in SUBSET Emails /\ missed \in SUBSET Emails /\ changes \in 0..MaxChanges
  BY DEF Init
<1>4. loading \in BOOLEAN /\ error \in BOOLEAN /\ tied \in BOOLEAN
  BY DEF Init
<1> QED
  BY <1>1, <1>2, <1>3, <1>4 DEF Types, Requests

LEMMA TypesNext == Types /\ [Next]_vars => Types'
<1> SUFFICES ASSUME Types, [Next]_vars PROVE Types'
  OBVIOUS
<1> USE DEF Types
<1>q. reqs \subseteq Requests
  BY DEF Requests
<1>1. ASSUME NEW t \in Tabs, Open(t) PROVE Types'
  <2>1. reqs' \subseteq Requests
    BY <1>1, RequestType DEF Open
  <2>2. missed' \in SUBSET Emails
    BY <1>1, Listed DEF Open
  <2>3. /\ tab' \in Tabs /\ page' \in Nat \ {0} /\ totalPages' \in Nat
        /\ rowsOf' \in Nat \ {0} /\ rows' \in SUBSET Emails /\ changes' \in 0..MaxChanges
    BY <1>1 DEF Open
  <2>4. loading' \in BOOLEAN /\ error' \in BOOLEAN /\ tied' \in BOOLEAN
    BY <1>1 DEF Open
  <2>5. UNCHANGED <<group, key>>
    BY <1>1 DEF Open, db
  <2> QED
    BY <2>1, <2>2, <2>3, <2>4, <2>5 DEF Requests
<1>2. ASSUME NEW p \in Nat \ {0}, Load(p), page' = p,
             UNCHANGED <<db, tab, totalPages, rows, rowsOf, walk>>
      PROVE Types'
  <2>1. reqs' \subseteq Requests
    BY <1>2, <1>q, RequestType DEF Load
  <2> QED
    BY <1>2, <2>1 DEF Load, db, walk, Requests
<1>3. ASSUME NextPage \/ PreviousPage \/ Retry PROVE Types'
  <2>1. page + 1 \in Nat \ {0} /\ (page > 1 => page - 1 \in Nat \ {0})
    OBVIOUS
  <2> QED
    BY <1>2, <1>3, <2>1 DEF NextPage, PreviousPage, Turn, Retry
<1>4. ASSUME NEW r \in reqs, Find(r) PROVE Types'
  <2>1. PICK S \in PageOf(r.page) : Replace(r, [r EXCEPT !.rows = S])
    BY <1>4 DEF Find
  <2>2. [r EXCEPT !.rows = S] \in Requests
    BY <1>q, PageRows DEF Requests
  <2>3. reqs' \subseteq Requests
    BY <1>q, <2>1, <2>2 DEF Replace
  <2> QED
    BY <1>4, <2>3 DEF Find, db, view, Requests
<1>5. ASSUME NEW r \in reqs, Count(r) PROVE Types'
  <2>1. [r EXCEPT !.total = Cardinality(List(tab))] \in Requests
    BY <1>q, Listed DEF Requests
  <2>2. reqs' \subseteq Requests
    BY <1>5, <1>q, <2>1 DEF Count, Replace
  <2> QED
    BY <1>5, <2>2 DEF Count, db, view, walk, Requests
<1>6. ASSUME NEW r \in reqs, Answer(r) PROVE Types'
  <2>1. r.rows \in SUBSET Emails /\ r.total \in Nat /\ r.page \in Nat \ {0}
    BY <1>6 DEF Answer, Requests
  <2> QED
    BY <1>6, <2>1, PagesNat DEF Answer, db
<1>7. ASSUME NEW r \in reqs, Fail(r) PROVE Types'
  BY <1>7 DEF Fail, db, walk
<1>8. ASSUME NEW e \in Emails, NEW k \in Keys, Create(e, k) \/ Defer(e, k) \/ End(e, k)
      PROVE Types'
  BY <1>8 DEF Create, Defer, End, Put, Changed, view, Tabs
<1>9. ASSUME UNCHANGED vars PROVE Types'
  BY <1>9 DEF vars, db, view, walk
<1> QED
  BY <1>1, <1>3, <1>4, <1>5, <1>6, <1>7, <1>8, <1>9 DEF Next, User, Server, Others

LEMMA TypesHold == Spec => []Types
  BY TypesInit, TypesNext, PTL DEF Spec

-----------------------------------------------------------------------------
\* One request while the component loads, for the page it is on; none otherwise.
OneRequest ==
    /\ loading => \E r \in Requests : reqs = {r} /\ r.page = page
    /\ ~loading => reqs = {}
    /\ ~loading /\ ~error => rowsOf = page

LEMMA OneRequestInit == Init => OneRequest
<1>1. Request(1) \in Requests /\ Request(1).page = 1
  BY RequestType DEF Request
<1> QED
  BY <1>1 DEF Init, OneRequest

LEMMA OneRequestNext == Types /\ OneRequest /\ [Next]_vars => OneRequest'
<1> SUFFICES ASSUME Types, OneRequest, [Next]_vars PROVE OneRequest'
  OBVIOUS
<1> USE DEF OneRequest
<1>1. ASSUME NEW t \in Tabs, Open(t) PROVE OneRequest'
  <2>1. Request(1) \in Requests /\ Request(1).page = 1
    BY RequestType DEF Request
  <2> QED
    BY <1>1, <2>1 DEF Open
<1>2. ASSUME NEW p \in Nat \ {0}, ~loading, Load(p), page' = p PROVE OneRequest'
  <2>1. Request(p) \in Requests /\ Request(p).page = p
    BY RequestType DEF Request
  <2> QED
    BY <1>2, <2>1 DEF Load
<1>3. ASSUME NextPage \/ PreviousPage \/ Retry PROVE OneRequest'
  <2>1. ~loading
    BY <1>3 DEF NextPage, PreviousPage, Retry, Screen
  <2>2. page + 1 \in Nat \ {0} /\ (page > 1 => page - 1 \in Nat \ {0}) /\ page \in Nat \ {0}
    BY DEF Types
  <2> QED
    BY <1>2, <1>3, <2>1, <2>2 DEF NextPage, PreviousPage, Turn, Retry
<1>4. ASSUME NEW r \in reqs, NEW s \in Requests, s.page = r.page, Replace(r, s), UNCHANGED view
      PROVE OneRequest'
  BY <1>4 DEF Replace, view
<1>5. ASSUME NEW r \in reqs, Find(r) \/ Count(r) PROVE OneRequest'
  <2>1. r \in Requests
    BY DEF Types, Requests
  <2>2. CASE Find(r)
    <3>1. PICK S \in PageOf(r.page) : Replace(r, [r EXCEPT !.rows = S])
      BY <2>2 DEF Find
    <3>2. [r EXCEPT !.rows = S] \in Requests /\ [r EXCEPT !.rows = S].page = r.page
      BY <2>1, PageRows DEF Requests
    <3> QED
      BY <1>4, <2>2, <3>1, <3>2 DEF Find
  <2>3. CASE Count(r)
    <3> DEFINE s == [r EXCEPT !.total = Cardinality(List(tab))]
    <3>1. s \in Requests /\ s.page = r.page
      BY <2>1, Listed DEF Requests
    <3> QED
      BY <1>4, <2>3, <3>1 DEF Count
  <2> QED
    BY <1>5, <2>2, <2>3
<1>6. ASSUME NEW r \in reqs, Answer(r) \/ Fail(r) PROVE OneRequest'
  <2>1. reqs = {r} /\ r.page = page
    OBVIOUS
  <2> QED
    BY <1>6, <2>1 DEF Answer, Fail
<1>7. ASSUME NEW e \in Emails, NEW k \in Keys, Create(e, k) \/ Defer(e, k) \/ End(e, k)
      PROVE OneRequest'
  BY <1>7 DEF Create, Defer, End, Changed, view
<1>8. ASSUME UNCHANGED vars PROVE OneRequest'
  BY <1>8 DEF vars, view
<1> QED
  BY <1>1, <1>3, <1>5, <1>6, <1>7, <1>8 DEF Next, User, Server, Others

LEMMA OneRequestHolds == Spec => []OneRequest
  BY TypesHold, OneRequestInit, OneRequestNext, PTL DEF Spec

\* A component that loads awaits exactly one request, the one for its page, and one
\* that does not load awaits none, however pages are turned, reloaded and failed
\* (app/dashboard/scheduled/page.tsx:14-28 and 43); every variable keeps to its type.
THEOREM ListingTypeCorrect == Spec => []TypeOK
<1>1. OneRequest => InFlight
  BY DEF OneRequest, InFlight
<1> QED
  BY <1>1, TypesHold, OneRequestHolds, PTL DEF TypeOK

\* Whatever order requests fail and answers come in, the rows under "Page p of n"
\* are those of page p (app/dashboard/scheduled/page.tsx:14-28 and 43-65).
THEOREM RowsAlwaysMatch == Spec => []RowsMatchPage
<1>1. OneRequest => RowsMatchPage
  BY DEF OneRequest, RowsMatchPage, Screen
<1> QED
  BY <1>1, OneRequestHolds, PTL
-----------------------------------------------------------------------------
\* Where pages begin, and how many there are.
LEMMA SkipSteps ==
    ASSUME NEW p \in Nat \ {0}
    PROVE  /\ Skip(p) \in Nat /\ Skip(1) = 0
           /\ Skip(p + 1) = Skip(p) + PageSize
<1>1. p - 1 \in Nat /\ PageSize \in Nat
  OBVIOUS
<1>2. (p - 1) * PageSize \in Nat /\ 0 * PageSize = 0
  BY <1>1
<1>3. ((p + 1) - 1) * PageSize = (p - 1) * PageSize + PageSize
  BY <1>1
<1> QED
  BY <1>2, <1>3 DEF Skip

LEMMA PagesBegin ==
    ASSUME NEW n \in Nat, NEW p \in Nat \ {0}
    PROVE  /\ p <= PagesOf(n) => Skip(p) < n
           /\ PagesOf(n) <= p => n <= Skip(p) + PageSize
<1> DEFINE q == PagesOf(n)
<1>1. PageSize \in Nat \ {0} /\ n + PageSize - 1 \in Nat
  OBVIOUS
<1>2. q \in Nat /\ q * PageSize <= n + PageSize - 1 /\ n + PageSize - 1 < q * PageSize + PageSize
  BY <1>1 DEF PagesOf
<1> HIDE DEF q
<1>3. p <= q => p * PageSize <= q * PageSize
  BY <1>1, <1>2
<1>4. q <= p => q * PageSize <= p * PageSize
  BY <1>1, <1>2
<1>5. p * PageSize = (p - 1) * PageSize + PageSize /\ (p - 1) * PageSize \in Nat /\ q * PageSize \in Nat
  BY <1>1, <1>2
<1>6. p <= q => (p - 1) * PageSize < n
  BY <1>1, <1>2, <1>3, <1>5
<1>7. q <= p => n <= (p - 1) * PageSize + PageSize
  BY <1>1, <1>2, <1>4, <1>5
<1> QED
  BY <1>6, <1>7 DEF Skip, q

-----------------------------------------------------------------------------
\* A page is empty only past the end of the list.
LEMMA FirstsSize ==
    ASSUME NEW n \in Nat, NEW A \in Firsts(n)
    PROVE  /\ A \subseteq List(tab) /\ IsFiniteSet(A) /\ Cardinality(A) \in Nat
           /\ n < Cardinality(List(tab)) => Cardinality(A) = n
           /\ n >= Cardinality(List(tab)) => A = List(tab)
<1>1. IsFiniteSet(List(tab)) /\ Cardinality(List(tab)) \in Nat /\ A \in SUBSET List(tab)
  BY Listed, FS_Subset DEF Firsts
<1>2. /\ IsFiniteSet(A) /\ Cardinality(A) \in Nat
      /\ Cardinality(List(tab)) = Cardinality(A) => List(tab) = A
  BY <1>1, FS_Subset, FS_CardinalityType
<1>3. /\ n < Cardinality(List(tab)) => Cardinality(A) = n
      /\ n >= Cardinality(List(tab)) => Cardinality(A) = Cardinality(List(tab))
  BY <1>1 DEF Firsts
<1> QED
  BY <1>1, <1>2, <1>3

LEMMA EmptyPage ==
    ASSUME NEW p \in Nat \ {0}, {} \in PageOf(p)
    PROVE  Cardinality(List(tab)) <= Skip(p)
<1>1. PICK A \in Firsts(Skip(p)), B \in Firsts(Skip(p) + PageSize) : A \subseteq B /\ B \ A = {}
  <2>1. PICK ab \in Firsts(Skip(p)) \X Firsts(Skip(p) + PageSize) : ab[1] \subseteq ab[2] /\ ab[2] \ ab[1] = {}
    BY DEF PageOf
  <2> QED
    BY <2>1
<1>2. A = B
  BY <1>1
<1>3. Skip(p) \in Nat /\ Skip(p) + PageSize \in Nat /\ PageSize \in Nat \ {0} /\ Cardinality(List(tab)) \in Nat
  BY SkipSteps, Listed
<1>4. SUFFICES ASSUME Skip(p) < Cardinality(List(tab)) PROVE FALSE
  BY <1>3
<1>5. Cardinality(A) = Skip(p)
  BY <1>3, <1>4, FirstsSize
<1>6. Skip(p) + PageSize < Cardinality(List(tab)) => Cardinality(B) = Skip(p) + PageSize
  BY <1>3, FirstsSize
<1>7. Skip(p) + PageSize >= Cardinality(List(tab)) => B = List(tab)
  BY <1>3, FirstsSize
<1> QED
  BY <1>2, <1>3, <1>4, <1>5, <1>6, <1>7

\* As long as the list has only grown, or has not changed at all, no page is
\* reached that is past its end.
Steady == tab = "sent" \/ changes = 0
InRange(p) == p = 1 \/ Skip(p) < Cardinality(List(tab))
EmptyTrue == page = 1 /\ (changes = 0 => List(tab) = {})

PagingInv == Steady =>
    /\ InRange(page)
    /\ \A p \in 1..totalPages : InRange(p)
    /\ \A r \in reqs : r.total # Unread => r.total <= Cardinality(List(tab))
    /\ \A r \in reqs : r.rows = {} => EmptyTrue
    /\ Screen = "empty" => EmptyTrue

\* What a change of a row is to the tab that is open: nothing, or a row that comes,
\* goes, or moves, and is no longer missed.
Comes(e) == e \notin List(tab) /\ List(tab)' = List(tab) \cup {e}
Goes(e) == e \in List(tab) /\ List(tab)' = List(tab) \ {e} /\ tab = "scheduled"
Moves(e) == e \in List(tab) /\ List(tab)' = List(tab) /\ tab = "scheduled"

LEMMA ListChange ==
    ASSUME Types, NEW e \in Emails, NEW k \in Keys, Create(e, k) \/ Defer(e, k) \/ End(e, k)
    PROVE  /\ UNCHANGED <<view, reqs, tied>>
           /\ \A g \in Emails \ {e} : key'[g] = key[g]
           /\ \/ /\ UNCHANGED <<changes, missed>>
                 /\ List(tab)' = List(tab) /\ e \notin List(tab)
              \/ /\ changes' = changes + 1 /\ missed' = missed \ {e}
                 /\ Comes(e) \/ Goes(e) \/ Moves(e)
<1>1. UNCHANGED <<view, reqs, tied>> /\ tab' = tab
  BY DEF Create, Defer, End, Changed, view
<1>2. \A g \in Emails \ {e} : key'[g] = key[g]
  BY DEF Types, Create, Defer, End, Put
<1>3. List(tab)' = {g \in Emails : group'[g] = tab} /\ tab \in {"scheduled", "sent"}
  BY <1>1 DEF List, Types, Tabs
<1>4. group \in [Emails -> Tabs \cup {"absent"}]
  BY DEF Types
<1>5. CASE Create(e, k)
  <2>1. group[e] = "absent" /\ group' = [group EXCEPT ![e] = "scheduled"]
    BY <1>5 DEF Create, Put
  <2>2. tab = "scheduled" => changes' = changes + 1 /\ missed' = missed \ {e} /\ Comes(e)
    BY <1>3, <1>4, <1>5, <2>1 DEF Create, Changed, Comes, List
  <2>3. tab = "sent" => UNCHANGED <<changes, missed>> /\ List(tab)' = List(tab) /\ e \notin List(tab)
    BY <1>3, <1>4, <1>5, <2>1 DEF Create, Changed, List
  <2> QED
    BY <1>1, <1>2, <1>3, <2>2, <2>3
<1>6. CASE Defer(e, k)
  <2>1. group[e] = "scheduled" /\ group' = [group EXCEPT ![e] = "scheduled"]
    BY <1>6 DEF Defer, Put
  <2>2. tab = "scheduled" => changes' = changes + 1 /\ missed' = missed \ {e} /\ Moves(e)
    BY <1>3, <1>4, <1>6, <2>1 DEF Defer, Changed, Moves, List
  <2>3. tab = "sent" => UNCHANGED <<changes, missed>> /\ List(tab)' = List(tab) /\ e \notin List(tab)
    BY <1>3, <1>4, <1>6, <2>1 DEF Defer, Changed, List
  <2> QED
    BY <1>1, <1>2, <1>3, <2>2, <2>3
<1>7. CASE End(e, k)
  <2>1. group[e] = "scheduled" /\ group' = [group EXCEPT ![e] = "sent"]
    BY <1>7 DEF End, Put
  <2>2. changes' = changes + 1 /\ missed' = missed \ {e}
    BY <1>3, <1>7 DEF End, Changed, Tabs
  <2>3. tab = "scheduled" => Goes(e)
    BY <1>3, <1>4, <2>1 DEF Goes, List
  <2>4. tab = "sent" => Comes(e)
    BY <1>3, <1>4, <2>1 DEF Comes, List
  <2> QED
    BY <1>1, <1>2, <1>3, <2>2, <2>3, <2>4
<1> QED
  BY <1>5, <1>6, <1>7

LEMMA PagingInit == Init => PagingInv
<1> SUFFICES ASSUME Init PROVE PagingInv
  OBVIOUS
<1>1. reqs = {Request(1)} /\ page = 1 /\ totalPages = 1 /\ loading
  BY DEF Init
<1>2. Request(1).total = Unread /\ Request(1).rows = Unread /\ Unread # {}
  BY DEF Request
<1> QED
  BY <1>1, <1>2 DEF PagingInv, InRange, Screen

LEMMA PagingNext == Types /\ OneRequest /\ PagingInv /\ [Next]_vars => PagingInv'
<1> SUFFICES ASSUME Types, OneRequest, PagingInv, [Next]_vars PROVE PagingInv'
  OBVIOUS
<1>1. ASSUME NEW t \in Tabs, Open(t) PROVE PagingInv'
  <2>1. reqs' = {Request(1)} /\ page' = 1 /\ totalPages' = 1 /\ loading'
    BY <1>1 DEF Open
  <2>2. Request(1).total = Unread /\ Request(1).rows = Unread /\ Unread # {}
    BY DEF Request
  <2> QED
    BY <2>1, <2>2 DEF PagingInv, InRange, Screen
<1>2. ASSUME NEW p \in Nat \ {0}, Steady => InRange(p), reqs = {}, page' = p, Load(p),
             UNCHANGED <<db, tab, totalPages, changes>>
      PROVE  PagingInv'
  <2>1. reqs' = {Request(p)} /\ loading'
    BY <1>2 DEF Load
  <2>2. Request(p).total = Unread /\ Request(p).rows = Unread /\ Unread # {}
    BY DEF Request
  <2>3. List(tab)' = List(tab)
    BY <1>2 DEF List, db
  <2> QED
    BY <1>2, <2>1, <2>2, <2>3 DEF PagingInv, InRange, Steady, Screen
<1>3. ASSUME NextPage \/ PreviousPage \/ Retry PROVE PagingInv'
  <2>1. page \in Nat \ {0} /\ totalPages \in Nat /\ page + 1 \in Nat \ {0}
    BY DEF Types
  <2>2. reqs = {} /\ UNCHANGED <<db, tab, totalPages, changes>>
    BY <1>3 DEF NextPage, PreviousPage, Retry, Turn, Screen, OneRequest, walk
  <2>3. CASE NextPage
    <3>1. page + 1 \in 1..totalPages /\ Load(page + 1) /\ page' = page + 1
      BY <2>1, <2>3 DEF NextPage, Turn
    <3> QED
      BY <1>2, <2>1, <2>2, <3>1 DEF PagingInv
  <2>4. CASE PreviousPage
    <3>1. page - 1 \in Nat \ {0} /\ Load(page - 1) /\ page' = page - 1 /\ (page - 1) + 1 = page
      BY <2>1, <2>4 DEF PreviousPage, Turn
    <3>2. Skip(page) = Skip(page - 1) + PageSize /\ Skip(page - 1) \in Nat /\ PageSize \in Nat
      BY <3>1, SkipSteps
    <3>3. Cardinality(List(tab)) \in Nat
      BY Listed
    <3>4. InRange(page) => InRange(page - 1)
      BY <2>1, <2>4, <3>1, <3>2, <3>3 DEF InRange, PreviousPage
    <3> QED
      BY <1>2, <2>2, <3>1, <3>4 DEF PagingInv
  <2>5. CASE Retry
    BY <1>2, <2>1, <2>2, <2>5 DEF PagingInv, Retry
  <2> QED
    BY <1>3, <2>3, <2>4, <2>5
<1>4. ASSUME NEW r \in reqs, Find(r) PROVE PagingInv'
  <2>1. PICK S \in PageOf(r.page) : reqs' = (reqs \ {r}) \cup {[r EXCEPT !.rows = S]}
    BY <1>4 DEF Find, Replace
  <2>2. loading /\ reqs = {r} /\ r.page = page /\ r \in Requests
    BY DEF OneRequest
  <2> DEFINE s == [r EXCEPT !.rows = S]
  <2>3. s.rows = S /\ s.total = r.total /\ reqs' = {s}
    BY <2>1, <2>2 DEF Requests
  <2> HIDE DEF s
  <2>4. UNCHANGED <<group, tab, page, totalPages, loading, changes>>
    BY <1>4 DEF Find, db, view
  <2>5. ASSUME Steady, S = {} PROVE EmptyTrue
    <3>1. page \in Nat \ {0} /\ Cardinality(List(tab)) <= Skip(page)
      BY <2>1, <2>2, <2>5, EmptyPage DEF Types
    <3>2. InRange(page) /\ Skip(page) \in Nat /\ Cardinality(List(tab)) \in Nat /\ Skip(1) = 0
      BY <2>5, <3>1, Listed, SkipSteps DEF PagingInv
    <3>3. page = 1 /\ Cardinality(List(tab)) = 0
      BY <3>1, <3>2 DEF InRange
    <3>4. List(tab) = {}
      BY <3>3, Listed, FS_Subset, FS_EmptySet
    <3> QED
      BY <3>3, <3>4 DEF EmptyTrue
  <2>6. List(tab)' = List(tab)
    BY <2>4 DEF List
  <2> QED
    BY <2>2, <2>3, <2>4, <2>5, <2>6 DEF PagingInv, Steady, InRange, EmptyTrue, Screen
<1>5. ASSUME NEW r \in reqs, Count(r) PROVE PagingInv'
  <2> DEFINE s == [r EXCEPT !.total = Cardinality(List(tab))]
  <2>1. loading /\ reqs = {r} /\ r \in Requests
    BY DEF OneRequest
  <2>2. s.rows = r.rows /\ s.total = Cardinality(List(tab)) /\ reqs' = {s}
    BY <1>5, <2>1 DEF Count, Replace, Requests
  <2> HIDE DEF s
  <2>3. UNCHANGED <<group, tab, page, totalPages, loading, changes>>
    BY <1>5 DEF Count, db, view, walk
  <2>4. List(tab)' = List(tab) /\ Cardinality(List(tab)) \in Nat
    BY <2>3, Listed DEF List
  <2> QED
    BY <2>1, <2>2, <2>3, <2>4 DEF PagingInv, Steady, InRange, EmptyTrue, Screen
<1>6. ASSUME NEW r \in reqs, Answer(r) PROVE PagingInv'
  <2>1. reqs = {r} /\ r \in Requests /\ r.total \in Nat
    BY <1>6 DEF OneRequest, Answer, Requests
  <2>2. reqs' = {} /\ rows' = r.rows /\ totalPages' = PagesOf(r.total)
    BY <1>6, <2>1 DEF Answer
  <2>3. UNCHANGED <<group, tab, page, changes>>
    BY <1>6 DEF Answer, db
  <2>4. List(tab)' = List(tab) /\ Cardinality(List(tab)) \in Nat
    BY <2>3, Listed DEF List
  <2>5. ASSUME Steady, NEW p \in 1..PagesOf(r.total) PROVE InRange(p)
    <3>1. PagesOf(r.total) \in Nat
      BY <2>1, PagesNat
    <3>2. p \in Nat \ {0} /\ p <= PagesOf(r.total)
      BY <3>1
    <3>3. Skip(p) < r.total /\ Skip(p) \in Nat
      BY <2>1, <3>2, PagesBegin, SkipSteps
    <3>4. r.total <= Cardinality(List(tab))
      BY <1>6, <2>5 DEF PagingInv, Answer
    <3> QED
      BY <2>1, <2>4, <3>3, <3>4 DEF InRange
  <2>6. Steady /\ rows' = {} => EmptyTrue
    BY <2>2 DEF PagingInv
  <2> QED
    BY <2>2, <2>3, <2>4, <2>5, <2>6 DEF PagingInv, Steady, InRange, EmptyTrue, Screen
<1>7. ASSUME NEW r \in reqs, Fail(r) PROVE PagingInv'
  <2>1. UNCHANGED <<group, tab, page, totalPages, changes>> /\ reqs' \subseteq reqs /\ error'
    BY <1>7 DEF Fail, db, walk
  <2>2. List(tab)' = List(tab)
    BY <2>1 DEF List
  <2> QED
    BY <2>1, <2>2 DEF PagingInv, Steady, InRange, EmptyTrue, Screen
<1>8. ASSUME NEW e \in Emails, NEW k \in Keys, Create(e, k) \/ Defer(e, k) \/ End(e, k)
      PROVE PagingInv'
  <2>1. UNCHANGED <<tab, page, totalPages, rows, loading, error, reqs>> /\ changes \in Nat
    BY <1>8, ListChange DEF view, Types
  <2>2. CASE changes' = changes /\ List(tab)' = List(tab)
    BY <2>1, <2>2 DEF PagingInv, Steady, InRange, EmptyTrue, Screen
  <2>3. CASE changes' = changes + 1 /\ (Goes(e) \/ Moves(e))
    BY <2>1, <2>3 DEF PagingInv, Steady, Goes, Moves
  <2>4. CASE changes' = changes + 1 /\ Comes(e)
    <3>1. SUFFICES ASSUME tab = "sent" PROVE PagingInv'
      BY <2>1, <2>4 DEF PagingInv, Steady
    <3>2. IsFiniteSet(List(tab)) /\ e \notin List(tab) /\ List(tab)' = List(tab) \cup {e}
      BY <2>4, Listed, FS_Subset DEF Comes
    <3>3. Cardinality(List(tab)') = Cardinality(List(tab)) + 1 /\ Cardinality(List(tab)) \in Nat
      BY <3>2, Listed, FS_AddElement
    <3>4. \A p \in Nat \ {0} : Skip(p) \in Nat
      BY SkipSteps
    <3>5. \A p \in Nat \ {0} : InRange(p) => InRange(p)'
      BY <3>3, <3>4 DEF InRange, Skip
    <3>6. \A r \in reqs : r.total # Unread => r.total \in Nat
      BY DEF Types, Requests
    <3>7. page \in Nat \ {0} /\ \A p \in 1..totalPages : p \in Nat \ {0}
      BY DEF Types
    <3>8. EmptyTrue => EmptyTrue'
      BY <2>1, <2>4 DEF EmptyTrue
    <3> QED
      BY <2>1, <3>1, <3>3, <3>5, <3>6, <3>7, <3>8 DEF PagingInv, Steady, Screen
  <2> QED
    BY <1>8, <2>2, <2>3, <2>4, ListChange
<1>9. ASSUME UNCHANGED vars PROVE PagingInv'
  BY <1>9 DEF vars, db, view, walk, PagingInv, Steady, InRange, EmptyTrue, Screen, List
<1> QED
  BY <1>1, <1>3, <1>4, <1>5, <1>6, <1>7, <1>8, <1>9 DEF Next, User, Server, Others

\* "Nothing here yet" is the truth as long as the list has not changed, and in the
\* list of ended emails it is on the first page or nowhere, however rows and total
\* are read between the changes (components/EmailTable.tsx:147-158,
\* api/routes/emails.ts:33-57).
THEOREM EmptyIsTrue == Spec => []NothingHereYet
<1>1. PagingInv => NothingHereYet
  BY DEF PagingInv, Steady, EmptyTrue, NothingHereYet
<1> QED
  BY <1>1, TypesHold, OneRequestHolds, PagingInit, PagingNext, PTL DEF Spec

-----------------------------------------------------------------------------
\* Sets of first rows, and what a change of one row does to them.
Low(B, L, k) == \A e \in B, g \in L \ B : k[e] <= k[g]
FirstOf(A, L, k, n) ==
    /\ A \subseteq L /\ Low(A, L, k)
    /\ n < Cardinality(L) => Cardinality(A) = n
    /\ n >= Cardinality(L) => A = L

Fits(B, L, n) ==
    Cardinality(B) = n \/ Cardinality(B) + 1 = n \/ (B = L /\ Cardinality(B) <= n)
Covered(B, f, L, k, n) ==
    \E A : FirstOf(A, L, k, n) /\ (\E x : B \subseteq A \cup {x}) /\ (f \notin L => B \subseteq A)

LEMMA Earliest ==
    ASSUME NEW S, S # {}, NEW k, \A e \in S : k[e] \in Keys
    PROVE  \E m \in S : \A e \in S : k[m] <= k[e]
<1>1. {k[e] : e \in S} \subseteq Nat /\ {k[e] : e \in S} # {}
  BY DEF Keys
<1>2. PICK n \in {k[e] : e \in S} : \A i \in {k[e] : e \in S} : n <= i
  BY <1>1, LeastMember
<1> QED
  BY <1>2

LEMMA Latest ==
    ASSUME NEW S, S # {}, NEW k, \A e \in S : k[e] \in Keys
    PROVE  \E m \in S : \A e \in S : k[e] <= k[m]
<1>1. {LastKey - k[e] : e \in S} \subseteq Nat /\ {LastKey - k[e] : e \in S} # {}
  BY DEF Keys
<1>2. PICK n \in {LastKey - k[e] : e \in S} : \A i \in {LastKey - k[e] : e \in S} : n <= i
  BY <1>1, LeastMember
<1>3. PICK m \in S : n = LastKey - k[m]
  BY <1>2
<1>4. \A e \in S : LastKey - k[m] <= LastKey - k[e]
  BY <1>2, <1>3
<1> QED
  BY <1>4 DEF Keys

\* If B is first without f, then some first n rows of all hold B but for one row,
\* and all of B when f is not listed.
LEMMA Displace ==
    ASSUME NEW L, IsFiniteSet(L), NEW k, \A e \in L : k[e] \in Keys, NEW f, NEW n \in Nat,
           NEW B, B \subseteq L \ {f}, Low(B, L \ {f}, k),
           Fits(B, L \ {f}, n)
    PROVE  Covered(B, f, L, k, n)
<1> USE DEF Fits, Covered
<1>1. /\ Cardinality(L) \in Nat /\ IsFiniteSet(B) /\ Cardinality(B) \in Nat
      /\ f \in L => Cardinality(L \ {f}) = Cardinality(L) - 1
      /\ f \notin L => L \ {f} = L
      /\ Cardinality(B) = Cardinality(L) => B = L
  BY FS_Subset, FS_CardinalityType, FS_RemoveElement
<1>2. CASE Cardinality(L) <= n
  BY <1>1, <1>2 DEF FirstOf, Low
<1>3. CASE n < Cardinality(L) /\ Cardinality(B) = n /\ (f \in L => \A e \in B : k[e] <= k[f])
  <2>1. Low(B, L, k)
    BY <1>3 DEF Low
  <2> QED
    BY <1>1, <1>3, <2>1 DEF FirstOf
<1>4. CASE n < Cardinality(L) /\ Cardinality(B) = n /\ f \in L /\ ~(\A e \in B : k[e] <= k[f])
  <2>1. PICK m \in B : \A e \in B : k[e] <= k[m]
    BY <1>4, Latest
  <2>2. k[f] <= k[m] /\ \A e \in L : k[e] \in Nat
    BY <1>4, <2>1 DEF Keys
  <2> DEFINE A == (B \ {m}) \cup {f}
  <2>3. Cardinality(A) = n /\ A \subseteq L
    <3>1. Cardinality(B \ {m}) = n - 1 /\ IsFiniteSet(B \ {m}) /\ f \notin B \ {m}
      BY <1>1, <1>4, FS_RemoveElement
    <3>2. Cardinality((B \ {m}) \cup {f}) = Cardinality(B \ {m}) + 1
      BY <3>1, FS_AddElement
    <3>3. A \subseteq L
      BY <1>4
    <3> QED
      BY <3>1, <3>2, <3>3
  <2>4. ASSUME NEW e \in A, NEW g \in L \ A PROVE k[e] <= k[g]
    <3>1. e \in L /\ e \in B \cup {f} /\ (g = m \/ g \in (L \ {f}) \ B) /\ m \in L
      BY <1>4
    <3>2. k[e] <= k[m]
      BY <2>1, <2>2, <3>1
    <3>3. g # m => k[m] <= k[g]
      BY <3>1 DEF Low
    <3> QED
      BY <2>2, <3>1, <3>2, <3>3
  <2>5. B \subseteq A \cup {m}
    OBVIOUS
  <2> HIDE DEF A
  <2>6. FirstOf(A, L, k, n)
    BY <1>1, <1>4, <2>3, <2>4 DEF FirstOf, Low
  <2> QED
    BY <1>4, <2>5, <2>6
<1>5. CASE n < Cardinality(L) /\ Cardinality(B) + 1 = n
  <2>1. L \ B # {}
    BY <1>1, <1>5
  <2>2. PICK m \in L \ B : \A e \in L \ B : k[m] <= k[e]
    BY <2>1, Earliest
  <2> DEFINE A == B \cup {m}
  <2>3. Cardinality(A) = n /\ A \subseteq L /\ B \subseteq A
    BY <1>1, <1>5, FS_AddElement
  <2>4. ASSUME NEW e \in A, NEW g \in L \ A PROVE k[e] <= k[g]
    <3>1. k[m] <= k[g]
      BY <2>2
    <3>2. e # m /\ g # f => k[e] <= k[g]
      BY DEF Low
    <3>3. e # m /\ g = f => k[e] <= k[m]
      BY DEF Low
    <3>4. k[e] \in Nat /\ k[m] \in Nat /\ k[g] \in Nat
      BY DEF Keys
    <3> QED
      BY <3>1, <3>2, <3>3, <3>4
  <2> HIDE DEF A
  <2>5. FirstOf(A, L, k, n)
    BY <1>1, <1>5, <2>3, <2>4 DEF FirstOf, Low
  <2> QED
    BY <2>3, <2>5
<1>6. CASE n < Cardinality(L) /\ B = L \ {f} /\ Cardinality(B) <= n
  <2>1. CASE f \in L
    <3>1. Cardinality(B) = Cardinality(L) - 1
      BY <1>1, <1>6, <2>1
    <3>2. Cardinality(B) = n
      BY <1>1, <1>6, <3>1
    <3> QED
      BY <1>3, <1>4, <1>6, <2>1, <3>2
  <2>2. CASE f \notin L
    <3>1. B = L
      BY <1>6, <2>2
    <3> QED
      BY <1>1, <1>6, <3>1
  <2> QED
    BY <2>1, <2>2
<1>7. n < Cardinality(L) \/ Cardinality(L) <= n
  BY <1>1
<1>8. n < Cardinality(L) /\ Cardinality(B) = n
        => (f \in L => \A e \in B : k[e] <= k[f]) \/ (f \in L /\ ~(\A e \in B : k[e] <= k[f]))
  OBVIOUS
<1> HIDE DEF FirstOf
<1> QED
  BY <1>2, <1>3, <1>4, <1>5, <1>6, <1>7, <1>8

LEMMA FirstOfIs ==
    ASSUME NEW L, IsFiniteSet(L), NEW k, NEW n \in Nat, NEW A
    PROVE  FirstOf(A, L, k, n) <=>
             A \in {S \in SUBSET L :
                      /\ Cardinality(S) = IF n < Cardinality(L) THEN n ELSE Cardinality(L)
                      /\ \A e \in S, f \in L \ S : k[e] <= k[f]}
<1>1. Cardinality(L) \in Nat /\ (A \subseteq L /\ Cardinality(A) = Cardinality(L) => A = L)
  BY FS_Subset, FS_CardinalityType
<1>2. n < Cardinality(L) \/ n >= Cardinality(L)
  BY <1>1
<1> QED
  BY <1>1, <1>2 DEF FirstOf, Low

LEMMA FirstsAre ==
    ASSUME NEW n \in Nat, NEW A
    PROVE  /\ A \in Firsts(n) <=> FirstOf(A, List(tab), key, n)
           /\ A \in Firsts(n)' <=> FirstOf(A, List(tab)', key', n)
           /\ IsFiniteSet(List(tab)) /\ IsFiniteSet(List(tab)')
<1>1. IsFiniteSet(List(tab)) /\ IsFiniteSet(List(tab)')
  <2>1. List(tab) \subseteq Emails /\ List(tab)' \subseteq Emails
    BY DEF List
  <2> QED
    BY <2>1, FS_Subset
<1>2. A \in Firsts(n) <=> FirstOf(A, List(tab), key, n)
  BY <1>1, FirstOfIs DEF Firsts
<1>3. A \in Firsts(n)' <=> FirstOf(A, List(tab)', key', n)
  <2>1. A \in Firsts(n)' <=>
             A \in {S \in SUBSET List(tab)' :
                      /\ Cardinality(S) = IF n < Cardinality(List(tab)') THEN n ELSE Cardinality(List(tab)')
                      /\ \A e \in S, f \in List(tab)' \ S : key'[e] <= key'[f]}
    BY DEF Firsts
  <2> QED
    BY <1>1, <2>1, FirstOfIs
<1> QED
  BY <1>1, <1>2, <1>3

\* A change costs one row at most of those that are missed among the first n.
LEMMA Trade ==
    ASSUME Types, NEW f \in Emails, \A g \in Emails \ {f} : key'[g] = key[g],
           Comes(f) \/ Goes(f) \/ Moves(f), NEW n \in Nat, NEW A2 \in Firsts(n)', NEW M
    PROVE  \E A \in Firsts(n) :
             /\ Cardinality((M \ {f}) \cap A2) <= Cardinality(M \cap A) + 1
             /\ Cardinality((M \ {f}) \cap A2) + Cardinality(List(tab)')
                  <= Cardinality(M \cap A) + Cardinality(List(tab)) + 1
<1> DEFINE L == List(tab)
           L2 == List(tab)'
           B == A2 \ {f}
<1>1. /\ L \subseteq Emails /\ IsFiniteSet(L) /\ IsFiniteSet(L2)
      /\ Cardinality(L) \in Nat /\ Cardinality(L2) \in Nat
      /\ FirstOf(A2, L2, key', n)
  BY FirstsAre, FS_CardinalityType DEF List
<1>2. /\ L2 \ {f} = L \ {f}
      /\ \/ f \in L /\ Cardinality(L2) <= Cardinality(L)
         \/ f \notin L /\ Cardinality(L2) = Cardinality(L) + 1
  <2>1. CASE Comes(f)
    BY <1>1, <2>1, FS_AddElement DEF Comes
  <2>2. CASE Goes(f)
    BY <1>1, <2>2, FS_RemoveElement DEF Goes
  <2>3. CASE Moves(f)
    BY <1>1, <2>3 DEF Moves
  <2> QED
    BY <2>1, <2>2, <2>3
<1> HIDE DEF L, L2
<1>3. /\ B \subseteq L \ {f}
      /\ \A e \in L : key[e] \in Keys
  BY <1>1, <1>2 DEF FirstOf, Types
<1>4. Low(B, L \ {f}, key)
  <2>1. \A e \in A2, g \in L2 \ A2 : key'[e] <= key'[g]
    BY <1>1 DEF FirstOf, Low
  <2>2. SUFFICES ASSUME NEW e \in B, NEW g \in (L \ {f}) \ B PROVE key[e] <= key[g]
    BY DEF Low
  <2>3. e \in A2 /\ g \in L2 \ A2 /\ key'[e] = key[e] /\ key'[g] = key[g]
    BY <1>1, <1>2, <1>3
  <2> QED
    BY <2>1, <2>3
<1>5. Fits(B, L \ {f}, n)
  <2>1. /\ IsFiniteSet(A2) /\ Cardinality(A2) \in Nat /\ Cardinality(A2) <= n
        /\ Cardinality(A2) = n \/ A2 = L2
    BY <1>1, FS_Subset, FS_CardinalityType DEF FirstOf
  <2>2. Cardinality(B) = IF f \in A2 THEN Cardinality(A2) - 1 ELSE Cardinality(A2)
    BY <2>1, FS_RemoveElement
  <2>3. A2 = L2 => B = L \ {f}
    BY <1>2
  <2> QED
    BY <2>1, <2>2, <2>3 DEF Fits
<1> HIDE DEF B
<1>6. PICK A : FirstOf(A, L, key, n) /\ (\E x : B \subseteq A \cup {x}) /\ (f \notin L => B \subseteq A)
  <2>1. Covered(B, f, L, key, n)
    BY <1>1, <1>3, <1>4, <1>5, Displace
  <2> QED
    BY <2>1 DEF Covered
<1>7. A \in Firsts(n) /\ A \subseteq L
  BY <1>6, FirstsAre DEF L, FirstOf
<1>8. IsFiniteSet(M \cap A) /\ Cardinality(M \cap A) \in Nat
  BY <1>1, <1>7, FS_Subset, FS_CardinalityType
<1>9. (M \ {f}) \cap A2 = M \cap B
  BY DEF B
<1>10. Cardinality(M \cap B) \in Nat /\ Cardinality(M \cap B) <= Cardinality(M \cap A) + 1
  <2>1. PICK x : B \subseteq A \cup {x}
    BY <1>6
  <2>2. /\ IsFiniteSet((M \cap A) \cup {x})
        /\ Cardinality((M \cap A) \cup {x}) \in Nat
        /\ Cardinality((M \cap A) \cup {x}) <= Cardinality(M \cap A) + 1
    BY <1>8, FS_AddElement, FS_CardinalityType
  <2>3. M \cap B \subseteq (M \cap A) \cup {x}
    BY <2>1
  <2> QED
    BY <1>8, <2>2, <2>3, ShrinkAtMost
<1>11. f \notin L => Cardinality(M \cap B) <= Cardinality(M \cap A)
  <2>1. f \notin L => M \cap B \subseteq M \cap A
    BY <1>6
  <2> QED
    BY <1>8, <2>1, ShrinkAtMost
<1>12. Cardinality(M \cap B) + Cardinality(L2) <= Cardinality(M \cap A) + Cardinality(L) + 1
  <2>1. Cardinality(L) \in Nat /\ Cardinality(L2) \in Nat
    BY <1>1
  <2> QED
    BY <1>2, <1>8, <1>10, <1>11, <2>1
<1> QED
  BY <1>7, <1>9, <1>10, <1>12 DEF L, L2

\* Without ties there is one set of first rows only.
Tied == \E e, f \in List(tab) : e # f /\ key[e] = key[f]

LEMMA Untied ==
    ASSUME Types, ~Tied, NEW n \in Nat, NEW A \in Firsts(n), NEW B \in Firsts(n)
    PROVE  A = B
<1>1. /\ A \subseteq List(tab) /\ B \subseteq List(tab) /\ IsFiniteSet(A) /\ IsFiniteSet(B)
      /\ Cardinality(A) = Cardinality(B)
      /\ \A e \in A, f \in List(tab) \ A : key[e] <= key[f]
      /\ \A e \in B, f \in List(tab) \ B : key[e] <= key[f]
  <2>1. \A C \in Firsts(n) : C \subseteq List(tab) /\ IsFiniteSet(C)
    BY FirstsSize
  <2> QED
    BY <2>1 DEF Firsts
<1>2. A \subseteq B => A = B
  BY <1>1, FS_Subset
<1>3. B \subseteq A => A = B
  BY <1>1, FS_Subset
<1>4. SUFFICES ASSUME NEW a \in A \ B, NEW b \in B \ A PROVE FALSE
  BY <1>2, <1>3
<1>5. a \in List(tab) /\ b \in List(tab) /\ a # b /\ key[a] <= key[b] /\ key[b] <= key[a]
  BY <1>1, <1>4
<1>6. key[a] \in Nat /\ key[b] \in Nat
  BY <1>5 DEF List, Types, Keys
<1> QED
  BY <1>5, <1>6 DEF Tied

-----------------------------------------------------------------------------
\* Of the rows that were skipped to reach a page, no more are missed than the list
\* has changed; while a page is read, the same holds of what its request has found.
Within(n, M) == \A A \in Firsts(n) : Cardinality(M \cap A) <= changes
Skipped(p, M) == \A q \in 1..p : Within(Skip(q), M)

CountedFirst(r) ==
    r.rows = Unread /\ r.total # Unread =>
        \A A \in Firsts(Skip(page)) :
            Cardinality(missed \cap A) + Cardinality(List(tab)) <= changes + r.total

Found(r) ==
    r.rows # Unread =>
        /\ Skipped(page + 1, missed \ r.rows)
        /\ r.total # Unread /\ r.total <= Skip(page + 1) => Cardinality(missed \ r.rows) <= changes

Shown ==
    ~loading /\ ~error =>
        /\ Skipped(page + 1, missed)
        /\ page >= totalPages => Cardinality(missed) <= changes

WalkInv ==
    /\ missed \subseteq List(tab)
    /\ ~tied => /\ Skipped(page, missed)
                /\ \A r \in reqs : CountedFirst(r) /\ Found(r)
                /\ Shown

LEMMA PageTypes ==
    ASSUME Types
    PROVE  /\ page \in Nat \ {0} /\ page + 1 \in Nat \ {0} /\ totalPages \in Nat /\ changes \in Nat
           /\ \A p \in Nat : \A q \in 1..p : q \in Nat \ {0} /\ Skip(q) \in Nat
           /\ reqs \subseteq Requests
           /\ missed \subseteq Emails
<1>1. \A p \in Nat : \A q \in 1..p : q \in Nat \ {0}
  OBVIOUS
<1> QED
  BY <1>1, SkipSteps DEF Types, Requests

LEMMA MissedFinite ==
    ASSUME NEW M, M \subseteq Emails, NEW N, N \subseteq M
    PROVE  Cardinality(M) \in Nat /\ Cardinality(N) \in Nat /\ Cardinality(N) <= Cardinality(M)
  BY FS_Subset, FS_CardinalityType

LEMMA WithinLess ==
    ASSUME changes \in Nat, NEW n \in Nat, NEW M, NEW N, N \subseteq M, Within(n, M)
    PROVE  Within(n, N)
<1> SUFFICES ASSUME NEW A \in Firsts(n) PROVE Cardinality(N \cap A) <= changes
  BY DEF Within
<1>1. A \subseteq Emails /\ Cardinality(M \cap A) <= changes
  BY FirstsSize DEF Within, List
<1>2. M \cap A \subseteq Emails /\ N \cap A \subseteq M \cap A
  BY <1>1
<1> QED
  BY <1>1, <1>2, MissedFinite

LEMMA SkippedLess ==
    ASSUME Types, NEW p \in Nat, NEW q \in Nat, q <= p, NEW M, NEW N, N \subseteq M, Skipped(p, M)
    PROVE  Skipped(q, N)
<1> SUFFICES ASSUME NEW i \in 1..q PROVE Within(Skip(i), N)
  BY DEF Skipped
<1>1. i \in 1..p /\ Skip(i) \in Nat /\ changes \in Nat
  BY PageTypes
<1> QED
  BY <1>1, WithinLess DEF Skipped

LEMMA FirstsSame ==
    ASSUME List(tab)' = List(tab), \A e \in List(tab) : key'[e] = key[e]
    PROVE  \A n \in Nat : Firsts(n)' = Firsts(n)
  BY DEF Firsts

\* The parts of the invariant in a step that leaves the list alone.
Still == List(tab)' = List(tab) /\ (\A e \in List(tab) : key'[e] = key[e]) /\ changes' = changes

LEMMA SkippedSame ==
    ASSUME Types, Still, NEW p \in Nat, NEW M
    PROVE  Skipped(p, M) <=> \A q \in 1..p : \A A \in Firsts(Skip(q))' : Cardinality(M \cap A) <= changes'
<1>1. \A q \in 1..p : Skip(q) \in Nat
  BY PageTypes
<1>2. \A q \in 1..p : Firsts(Skip(q))' = Firsts(Skip(q))
  <2>1. \A n \in Nat : Firsts(n)' = Firsts(n)
    BY FirstsSame DEF Still
  <2> QED
    BY <1>1, <2>1 DEF Firsts, Skip
<1> QED
  BY <1>2 DEF Skipped, Within, Still

LEMMA NoneFirst == \A A \in Firsts(0)' : A = {}
<1> SUFFICES ASSUME NEW A \in Firsts(0)' PROVE A = {}
  OBVIOUS
<1>1. FirstOf(A, List(tab)', key', 0) /\ IsFiniteSet(List(tab)')
  BY FirstsAre
<1>2. IsFiniteSet(A) /\ Cardinality(A) = 0
  BY <1>1, FS_Subset, FS_CardinalityType DEF FirstOf
<1> QED
  BY <1>2, FS_EmptySet

LEMMA WalkInit == Init => WalkInv
<1> SUFFICES ASSUME Init PROVE WalkInv
  OBVIOUS
<1>1. /\ reqs = {Request(1)} /\ page = 1 /\ totalPages = 1 /\ loading /\ missed = {} /\ changes = 0
      /\ Request(1).rows = Unread /\ Request(1).total = Unread
  BY DEF Init, Request
<1>2. \A A : Cardinality(missed \cap A) = 0
  <2>1. \A A : missed \cap A = {}
    BY <1>1
  <2> QED
    BY <2>1, FS_EmptySet
<1> QED
  BY <1>1, <1>2 DEF WalkInv, Skipped, Within, CountedFirst, Found, Shown

\* A new request, and with it a page for which enough is known.
LEMMA WalkLoad ==
    ASSUME Types, NEW p \in Nat \ {0}, reqs = {}, page' = p, Load(p), WalkInv,
           ~tied => Skipped(p, missed), UNCHANGED <<db, tab, walk>>
    PROVE  WalkInv'
<1>1. reqs' = {Request(p)} /\ loading' /\ UNCHANGED <<missed, changes, tied>> /\ Still
  BY DEF Load, walk, db, Still, List
<1>2. Request(p).rows = Unread /\ Request(p).total = Unread
  BY DEF Request
<1>3. Skipped(p, missed) => \A q \in 1..p : \A A \in Firsts(Skip(q))' : Cardinality(missed \cap A) <= changes'
  BY <1>1, SkippedSame
<1> QED
  BY <1>1, <1>2, <1>3 DEF WalkInv, Skipped, Within, CountedFirst, Found, Shown, Still

LEMMA WalkTurn ==
    ASSUME Types, OneRequest, WalkInv, NextPage \/ PreviousPage \/ Retry
    PROVE  WalkInv'
<1>1. reqs = {} /\ ~loading /\ UNCHANGED <<db, tab, walk>>
  BY DEF NextPage, PreviousPage, Retry, Turn, Screen, OneRequest
<1>2. /\ page \in Nat \ {0} /\ page + 1 \in Nat \ {0} /\ missed \subseteq missed
  BY PageTypes
<1>3. CASE NextPage
  <2>1. ~error /\ Load(page + 1) /\ page' = page + 1
    BY <1>3 DEF NextPage, Turn, Screen
  <2>2. ~tied => Skipped(page + 1, missed)
    BY <1>1, <2>1 DEF WalkInv, Shown
  <2> QED
    BY <1>1, <1>2, <2>1, <2>2, WalkLoad
<1>4. CASE PreviousPage
  <2>1. Load(page - 1) /\ page' = page - 1 /\ page - 1 \in Nat \ {0}
    BY <1>2, <1>4 DEF PreviousPage, Turn
  <2>2. ~tied => Skipped(page - 1, missed)
    BY <1>2, <2>1, SkippedLess DEF WalkInv
  <2> QED
    BY <1>1, <2>1, <2>2, WalkLoad
<1>5. CASE Retry
  <2>1. Load(page) /\ page' = page
    BY <1>5 DEF Retry
  <2>2. ~tied => Skipped(page, missed)
    BY DEF WalkInv
  <2> QED
    BY <1>1, <1>2, <2>1, <2>2, WalkLoad
<1> QED
  BY <1>3, <1>4, <1>5

LEMMA WalkOpen ==
    ASSUME NEW t \in Tabs, Open(t)
    PROVE  WalkInv'
<1>1. /\ reqs' = {Request(1)} /\ page' = 1 /\ loading' /\ missed' = List(tab)' /\ changes' = 0
      /\ Request(1).rows = Unread /\ Request(1).total = Unread
  BY DEF Open, Request, List, db
<1>2. \A q \in 1..page' : \A A \in Firsts(Skip(q))' : Cardinality(missed' \cap A) <= changes'
  <2>1. SUFFICES ASSUME NEW q \in 1..1, NEW A \in Firsts(Skip(q))' PROVE Cardinality(missed' \cap A) = 0
    BY <1>1
  <2>2. Skip(q) = 0
    BY SkipSteps
  <2>3. A \in Firsts(0)'
    BY <2>2 DEF Firsts
  <2>4. missed' \cap A = {}
    BY <2>3, NoneFirst
  <2> QED
    BY <2>4, FS_EmptySet
<1> QED
  BY <1>1, <1>2 DEF WalkInv, Skipped, Within, CountedFirst, Found, Shown

\* Of a page that is read without ties: what was skipped, and what comes after it.
LEMMA PageCut ==
    ASSUME Types, ~Tied, NEW p \in Nat \ {0}, NEW S \in PageOf(p)
    PROVE  \E A \in Firsts(Skip(p)) :
             /\ \A B \in Firsts(Skip(p + 1)) : B \subseteq A \cup S
             /\ \E B \in Firsts(Skip(p + 1)) : B = A \cup S
<1>1. PICK ab \in Firsts(Skip(p)) \X Firsts(Skip(p) + PageSize) :
             ab[1] \subseteq ab[2] /\ S = ab[2] \ ab[1]
  BY DEF PageOf
<1>2. Skip(p + 1) = Skip(p) + PageSize /\ Skip(p + 1) \in Nat
  BY SkipSteps
<1>3. ab[1] \in Firsts(Skip(p)) /\ ab[2] \in Firsts(Skip(p + 1)) /\ ab[2] = ab[1] \cup S
  BY <1>1, <1>2
<1>4. \A B \in Firsts(Skip(p + 1)) : B = ab[2]
  BY <1>2, <1>3, Untied
<1> QED
  BY <1>3, <1>4

LEMMA FoundRows ==
    ASSUME Types, ~Tied, NEW S \in PageOf(page), Skipped(page, missed)
    PROVE  Skipped(page + 1, missed \ S)
<1>1. page \in Nat \ {0} /\ page + 1 \in Nat \ {0} /\ changes \in Nat
  BY PageTypes
<1>2. SUFFICES ASSUME NEW q \in 1..(page + 1) PROVE Within(Skip(q), missed \ S)
  BY DEF Skipped
<1>3. CASE q <= page
  <2>1. q \in 1..page /\ Skip(q) \in Nat /\ missed \ S \subseteq missed
    BY <1>1, <1>3, PageTypes
  <2> QED
    BY <1>1, <2>1, WithinLess DEF Skipped
<1>4. CASE q = page + 1
  <2>1. PICK A \in Firsts(Skip(page)) : \A B \in Firsts(Skip(page + 1)) : B \subseteq A \cup S
    BY <1>1, PageCut
  <2>2. SUFFICES ASSUME NEW B \in Firsts(Skip(page + 1)) PROVE Cardinality((missed \ S) \cap B) <= changes
    BY <1>4 DEF Within
  <2>3. (missed \ S) \cap B \subseteq missed \cap A /\ missed \cap A \subseteq Emails
    BY <2>1, PageTypes
  <2>4. page \in 1..page /\ Cardinality(missed \cap A) <= changes
    BY <1>1, <2>1 DEF Skipped, Within
  <2> QED
    BY <1>1, <2>3, <2>4, MissedFinite
<1> QED
  BY <1>1, <1>3, <1>4

LEMMA FoundLast ==
    ASSUME Types, ~Tied, NEW S \in PageOf(page), missed \subseteq List(tab), Skipped(page, missed),
           NEW T \in Nat, T <= Skip(page + 1),
           \A A \in Firsts(Skip(page)) :
               Cardinality(missed \cap A) + Cardinality(List(tab)) <= changes + T
    PROVE  Cardinality(missed \ S) <= changes
<1>1. page \in Nat \ {0} /\ page + 1 \in Nat \ {0} /\ changes \in Nat /\ Skip(page + 1) \in Nat
  BY PageTypes, SkipSteps
<1>2. PICK A \in Firsts(Skip(page)) : \E B \in Firsts(Skip(page + 1)) : B = A \cup S
  BY <1>1, PageCut
<1>3. PICK B \in Firsts(Skip(page + 1)) : B = A \cup S
  BY <1>2
<1>4. /\ B \subseteq List(tab) /\ IsFiniteSet(List(tab)) /\ Cardinality(List(tab)) \in Nat
      /\ Skip(page + 1) < Cardinality(List(tab)) => Cardinality(B) = Skip(page + 1)
      /\ Skip(page + 1) >= Cardinality(List(tab)) => B = List(tab)
  BY <1>1, <1>3, FirstsSize, FirstsAre, Listed
<1>5. page \in 1..page /\ Cardinality(missed \cap A) <= changes
  BY <1>1, <1>2 DEF Skipped, Within
<1>6. missed \ S \subseteq (missed \cap A) \cup (List(tab) \ B)
  BY <1>3
<1>7. /\ IsFiniteSet(missed \cap A) /\ Cardinality(missed \cap A) \in Nat
      /\ IsFiniteSet(List(tab) \ B) /\ Cardinality(List(tab) \ B) \in Nat
      /\ Cardinality(List(tab) \ B) = Cardinality(List(tab)) - Cardinality(B)
  <2>1. List(tab) \cap B = B /\ List(tab) \ B \subseteq List(tab) /\ missed \cap A \subseteq List(tab)
    BY <1>4
  <2>2. /\ IsFiniteSet(missed \cap A) /\ Cardinality(missed \cap A) \in Nat
        /\ IsFiniteSet(List(tab) \ B) /\ Cardinality(List(tab) \ B) \in Nat
    BY <1>4, <2>1, FS_Subset, FS_CardinalityType
  <2>3. IsFiniteSet(B) /\ Cardinality(List(tab) \ B) = Cardinality(List(tab)) - Cardinality(List(tab) \cap B)
    BY <1>4, FS_Difference, FS_Subset
  <2> QED
    BY <2>1, <2>2, <2>3
<1>8. /\ Cardinality((missed \cap A) \cup (List(tab) \ B))
           <= Cardinality(missed \cap A) + Cardinality(List(tab) \ B)
      /\ Cardinality(missed \ S) \in Nat
      /\ Cardinality(missed \ S) <= Cardinality((missed \cap A) \cup (List(tab) \ B))
  <2>1. (missed \cap A) \cup (List(tab) \ B) \subseteq Emails
    BY DEF List
  <2>2. LET U == (missed \cap A) \cup (List(tab) \ B)
            I == (missed \cap A) \cap (List(tab) \ B)
        IN  /\ Cardinality(U) = Cardinality(missed \cap A) + Cardinality(List(tab) \ B) - Cardinality(I)
            /\ Cardinality(I) \in Nat
    BY <1>7, FS_Union, FS_Intersection, FS_CardinalityType
  <2>3. Cardinality((missed \cap A) \cup (List(tab) \ B))
           <= Cardinality(missed \cap A) + Cardinality(List(tab) \ B)
    BY <1>7, <2>2
  <2>4. /\ Cardinality(missed \ S) \in Nat
        /\ Cardinality(missed \ S) <= Cardinality((missed \cap A) \cup (List(tab) \ B))
    BY <1>6, <2>1, MissedFinite
  <2> QED
    BY <2>3, <2>4
<1>9. /\ Cardinality((missed \cap A) \cup (List(tab) \ B)) \in Nat
      /\ Cardinality(missed \cap A) + Cardinality(List(tab)) <= changes + T
  <2>1. (missed \cap A) \cup (List(tab) \ B) \subseteq Emails
    BY DEF List
  <2> QED
    BY <1>2, <2>1, MissedFinite
<1>10. CASE Skip(page + 1) < Cardinality(List(tab))
  <2>1. Cardinality(List(tab) \ B) = Cardinality(List(tab)) - Skip(page + 1)
    BY <1>4, <1>7, <1>10
  <2> QED
    BY <1>1, <1>4, <1>7, <1>8, <1>9, <2>1
<1>11. CASE Skip(page + 1) >= Cardinality(List(tab))
  <2>1. Cardinality(List(tab) \ B) = 0
    BY <1>4, <1>7, <1>11
  <2> QED
    BY <1>1, <1>5, <1>7, <1>8, <1>9, <2>1
<1> QED
  BY <1>1, <1>4, <1>10, <1>11

LEMMA WalkFind ==
    ASSUME Types, OneRequest, WalkInv, NEW r \in reqs, Find(r)
    PROVE  WalkInv'
<1>1. PICK S \in PageOf(r.page) : reqs' = (reqs \ {r}) \cup {[r EXCEPT !.rows = S]}
  BY DEF Find, Replace
<1>2. loading /\ reqs = {r} /\ r.page = page /\ r \in Requests /\ page \in Nat \ {0} /\ changes \in Nat
  BY PageTypes DEF OneRequest
<1> DEFINE s == [r EXCEPT !.rows = S]
<1>3. s.rows = S /\ s.total = r.total /\ reqs' = {s} /\ S # Unread
  <2>1. S \in SUBSET Emails
    BY <1>1, PageRows
  <2> QED
    BY <1>1, <1>2, <2>1 DEF Requests
<1> HIDE DEF s
<1>4. /\ UNCHANGED <<page, loading, missed, changes>> /\ Still
      /\ tied' = (tied \/ Tied) /\ List(tab)' = List(tab)
  BY DEF Find, db, view, Still, List, Tied
<1>5. r.rows = Unread
  BY DEF Find
<1>6. SUFFICES ASSUME ~tied, ~Tied
      PROVE  /\ \A q \in 1..page : \A A \in Firsts(Skip(q))' : Cardinality(missed \cap A) <= changes'
             /\ \A q \in 1..(page + 1) : \A A \in Firsts(Skip(q))' : Cardinality((missed \ S) \cap A) <= changes'
             /\ s.total # Unread /\ s.total <= Skip(page + 1) => Cardinality(missed \ S) <= changes
  BY <1>2, <1>3, <1>4 DEF WalkInv, Skipped, Within, CountedFirst, Found, Shown, Skip
<1>7. Skipped(page, missed) /\ CountedFirst(r)
  BY <1>2, <1>6 DEF WalkInv
<1>8. Skipped(page + 1, missed \ S)
  BY <1>1, <1>2, <1>6, <1>7, FoundRows
<1>9. s.total # Unread /\ s.total <= Skip(page + 1) => Cardinality(missed \ S) <= changes
  <2>1. s.total # Unread => s.total \in Nat
    BY <1>2, <1>3 DEF Requests
  <2> QED
    BY <1>1, <1>2, <1>3, <1>5, <1>6, <1>7, <2>1, FoundLast DEF CountedFirst, WalkInv
<1>10. page \in Nat /\ page + 1 \in Nat
  BY <1>2
<1> QED
  BY <1>4, <1>7, <1>8, <1>9, <1>10, SkippedSame

LEMMA WalkCount ==
    ASSUME Types, OneRequest, WalkInv, NEW r \in reqs, Count(r)
    PROVE  WalkInv'
<1>1. loading /\ reqs = {r} /\ r \in Requests /\ page \in Nat \ {0} /\ changes \in Nat
  BY PageTypes DEF OneRequest
<1>2. PICK s : /\ s.rows = r.rows /\ s.total = Cardinality(List(tab)) /\ reqs' = {s}
               /\ Cardinality(List(tab)) \in Nat
  <2>1. Replace(r, [r EXCEPT !.total = Cardinality(List(tab))]) /\ Cardinality(List(tab)) \in Nat
    BY Listed DEF Count
  <2> QED
    BY <1>1, <2>1 DEF Replace, Requests
<1>3. UNCHANGED <<page, loading, missed, changes, tied>> /\ Still /\ List(tab)' = List(tab)
  BY DEF Count, db, view, walk, Still, List
<1>4. SUFFICES ASSUME ~tied PROVE Skipped(page, missed)' /\ CountedFirst(s)' /\ Found(s)'
  BY <1>1, <1>2, <1>3 DEF WalkInv, Shown
<1>5. Skipped(page, missed) /\ Found(r) /\ missed \subseteq List(tab)
  BY <1>4 DEF WalkInv
<1>6. page \in Nat /\ page + 1 \in Nat /\ page \in 1..page /\ page + 1 \in 1..(page + 1)
  BY <1>1
<1>7. \A q \in 1..page : \A A \in Firsts(Skip(q))' : Cardinality(missed \cap A) <= changes'
  BY <1>3, <1>5, <1>6, SkippedSame
<1>8. ASSUME r.rows # Unread
      PROVE  /\ \A q \in 1..(page + 1) : \A A \in Firsts(Skip(q))' :
                   Cardinality((missed \ r.rows) \cap A) <= changes'
             /\ Cardinality(List(tab)) <= Skip(page + 1) => Cardinality(missed \ r.rows) <= changes
  <2>1. Skipped(page + 1, missed \ r.rows)
    BY <1>5, <1>8 DEF Found
  <2>2. ASSUME Cardinality(List(tab)) <= Skip(page + 1)
        PROVE  Cardinality(missed \ r.rows) <= changes
    <3>1. Skip(page + 1) \in Nat
      BY <1>1, SkipSteps
    <3>2. FirstOf(List(tab), List(tab), key, Skip(page + 1))
      BY <1>2, <2>2, <3>1 DEF FirstOf, Low
    <3>3. List(tab) \in Firsts(Skip(page + 1))
      BY <3>1, <3>2, FirstsAre
    <3>4. (missed \ r.rows) \cap List(tab) = missed \ r.rows
      BY <1>5
    <3> QED
      BY <1>6, <2>1, <3>3, <3>4 DEF Skipped, Within
  <2> QED
    BY <1>3, <1>6, <2>1, <2>2, SkippedSame
<1>9. CountedFirst(s)'
  <2>1. SUFFICES ASSUME r.rows = Unread, NEW A \in Firsts(Skip(page))'
                 PROVE  Cardinality(missed \cap A) + Cardinality(List(tab)) <= changes + Cardinality(List(tab))
    BY <1>2, <1>3 DEF CountedFirst, Skip
  <2>2. A \subseteq Emails
    BY DEF Firsts, List
  <2>3. Cardinality(missed \cap A) \in Nat /\ Cardinality(missed \cap A) <= changes
    BY <1>3, <1>6, <1>7, <2>2, MissedFinite, PageTypes
  <2> QED
    BY <1>1, <1>2, <2>3
<1>10. Skipped(page, missed)' /\ Found(s)'
  BY <1>2, <1>3, <1>7, <1>8 DEF Skipped, Within, Found, Skip
<1> QED
  BY <1>9, <1>10

LEMMA WalkAnswer ==
    ASSUME Types, OneRequest, WalkInv, NEW r \in reqs, Answer(r)
    PROVE  WalkInv'
<1>1. /\ reqs = {r} /\ r \in Requests /\ page \in Nat \ {0} /\ changes \in Nat
      /\ r.rows # Unread /\ r.total \in Nat /\ page \in Nat /\ page + 1 \in Nat
  BY PageTypes DEF OneRequest, Answer, Requests
<1>2. /\ reqs' = {} /\ missed' = missed \ r.rows /\ totalPages' = PagesOf(r.total)
      /\ UNCHANGED <<page, changes, tied>> /\ Still /\ List(tab)' = List(tab)
  BY <1>1 DEF Answer, db, Still, List
<1>3. missed' \subseteq List(tab)'
  BY <1>2 DEF WalkInv
<1>4. ASSUME ~tied
      PROVE  /\ \A q \in 1..(page + 1) : \A A \in Firsts(Skip(q))' :
                   Cardinality((missed \ r.rows) \cap A) <= changes'
             /\ page >= PagesOf(r.total) => Cardinality(missed \ r.rows) <= changes
  <2>1. Skipped(page + 1, missed \ r.rows) /\ Found(r)
    BY <1>1, <1>4 DEF WalkInv, Found
  <2>2. ASSUME page >= PagesOf(r.total) PROVE Cardinality(missed \ r.rows) <= changes
    <3>1. PagesOf(r.total) \in Nat
      BY <1>1, PagesNat
    <3>2. r.total <= Skip(page) + PageSize /\ Skip(page + 1) = Skip(page) + PageSize
      BY <1>1, <2>2, <3>1, PagesBegin, SkipSteps
    <3>3. r.total # Unread
      BY <1>1
    <3> QED
      BY <1>1, <2>1, <3>2, <3>3 DEF Found
  <2> QED
    BY <1>1, <1>2, <2>1, <2>2, SkippedSame
<1>5. 1..page \subseteq 1..(page + 1)
  BY <1>1
<1> HIDE DEF Still
<1> QED
  BY <1>2, <1>3, <1>4, <1>5 DEF WalkInv, Skipped, Within, Shown, Skip

LEMMA WalkFail ==
    ASSUME Types, OneRequest, WalkInv, NEW r \in reqs, Fail(r)
    PROVE  WalkInv'
<1>1. /\ reqs' = {} /\ error' /\ UNCHANGED <<page, missed, changes, tied>> /\ Still
      /\ List(tab)' = List(tab) /\ page \in Nat
  BY PageTypes DEF OneRequest, Fail, walk, db, Still, List
<1>2. ~tied => \A q \in 1..page : \A A \in Firsts(Skip(q))' : Cardinality(missed \cap A) <= changes'
  BY <1>1, SkippedSame DEF WalkInv
<1> QED
  BY <1>1, <1>2 DEF WalkInv, Skipped, Within, Shown, Skip

\* What a change of the list does to rows that are missed of those skipped.
LEMMA SkippedChange ==
    ASSUME Types, NEW f \in Emails, \A g \in Emails \ {f} : key'[g] = key[g],
           Comes(f) \/ Goes(f) \/ Moves(f), changes' = changes + 1,
           NEW p \in Nat, NEW M, Skipped(p, M)
    PROVE  \A q \in 1..p : \A A \in Firsts(Skip(q))' : Cardinality((M \ {f}) \cap A) <= changes'
<1> SUFFICES ASSUME NEW q \in 1..p, NEW B \in Firsts(Skip(q))'
             PROVE  Cardinality((M \ {f}) \cap B) <= changes'
  OBVIOUS
<1>1. Skip(q) \in Nat /\ changes \in Nat
  BY PageTypes
<1> DEFINE n == Skip(q)
<1>2. B \in Firsts(n)'
  BY DEF Firsts, Skip
<1> HIDE DEF n
<1>3. PICK A \in Firsts(n) : Cardinality((M \ {f}) \cap B) <= Cardinality(M \cap A) + 1
  BY <1>1, <1>2, Trade DEF n
<1>4. Cardinality(M \cap A) <= changes
  BY <1>3 DEF Skipped, Within, n
<1>5. Cardinality(M \cap A) \in Nat /\ Cardinality((M \ {f}) \cap B) \in Nat
  <2>1. A \subseteq Emails /\ B \subseteq Emails
    BY <1>2, <1>3 DEF Firsts, List
  <2>2. IsFiniteSet(M \cap A) /\ IsFiniteSet((M \ {f}) \cap B)
    BY <2>1, FS_Subset
  <2> QED
    BY <2>2, FS_CardinalityType
<1> QED
  BY <1>1, <1>3, <1>4, <1>5

LEMMA WalkOthers ==
    ASSUME Types, WalkInv, NEW f \in Emails, NEW k \in Keys, Create(f, k) \/ Defer(f, k) \/ End(f, k)
    PROVE  WalkInv'
<1>1. /\ UNCHANGED <<tab, page, totalPages, loading, error, reqs, tied>>
      /\ \A g \in Emails \ {f} : key'[g] = key[g]
  BY ListChange DEF view
<1>2. /\ page \in Nat \ {0} /\ page \in Nat /\ page + 1 \in Nat /\ page \in 1..page
      /\ changes \in Nat /\ missed \subseteq Emails /\ Skip(page) \in Nat
      /\ \A x \in reqs : x \in Requests
  BY PageTypes, SkipSteps
<1>3. CASE UNCHANGED <<changes, missed>> /\ List(tab)' = List(tab) /\ f \notin List(tab)
  <2>1. Still
    BY <1>1, <1>3 DEF Still, List
  <2>2. \A M : Skipped(page, M) => \A q \in 1..page : \A A \in Firsts(Skip(q))' : Cardinality(M \cap A) <= changes'
    BY <1>2, <2>1, SkippedSame
  <2>3. \A M : Skipped(page + 1, M) =>
           \A q \in 1..(page + 1) : \A A \in Firsts(Skip(q))' : Cardinality(M \cap A) <= changes'
    BY <1>2, <2>1, SkippedSame
  <2>4. Firsts(Skip(page))' = Firsts(Skip(page))
    <3>1. \A n \in Nat : Firsts(n)' = Firsts(n)
      BY <2>1, FirstsSame DEF Still
    <3> QED
      BY <1>1, <1>2, <3>1 DEF Firsts, Skip
  <2>5. ASSUME ~tied
        PROVE  Skipped(page, missed)' /\ Shown' /\ (\A x \in reqs : CountedFirst(x)' /\ Found(x)')
    <3>1. Skipped(page, missed)' /\ Shown'
      BY <1>1, <1>3, <2>2, <2>3, <2>5 DEF WalkInv, Skipped, Within, Shown, Skip
    <3>2. ASSUME NEW x \in reqs PROVE CountedFirst(x)' /\ Found(x)'
      <4>1. CountedFirst(x) /\ Found(x)
        BY <2>5 DEF WalkInv
      <4>2. CountedFirst(x)'
        BY <1>1, <1>3, <2>4, <4>1 DEF CountedFirst
      <4>3. Found(x)'
        BY <1>1, <1>3, <2>3, <4>1 DEF Found, Skipped, Within, Skip
      <4> QED
        BY <4>2, <4>3
    <3> QED
      BY <3>1, <3>2
  <2> QED
    BY <1>1, <1>3, <2>5 DEF WalkInv
<1>4. CASE changes' = changes + 1 /\ missed' = missed \ {f} /\ (Comes(f) \/ Goes(f) \/ Moves(f))
  <2>1. missed' \subseteq List(tab)'
    BY <1>4 DEF WalkInv, Comes, Goes, Moves
  <2>2. \A M : Skipped(page, M) =>
           \A q \in 1..page : \A A \in Firsts(Skip(q))' : Cardinality((M \ {f}) \cap A) <= changes'
    BY <1>1, <1>2, <1>4, SkippedChange
  <2>3. \A M : Skipped(page + 1, M) =>
           \A q \in 1..(page + 1) : \A A \in Firsts(Skip(q))' : Cardinality((M \ {f}) \cap A) <= changes'
    BY <1>1, <1>2, <1>4, SkippedChange
  <2>4. ASSUME NEW M, M \subseteq missed, Cardinality(M) <= changes PROVE Cardinality(M \ {f}) <= changes'
    <3>1. M \subseteq Emails /\ M \ {f} \subseteq M
      BY <1>2, <2>4
    <3> QED
      BY <1>2, <1>4, <2>4, <3>1, MissedFinite
  <2>5. ASSUME ~tied
        PROVE  Skipped(page, missed)' /\ Shown' /\ (\A x \in reqs : CountedFirst(x)' /\ Found(x)')
    <3>1. Skipped(page, missed)'
      BY <1>1, <1>4, <2>2, <2>5 DEF WalkInv, Skipped, Within, Skip
    <3>2. Shown'
      <4>1. SUFFICES ASSUME ~loading, ~error PROVE Shown'
        BY <1>1 DEF Shown
      <4>2. Skipped(page + 1, missed) /\ (page >= totalPages => Cardinality(missed) <= changes)
        BY <2>5, <4>1 DEF WalkInv, Shown
      <4>3. page >= totalPages => Cardinality(missed') <= changes'
        BY <1>4, <2>4, <4>2
      <4> QED
        BY <1>1, <1>4, <2>3, <4>2, <4>3 DEF Shown, Skipped, Within, Skip
    <3>3. ASSUME NEW x \in reqs PROVE CountedFirst(x)' /\ Found(x)'
      <4>1. CountedFirst(x) /\ Found(x) /\ (x.total # Unread => x.total \in Nat)
        BY <1>2, <2>5 DEF WalkInv, Requests
      <4>2. ASSUME x.rows = Unread, x.total # Unread, NEW B \in Firsts(Skip(page))'
            PROVE  Cardinality(missed' \cap B) + Cardinality(List(tab)') <= changes' + x.total
        <5>1. x.total \in Nat
          BY <4>1, <4>2
        <5>2. PICK A \in Firsts(Skip(page)) :
                 Cardinality((missed \ {f}) \cap B) + Cardinality(List(tab)')
                   <= Cardinality(missed \cap A) + Cardinality(List(tab)) + 1
          <6>1. PICK m \in Nat : m = Skip(page)
            BY <1>2
          <6>2. B \in Firsts(m)'
            BY <1>1, <6>1 DEF Firsts, Skip
          <6> QED
            BY <1>1, <1>4, <6>1, <6>2, Trade
        <5>3. Cardinality(missed \cap A) + Cardinality(List(tab)) <= changes + x.total
          BY <4>1, <4>2, <5>2 DEF CountedFirst
        <5>4. A \subseteq Emails /\ B \subseteq Emails
          BY <5>2 DEF Firsts, List
        <5>5. Cardinality(missed \cap A) \in Nat /\ Cardinality((missed \ {f}) \cap B) \in Nat
          BY <5>4, MissedFinite
        <5>6. Cardinality(List(tab)) \in Nat /\ Cardinality(List(tab)') \in Nat
          BY FirstsAre, FS_CardinalityType
        <5> QED
          BY <1>2, <1>4, <5>1, <5>2, <5>3, <5>5, <5>6
      <4>3. CountedFirst(x)'
        BY <4>2 DEF CountedFirst
      <4>4. ASSUME x.rows # Unread PROVE Found(x)'
        <5>1. (missed \ x.rows) \ {f} = missed' \ x.rows /\ missed \ x.rows \subseteq missed
          BY <1>4
        <5>2. /\ Skipped(page + 1, missed \ x.rows)
              /\ x.total # Unread /\ x.total <= Skip(page + 1) => Cardinality(missed \ x.rows) <= changes
          BY <4>1, <4>4 DEF Found
        <5>3. \A q \in 1..(page + 1) : \A A \in Firsts(Skip(q))' : Cardinality((missed' \ x.rows) \cap A) <= changes'
          BY <2>3, <5>1, <5>2
        <5>4. x.total # Unread /\ x.total <= Skip(page + 1) => Cardinality(missed' \ x.rows) <= changes'
          BY <2>4, <5>1, <5>2
        <5> QED
          BY <1>1, <5>3, <5>4 DEF Found, Skipped, Within, Skip
      <4> QED
        BY <4>3, <4>4 DEF Found
    <3> QED
      BY <3>1, <3>2, <3>3
  <2> QED
    BY <1>1, <2>1, <2>5 DEF WalkInv
<1> QED
  BY <1>3, <1>4, ListChange

LEMMA WalkNext == Types /\ OneRequest /\ WalkInv /\ [Next]_vars => WalkInv'
<1> SUFFICES ASSUME Types, OneRequest, WalkInv, [Next]_vars PROVE WalkInv'
  OBVIOUS
<1>1. ASSUME NEW t \in Tabs, Open(t) PROVE WalkInv'
  BY <1>1, WalkOpen
<1>2. CASE NextPage \/ PreviousPage \/ Retry
  BY <1>2, WalkTurn
<1>3. ASSUME NEW r \in reqs, Find(r) \/ Count(r) \/ Answer(r) \/ Fail(r) PROVE WalkInv'
  BY <1>3, WalkFind, WalkCount, WalkAnswer, WalkFail
<1>4. ASSUME NEW e \in Emails, NEW k \in Keys, Create(e, k) \/ Defer(e, k) \/ End(e, k)
      PROVE  WalkInv'
  BY <1>4, WalkOthers
<1>5. CASE UNCHANGED vars
  BY <1>5 DEF vars, db, view, walk, WalkInv, Skipped, Within, CountedFirst, Found, Shown, Firsts, List, Skip
<1> QED
  BY <1>1, <1>2, <1>3, <1>4, <1>5 DEF Next, User, Server, Others

\* However rows come, go and move between and during the two statements of a page,
\* whoever reaches the last page or an empty one has missed at most one row for each
\* change of the list, as long as no page was read from a list with equal keys
\* (api/routes/emails.ts:33-57, app/dashboard/scheduled/page.tsx:43-65).
THEOREM WalkMissesFew == Spec => []WalkMisses
<1>1. WalkInv => WalkMisses
  BY DEF WalkInv, Shown, WalkMisses, Screen
<1> QED
  BY <1>1, TypesHold, OneRequestHolds, WalkInit, WalkNext, PTL DEF Spec

=============================================================================
