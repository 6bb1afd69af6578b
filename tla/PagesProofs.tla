---------------------------- MODULE PagesProofs ----------------------------
(***************************************************************************)
(* Proofs about the pages of the console that show what the server has:    *)
(* the lists, the overview and the page of one message, and about the      *)
(* counters behind the limits per minute.                                  *)
(***************************************************************************)
EXTENDS ConsoleProofs, FiniteSetTheorems, WellFoundedInduction

\* A step in one area is a step of that area's page, or none.
LEMMA StepOfReader ==
  ASSUME [Next]_vars
  PROVE  /\ area = "lists" => [Lists!Next]_(Lists!vars)
         /\ area = "overview" => [Overview!Next]_(Overview!vars)
         /\ area = "message" => [Detail!Next]_(Detail!vars)
BY DEF Next, InKeys, InChannels, InGroups, InUsers, InMessage, InLists, InOverview,
       InSession, InLimits, vars, Lists!vars, Overview!vars, Detail!vars

-----------------------------------------------------------------------------
(* Lists.  The cache files an answer under the page and the filter that    *)
(* were asked for, whatever the page shows by then.                        *)

Question(a) == a = [page |-> a.page, filter |-> a.filter]

FiledUnder(k) ==
  LET e == cache.entry[k]
  IN  e.at = "data" => Question(e.of) /\ k = Lists!Key(e.of.page, e.of.filter)

ListsInv ==
  area = "lists" =>
    /\ cache = [entry |-> cache.entry, asked |-> cache.asked]
    /\ \A a \in cache.asked : Question(a)
    /\ \A k \in DOMAIN cache.entry : FiledUnder(k)

LEMMA ListsInit == Init => ListsInv
BY DEF Init, Lists!Init, ListsInv

\* Filing entry e under key k.
LEMMA Filed ==
  ASSUME ListsInv, area = "lists", NEW a \in cache.asked, NEW e,
         e.at = "data" => e.of = a,
         cache' = [entry |-> Lists!Entered(Lists!Key(a.page, a.filter), e),
                   asked |-> cache.asked \ {a}]
  PROVE  ListsInv'
<1>1. Question(a)
  BY DEF ListsInv
<1>2. /\ cache'.asked = cache.asked \ {a}
      /\ cache'.entry = Lists!Entered(Lists!Key(a.page, a.filter), e)
      /\ cache' = [entry |-> cache'.entry, asked |-> cache'.asked]
  OBVIOUS
<1>3. ASSUME NEW k \in DOMAIN cache'.entry PROVE FiledUnder(k)'
  <2>1. CASE k = Lists!Key(a.page, a.filter)
    BY <1>1, <1>2, <2>1 DEF Lists!Entered, FiledUnder, Question
  <2>2. CASE k # Lists!Key(a.page, a.filter)
    BY <1>2, <1>3, <2>2 DEF Lists!Entered, FiledUnder, ListsInv
  <2> QED
    BY <2>1, <2>2
<1> QED
  BY <1>2, <1>3 DEF ListsInv

LEMMA ListsStep == ListsInv /\ [Next]_vars => ListsInv'
<1> SUFFICES ASSUME ListsInv, [Next]_vars, area = "lists", area' = "lists"
             PROVE  ListsInv'
  BY OneArea DEF ListsInv
<1>1. [Lists!Next]_(Lists!vars)
  BY StepOfReader
<1>2. CASE UNCHANGED cache
  BY <1>2 DEF ListsInv, FiledUnder
<1>3. CASE Lists!Ask
  <2>1. cache' = [entry |-> cache.entry, asked |-> cache.asked \cup {Lists!Asked}]
    BY <1>3 DEF Lists!Ask, ListsInv
  <2>2. Question(Lists!Asked)
    BY DEF Lists!Asked, Question
  <2> QED
    BY <2>1, <2>2 DEF ListsInv, FiledUnder
<1>4. ASSUME NEW a \in cache.asked, Lists!Land(a) PROVE ListsInv'
  BY <1>4, Filed DEF Lists!Land
<1>5. ASSUME NEW a \in cache.asked, Lists!Fail(a) PROVE ListsInv'
  <2> DEFINE k == Lists!Key(a.page, a.filter)
  <2>1. CASE Lists!Entry(k) = Lists!None
    BY <1>5, <2>1, Filed DEF Lists!Fail, Lists!Failed
  <2>2. CASE Lists!Entry(k) # Lists!None
    <3>1. k \in DOMAIN cache.entry /\ Lists!Entry(k) = cache.entry[k]
      BY <2>2 DEF Lists!Entry
    <3>2. cache' = [entry |-> Lists!Entered(k, cache.entry[k]),
                    asked |-> cache.asked \ {a}]
      BY <1>5, <2>2, <3>1 DEF Lists!Fail
    <3>3. \A x \in DOMAIN cache'.entry : x \in DOMAIN cache.entry /\ FiledUnder(x)'
      BY <3>1, <3>2 DEF Lists!Entered, FiledUnder, ListsInv
    <3> HIDE DEF k
    <3> QED
      BY <3>2, <3>3 DEF ListsInv
  <2> QED
    BY <2>1, <2>2
<1> QED
  BY <1>1, <1>2, <1>3, <1>4, <1>5
     DEF Lists!Next, Lists!vars, Lists!Elsewhere, Lists!MessagesFilters,
         Lists!AuditLogsFilters, Lists!UsersFilters, Lists!GroupsFilters,
         Lists!resetFilters, Lists!Checkboxes, Lists!MessagesPager, Lists!AuditLogsPager,
         Lists!UsersPager, Lists!GroupsPager, Lists!ChannelsPager, Lists!PushKeysPager,
         Lists!Pager, Lists!Gesture

\* The rows of a list are the answer to the page and the filter on the
\* screen, for any pages and filters and however late other answers arrive.
THEOREM ListedAsAsked == Spec => []RowsAsAsked
<1>1. ListsInv => RowsAsAsked
  <2> SUFFICES ASSUME ListsInv, area = "lists", Lists!Data.at = "data"
               PROVE  Lists!Data.of = Lists!Asked
    BY DEF RowsAsAsked, Lists!RowsAsAsked
  <2> DEFINE k == Lists!Key(page.page, page.filter)
  <2>1. Lists!Data = cache.entry[k] /\ k \in DOMAIN cache.entry
    BY DEF Lists!Data, Lists!Entry, Lists!None
  <2>2. Question(Lists!Data.of) /\ k = Lists!Key(Lists!Data.of.page, Lists!Data.of.filter)
    BY <2>1 DEF ListsInv, FiledUnder
  <2> QED
    BY <2>2 DEF Lists!Key, Lists!Asked, Question
<1> QED
  BY <1>1, ListsInit, ListsStep, PTL DEF Spec

-----------------------------------------------------------------------------
(* Lists: an empty table.                                                  *)

\* The greater and the lesser of two.
LEMMA GreaterOfTwo ==
  ASSUME NEW x \in Int, NEW y \in Int
  PROVE  /\ Lists!Max({x, y}) = IF x >= y THEN x ELSE y
         /\ Lists!Min({x, y}) = IF x >= y THEN y ELSE x
<1>1. \E m \in {x, y} : \A n \in {x, y} : m >= n
  OBVIOUS
<1>2. \E m \in {x, y} : \A n \in {x, y} : m <= n
  OBVIOUS
<1> QED
  BY <1>1, <1>2 DEF Lists!Max, Lists!Min

\* A page that is not the last is followed by one that holds a row.
LEMMA NextPageHolds ==
  ASSUME NEW size \in Nat \ {0}, NEW n \in Nat, NEW p \in Nat,
         p < ((n + size - 1) \div size) - 1
  PROVE  (p + 1) * size < n
<1> DEFINE q == (n + size - 1) \div size
<1>1. q \in Int /\ q * size <= n + size - 1
  OBVIOUS
<1> HIDE DEF q
<1>2. p + 2 <= q
  BY <1>1 DEF q
<1>3. (p + 2) * size <= q * size
  BY <1>1, <1>2
<1>4. (p + 2) * size = (p + 1) * size + size
  OBVIOUS
<1>5. (p + 1) * size \in Int /\ q * size \in Int
  BY <1>1
<1> QED
  BY <1>1, <1>3, <1>4, <1>5

\* More rows match if there are more.
LEMMA MatchingGrows ==
  ASSUME IsFiniteSet(server'.rows), server.rows \subseteq server'.rows, NEW f
  PROVE  /\ Lists!Matching(f) \in Nat /\ Lists!Matching(f)' \in Nat
         /\ Lists!Matching(f) <= Lists!Matching(f)'
<1> DEFINE old == {r \in server.rows : f = {} \/ r[1] \in f}
           new == {r \in server'.rows : f = {} \/ r[1] \in f}
<1>1. new \subseteq server'.rows /\ old \subseteq new
  OBVIOUS
<1>2. Lists!Matching(f) = Cardinality(old) /\ Lists!Matching(f)' = Cardinality(new)
  BY DEF Lists!Matching, Lists!Cardinality, Cardinality
<1> HIDE DEF old, new
<1>3. IsFiniteSet(new)
  BY <1>1, FS_Subset
<1>4. IsFiniteSet(old) /\ Cardinality(old) <= Cardinality(new)
  BY <1>1, <1>3, FS_Subset
<1>5. Cardinality(old) \in Nat /\ Cardinality(new) \in Nat
  BY <1>3, <1>4, FS_CardinalityType
<1> QED
  BY <1>2, <1>4, <1>5

\* Page p of filter f is the first, or holds a row.
Reached(p, f) == p \in Nat /\ (p = 0 \/ p * PageSize < Lists!Matching(f))

\* An answer with a total counts rows that are there, and shows none only if
\* there were none.
Counted(e) ==
  e.at = "data" =>
    /\ e.total \in Nat /\ e.total <= Lists!Matching(e.of.filter)
    /\ e.items = 0 => e.total = 0

RowsInv ==
  area = "lists" =>
    /\ server = [rows |-> server.rows, changes |-> server.changes, removed |-> server.removed]
    /\ page = [of |-> page.of, page |-> page.page, filter |-> page.filter,
               gestures |-> page.gestures]
    /\ IsFiniteSet(server.rows)
    /\ ~server.removed =>
         /\ Reached(page.page, page.filter)
         /\ \A a \in cache.asked : Reached(a.page, a.filter)
         /\ \A k \in DOMAIN cache.entry : Counted(cache.entry[k])

LEMMA RowsStart == Init => RowsInv
<1> SUFFICES ASSUME Init, area = "lists" PROVE RowsInv
  BY DEF RowsInv
<1>1. Lists!Init
  BY DEF Init
<1> DEFINE n == MaxRows - 1
<1>0. n \in Int /\ IsFiniteSet(Classes)
  BY ConsoleAssumption DEF ConsoleAssumption
<1> HIDE DEF n
<1>2. IsFiniteSet(1..n)
  BY <1>0, FS_Interval
<1>3. IsFiniteSet(Classes \X (1..n))
  BY <1>0, <1>2, FS_Product
<1> QED
  BY <1>1, <1>3 DEF n, Lists!Init, RowsInv, Reached

\* The rows of an answer.
LEMMA RowsOfPage ==
  ASSUME NEW n \in Nat, NEW p \in Nat, p = 0 \/ p * PageSize < n, Lists!Rows(n, p) = 0
  PROVE  n = 0
<1>1. PageSize \in Nat \ {0}
  BY ConsoleAssumption DEF ConsoleAssumption
<1> DEFINE left == n - p * PageSize
<1>2. left \in Int /\ (left > 0 \/ n = 0 \/ left = n)
  BY <1>1
<1> HIDE DEF left
<1>3. Lists!Rows(n, p) = Lists!Max({0, Lists!Min({PageSize, left})})
  BY DEF Lists!Rows, left
<1>4. Lists!Min({PageSize, left}) = IF PageSize >= left THEN left ELSE PageSize
  BY <1>1, <1>2, GreaterOfTwo
<1>5. left <= 0
  BY <1>1, <1>2, <1>3, <1>4, GreaterOfTwo
<1> QED
  BY <1>2, <1>5

\* The user turns a page.
LEMMA PageTurned ==
  ASSUME ListsInv, RowsInv, area = "lists", Lists!Pager
  PROVE  RowsInv'
<1>1. PageSize \in Nat \ {0}
  BY ConsoleAssumption DEF ConsoleAssumption
<1>2. PICK p : /\ page' = [page EXCEPT !.page = p, !.gestures = page.gestures + 1]
               /\ \/ page.page # 0 /\ p = Lists!Max({0, page.page - 1})
                  \/ /\ page.page < Lists!totalPages - 1
                     /\ p = Lists!Min({Lists!totalPages - 1, page.page + 1})
  BY DEF Lists!Pager, Lists!Gesture, RowsInv
<1>3. /\ page'.page = p /\ page'.filter = page.filter
      /\ page' = [of |-> page'.of, page |-> page'.page, filter |-> page'.filter,
                  gestures |-> page'.gestures]
      /\ UNCHANGED <<server, cache>>
  BY <1>2 DEF RowsInv, Lists!Pager, Lists!Gesture
<1>4. ASSUME ~server.removed PROVE Reached(p, page.filter)
  <2> DEFINE m == Lists!Matching(page.filter)
             t == Lists!total
  <2>1. page.page \in Nat /\ (page.page = 0 \/ page.page * PageSize < m)
    BY <1>4 DEF RowsInv, Reached
  <2>2. m \in Nat
    BY MatchingGrows, <1>3 DEF RowsInv
  <2>3. t \in Nat /\ t <= m
    <3> DEFINE k == Lists!Key(page.page, page.filter)
    <3>1. CASE Lists!Data.at = "data"
      <4>1. k \in DOMAIN cache.entry /\ Lists!Data = cache.entry[k]
        BY <3>1 DEF Lists!Data, Lists!Entry, Lists!None
      <4>2. Counted(cache.entry[k]) /\ FiledUnder(k)
        BY <1>4, <4>1 DEF RowsInv, ListsInv
      <4>3. cache.entry[k].of.filter = page.filter
        BY <3>1, <4>1, <4>2 DEF FiledUnder, Lists!Key
      <4> QED
        BY <3>1, <4>1, <4>2, <4>3 DEF Counted, Lists!total
    <3>2. CASE Lists!Data.at # "data"
      BY <2>2, <3>2 DEF Lists!total
    <3> QED
      BY <3>1, <3>2
  <2>4. Lists!totalPages = (t + PageSize - 1) \div PageSize
    BY DEF Lists!totalPages
  <2> HIDE DEF m, t
  <2>5. CASE page.page # 0 /\ p = Lists!Max({0, page.page - 1})
    <3>1. p = page.page - 1
      BY <2>1, <2>5, GreaterOfTwo
    <3>5. page.page \in Nat /\ page.page # 0
      BY <2>1, <2>5
    <3>2. p \in Nat
      BY <3>1, <3>5
    <3>4. p * PageSize = page.page * PageSize - PageSize
      BY <1>1, <2>1, <3>1
    <3>3. page.page * PageSize \in Int
      BY <1>1, <2>1
    <3> QED
      BY <1>1, <2>1, <2>2, <2>5, <3>2, <3>3, <3>4 DEF Reached, m
  <2>6. CASE /\ page.page < Lists!totalPages - 1
             /\ p = Lists!Min({Lists!totalPages - 1, page.page + 1})
    <3>1. Lists!totalPages \in Int
      BY <1>1, <2>3, <2>4
    <3>5. Lists!totalPages - 1 \in Int /\ page.page + 1 \in Int
      BY <2>1, <3>1
    <3>6. Lists!totalPages - 1 >= page.page + 1
      BY <2>1, <2>6, <3>1
    <3>2. p = page.page + 1
      BY <2>6, <3>5, <3>6, GreaterOfTwo
    <3>3. p * PageSize < t
      BY <1>1, <2>1, <2>3, <2>4, <2>6, <3>2, NextPageHolds
    <3>4. p \in Nat /\ p * PageSize \in Int
      BY <1>1, <2>1, <3>2
    <3> QED
      BY <2>2, <2>3, <3>3, <3>4 DEF Reached, m
  <2> QED
    BY <1>2, <2>5, <2>6
<1>5. ASSUME NEW f PROVE Lists!Matching(f)' = Lists!Matching(f)
  BY <1>3 DEF Lists!Matching
<1> QED
  BY <1>3, <1>4, <1>5 DEF RowsInv, Reached, Counted

\* The user ticks a filter, or clears it: the table starts at its first page.
LEMMA FilterSet ==
  ASSUME RowsInv, area = "lists", NEW f, Lists!Gesture(Lists!Filtered(f)) PROVE RowsInv'
<1>1. /\ page'.page = 0
      /\ page' = [of |-> page'.of, page |-> page'.page, filter |-> page'.filter,
                  gestures |-> page'.gestures]
      /\ UNCHANGED <<server, cache>>
  BY DEF RowsInv, Lists!Gesture, Lists!Filtered
<1>2. ASSUME NEW g PROVE Lists!Matching(g)' = Lists!Matching(g)
  BY <1>1 DEF Lists!Matching
<1> QED
  BY <1>1, <1>2 DEF RowsInv, Reached, Counted

\* A row comes or goes.
LEMMA RowsChanged ==
  ASSUME RowsInv, area = "lists", NEW r, Lists!Elsewhere(r) PROVE RowsInv'
<1>1. /\ server' = [rows |-> server'.rows, changes |-> server'.changes,
                    removed |-> server'.removed]
      /\ server'.rows = Lists!SymDiff(server.rows, {r})
      /\ server'.removed <=> (server.removed \/ r \in server.rows)
      /\ UNCHANGED <<page, cache>>
  BY DEF RowsInv, Lists!Elsewhere
<1>2. server'.rows \subseteq server.rows \cup {r}
  BY <1>1 DEF Lists!SymDiff
<1>3. IsFiniteSet(server.rows \cup {r})
  BY FS_AddElement DEF RowsInv
<1>4. IsFiniteSet(server'.rows)
  BY <1>2, <1>3, FS_Subset
<1>5. ASSUME ~server'.removed, NEW f
      PROVE  /\ Lists!Matching(f) \in Nat /\ Lists!Matching(f)' \in Nat
             /\ Lists!Matching(f) <= Lists!Matching(f)'
  <2>1. server.rows \subseteq server'.rows
    BY <1>1, <1>5 DEF Lists!SymDiff
  <2> QED
    BY <1>4, <2>1, MatchingGrows
<1>6. ASSUME ~server'.removed, NEW p, NEW f, Reached(p, f) PROVE Reached(p, f)'
  <2>1. PageSize \in Nat /\ (p \in Nat => p * PageSize \in Int)
    BY ConsoleAssumption DEF ConsoleAssumption
  <2> QED
    BY <1>5, <1>6, <2>1 DEF Reached
<1>7. ASSUME ~server'.removed, NEW e, Counted(e) PROVE Counted(e)'
  BY <1>5, <1>7 DEF Counted
<1> QED
  BY <1>1, <1>4, <1>6, <1>7 DEF RowsInv

\* The page asks; an answer or a failure comes.
LEMMA RowsAnswered ==
  ASSUME ListsInv, RowsInv, area = "lists",
         Lists!Ask \/ \E a \in cache.asked : Lists!Land(a) \/ Lists!Fail(a)
  PROVE  RowsInv'
<1>0. UNCHANGED <<server, page>>
  BY DEF Lists!Ask, Lists!Land, Lists!Fail
<1>1. ASSUME NEW f PROVE Lists!Matching(f)' = Lists!Matching(f)
  BY <1>0 DEF Lists!Matching
<1>2. ASSUME ~server.removed => /\ \A a \in cache'.asked : Reached(a.page, a.filter)
                                /\ \A k \in DOMAIN cache'.entry : Counted(cache'.entry[k])
      PROVE  RowsInv'
  BY <1>0, <1>1, <1>2 DEF RowsInv, Reached, Counted
<1>3. CASE Lists!Ask
  <2>1. /\ cache'.entry = cache.entry
        /\ \A a \in cache'.asked : a \in cache.asked \/ a = Lists!Asked
    BY <1>3 DEF Lists!Ask, ListsInv
  <2>2. Lists!Asked.page = page.page /\ Lists!Asked.filter = page.filter
    BY DEF Lists!Asked
  <2> QED
    BY <1>2, <2>1, <2>2 DEF RowsInv
<1>4. ASSUME NEW a \in cache.asked, NEW k, NEW e,
             cache' = [entry |-> Lists!Entered(k, e), asked |-> cache.asked \ {a}],
             ~server.removed => Counted(e)
      PROVE  RowsInv'
  <2>1. \A x \in DOMAIN cache'.entry :
          \/ x \in DOMAIN cache.entry /\ cache'.entry[x] = cache.entry[x]
          \/ cache'.entry[x] = e
    BY <1>4 DEF Lists!Entered
  <2>2. \A b \in cache'.asked : b \in cache.asked
    BY <1>4
  <2> QED
    BY <1>2, <1>4, <2>1, <2>2 DEF RowsInv
<1>5. ASSUME NEW a \in cache.asked, Lists!Land(a) PROVE RowsInv'
  <2> DEFINE n == Lists!Matching(a.filter)
             e == [at |-> "data", of |-> a, items |-> Lists!Rows(n, a.page), total |-> n]
  <2>1. cache' = [entry |-> Lists!Entered(Lists!Key(a.page, a.filter), e),
                  asked |-> cache.asked \ {a}]
    BY <1>5 DEF Lists!Land
  <2>2. n \in Nat
    BY <1>0, MatchingGrows DEF RowsInv
  <2>3. ASSUME ~server.removed PROVE Counted(e)
    <3>1. a.page \in Nat /\ (a.page = 0 \/ a.page * PageSize < n)
      BY <2>3 DEF RowsInv, Reached
    <3>2. e.items = Lists!Rows(n, a.page) /\ e.total = n /\ e.of.filter = a.filter
      OBVIOUS
    <3>3. n <= n
      BY <2>2
    <3> HIDE DEF e, n
    <3>4. e.items = 0 => e.total = 0
      BY <2>2, <3>1, <3>2, RowsOfPage
    <3> QED
      BY <2>2, <3>2, <3>3, <3>4 DEF Counted, n
  <2> HIDE DEF e, n
  <2> QED
    BY <1>4, <2>1, <2>3
<1>6. ASSUME NEW a \in cache.asked, Lists!Fail(a) PROVE RowsInv'
  <2> DEFINE k == Lists!Key(a.page, a.filter)
             e == IF Lists!Entry(k) = Lists!None THEN Lists!Failed ELSE Lists!Entry(k)
  <2>1. cache' = [entry |-> Lists!Entered(k, e), asked |-> cache.asked \ {a}]
    BY <1>6 DEF Lists!Fail
  <2>2. ASSUME ~server.removed PROVE Counted(e)
    <3>1. CASE k \in DOMAIN cache.entry
      BY <2>2, <3>1 DEF RowsInv, Lists!Entry, Lists!None, Lists!Failed, Counted
    <3>2. CASE k \notin DOMAIN cache.entry
      BY <3>2 DEF Lists!Entry, Lists!None, Lists!Failed, Counted
    <3> QED
      BY <3>1, <3>2
  <2> HIDE DEF e
  <2> QED
    BY <1>4, <2>1, <2>2
<1> QED
  BY <1>3, <1>5, <1>6

LEMMA RowsStep == ListsInv /\ RowsInv /\ [Next]_vars => RowsInv'
<1> SUFFICES ASSUME ListsInv, RowsInv, [Next]_vars, area = "lists", area' = "lists"
             PROVE  RowsInv'
  BY OneArea DEF RowsInv
<1>1. [Lists!Next]_(Lists!vars)
  BY StepOfReader
<1>2. CASE UNCHANGED Lists!vars
  <2>1. UNCHANGED <<server, page, cache>>
    BY <1>2 DEF Lists!vars
  <2>2. ASSUME NEW f PROVE Lists!Matching(f)' = Lists!Matching(f)
    BY <2>1 DEF Lists!Matching
  <2> QED
    BY <2>1, <2>2 DEF RowsInv, Reached, Counted
<1> QED
  BY <1>1, <1>2, RowsAnswered, RowsChanged, FilterSet, PageTurned
     DEF Lists!Next, Lists!MessagesFilters, Lists!AuditLogsFilters, Lists!UsersFilters,
         Lists!GroupsFilters, Lists!resetFilters, Lists!Checkboxes, Lists!MessagesPager,
         Lists!AuditLogsPager, Lists!UsersPager, Lists!GroupsPager, Lists!ChannelsPager,
         Lists!PushKeysPager

\* "Nothing here" is true of the filter on the screen, for any rows, classes and page
\* size, unless rows were removed or the query failed (the six list pages: EmptyText).
THEOREM EmptyIsEmpty == Spec => []EmptyTableExplained
<1>1. ListsInv /\ RowsInv => EmptyTableExplained
  <2> SUFFICES ASSUME RowsInv, area = "lists", Lists!EmptyText, ~server.removed
               PROVE  Lists!total = 0
    BY DEF EmptyTableExplained, Lists!EmptyTableExplained
  <2> DEFINE k == Lists!Key(page.page, page.filter)
  <2>1. CASE Lists!Data.at = "data"
    <3>1. k \in DOMAIN cache.entry /\ Lists!Data = cache.entry[k]
      BY <2>1 DEF Lists!Data, Lists!Entry, Lists!None
    <3>2. Counted(cache.entry[k])
      BY <3>1 DEF RowsInv
    <3> QED
      BY <2>1, <3>1, <3>2 DEF Counted, Lists!EmptyText, Lists!items, Lists!total
  <2>2. CASE Lists!Data.at # "data"
    BY <2>2 DEF Lists!total
  <2> QED
    BY <2>1, <2>2
<1> QED
  BY <1>1, ListsInit, ListsStep, RowsStart, RowsStep, PTL DEF Spec

-----------------------------------------------------------------------------
(* The overview.  Figures are filed under their range, and at most one     *)
(* answer per range is awaited, so that none can overtake a newer one.     *)

Figures == [days : Ranges \cup {0}, figure : Nat]

OverviewPage == [panel : Overview!Panels, isAdmin : BOOLEAN, days : Ranges,
                 shouldLoadCharts : BOOLEAN, refocused : BOOLEAN, gestures : Nat]

OverviewTypes ==
  /\ server \in [changes : Nat \ {0}]
  /\ cache \in [entry : [Ranges \cup {0} -> Figures],
               asked : SUBSET [key : Ranges \cup {0}, days : Ranges, figure : Nat]]
  /\ page \in OverviewPage

\* An answer under way is of its key, the only one, and newer than what is shown.
AnswerInOrder(a) ==
  /\ a.key = Overview!Key(a.days)
  /\ a.figure <= server.changes
  /\ a.figure > 0 => a.figure >= cache.entry[a.key].figure
  /\ \A b \in cache.asked : b.key = a.key => b = a

FigureOfKey(k) ==
  /\ cache.entry[k].figure <= server.changes
  /\ page.panel \in Overview!ByRange /\ cache.entry[k] # Overview!None
       => cache.entry[k].days = k

OverviewInv ==
  area = "overview" =>
    /\ OverviewTypes
    /\ \A a \in cache.asked : AnswerInOrder(a)
    /\ \A k \in Ranges \cup {0} : FigureOfKey(k)

\* There is a shortest range.
LEMMA ShortestRange == \E d \in Ranges : \A e \in Ranges : d <= e
<1>1. Ranges # {} /\ Ranges \subseteq Nat
  BY ConsoleAssumption
<1>2. \E d \in Ranges : \A e \in Ranges : ~(<<e, d>> \in OpToRel(<, Nat))
  BY <1>1, WFMin, NatLessThanWellFounded, Zenon
<1>3. \E d \in Ranges : \A e \in Ranges : ~(e < d)
  BY <1>1, <1>2, Zenon DEF OpToRel
<1> QED
  BY <1>1, <1>3

LEMMA OverviewInit == Init => OverviewInv
<1> SUFFICES ASSUME Overview!Init, area = "overview" PROVE OverviewInv
  BY DEF Init, OverviewInv
<1>1. (CHOOSE d \in Ranges : \A e \in Ranges : d <= e) \in Ranges
  BY ShortestRange
<1>2. OverviewTypes
  BY <1>1 DEF OverviewTypes, OverviewPage, Overview!Init, Overview!None, Figures
<1> QED
  BY <1>2 DEF OverviewInv, AnswerInOrder, FigureOfKey, Overview!Init, Overview!None

\* What a step in the overview does to the panel, to the figures and to the
\* answers it still awaits.
FiguresOnward ==
  /\ OverviewTypes'
  /\ page'.panel = page.panel /\ page'.isAdmin = page.isAdmin
  /\ page.shouldLoadCharts => page'.shouldLoadCharts
  /\ \A k \in Ranges \cup {0} :
       /\ FigureOfKey(k)'
       /\ cache'.entry[k].figure >= cache.entry[k].figure
  /\ \A a \in cache'.asked : AnswerInOrder(a)'

\* A gesture that gives the page the state p.
LEMMA OverviewGesture ==
  ASSUME OverviewTypes, NEW p \in OverviewPage, Overview!Gesture(p)
  PROVE  /\ OverviewTypes' /\ page'.panel = p.panel /\ page'.isAdmin = p.isAdmin
         /\ page'.shouldLoadCharts = p.shouldLoadCharts
         /\ UNCHANGED <<server, cache>>
BY DEF OverviewTypes, OverviewPage, Overview!Gesture

LEMMA OverviewStep ==
  ASSUME OverviewInv, area = "overview", [Overview!Next]_(Overview!vars)
  PROVE  FiguresOnward
<1>0. /\ OverviewTypes
      /\ \A a \in cache.asked : AnswerInOrder(a)
      /\ \A k \in Ranges \cup {0} : FigureOfKey(k)
  BY DEF OverviewInv
<1>a. ASSUME page'.panel = page.panel, page'.isAdmin = page.isAdmin,
             page.shouldLoadCharts => page'.shouldLoadCharts,
             OverviewTypes', UNCHANGED <<server, cache>>
      PROVE  FiguresOnward
  BY <1>0, <1>a
     DEF FiguresOnward, AnswerInOrder, FigureOfKey, Overview!Key, OverviewTypes,
         OverviewPage, Figures
<1>1. CASE UNCHANGED Overview!vars
  BY <1>0, <1>1, <1>a DEF Overview!vars, OverviewTypes
<1>2. CASE Overview!Ask
  <2> DEFINE a == [key |-> Overview!Key(page.days), days |-> page.days, figure |-> 0]
  <2>1. a \in [key : Ranges \cup {0}, days : Ranges, figure : Nat]
    BY <1>0 DEF OverviewTypes, OverviewPage, Overview!Key
  <2>2. /\ cache'.entry = cache.entry /\ cache'.asked = cache.asked \cup {a}
        /\ \A b \in cache.asked : b.key # a.key
        /\ page'.panel = page.panel /\ page'.isAdmin = page.isAdmin
        /\ page'.shouldLoadCharts = page.shouldLoadCharts
        /\ UNCHANGED server
    BY <1>0, <1>2 DEF Overview!Ask, OverviewTypes, OverviewPage
  <2>3. OverviewTypes'
    BY <1>0, <1>2, <2>1 DEF Overview!Ask, OverviewTypes, OverviewPage
  <2>4. \A k \in Ranges \cup {0} : FigureOfKey(k)'
    BY <1>0, <2>2 DEF FigureOfKey
  <2>5. ASSUME NEW b \in cache'.asked PROVE AnswerInOrder(b)'
    <3>1. CASE b \in cache.asked
      BY <1>0, <2>2, <3>1 DEF AnswerInOrder, Overview!Key
    <3>2. CASE b = a
      BY <1>0, <2>2, <3>2 DEF AnswerInOrder, Overview!Key, OverviewTypes, OverviewPage
    <3> QED
      BY <2>2, <2>5, <3>1, <3>2
  <2> HIDE DEF a
  <2> QED
    BY <1>0, <2>2, <2>3, <2>4, <2>5 DEF FiguresOnward, OverviewTypes, OverviewPage, Figures
<1>3. CASE Overview!Elsewhere
  <2>1. /\ server'.changes = server.changes + 1 /\ UNCHANGED <<cache, page>>
        /\ OverviewTypes'
    BY <1>0, <1>3 DEF Overview!Elsewhere, OverviewTypes
  <2> QED
    BY <1>0, <2>1
       DEF FiguresOnward, AnswerInOrder, FigureOfKey, Overview!Key, OverviewTypes,
           OverviewPage, Figures
<1>4. CASE Overview!loadCharts
  <2> DEFINE p == [page EXCEPT !.shouldLoadCharts = TRUE]
  <2>1. /\ p \in OverviewPage /\ p.panel = page.panel /\ p.isAdmin = page.isAdmin
        /\ page.shouldLoadCharts => p.shouldLoadCharts
    BY <1>0 DEF OverviewTypes, OverviewPage
  <2>2. Overview!Gesture(p)
    BY <1>4 DEF Overview!loadCharts
  <2> HIDE DEF p
  <2> QED
    BY <1>0, <1>a, <2>1, <2>2, OverviewGesture
<1>5. CASE Overview!focus
  <2> DEFINE p == [page EXCEPT !.refocused = TRUE]
  <2>1. /\ p \in OverviewPage /\ p.panel = page.panel /\ p.isAdmin = page.isAdmin
        /\ page.shouldLoadCharts => p.shouldLoadCharts
    BY <1>0 DEF OverviewTypes, OverviewPage
  <2>2. Overview!Gesture(p)
    BY <1>5 DEF Overview!focus
  <2> HIDE DEF p
  <2> QED
    BY <1>0, <1>a, <2>1, <2>2, OverviewGesture
<1>6. ASSUME NEW days \in Ranges, Overview!setTimeRange(days) PROVE FiguresOnward
  <2> DEFINE p == [page EXCEPT !.days = days]
  <2>1. /\ p \in OverviewPage /\ p.panel = page.panel /\ p.isAdmin = page.isAdmin
        /\ page.shouldLoadCharts => p.shouldLoadCharts
    BY <1>0 DEF OverviewTypes, OverviewPage
  <2>2. Overview!Gesture(p)
    BY <1>6 DEF Overview!setTimeRange
  <2> HIDE DEF p
  <2> QED
    BY <1>0, <1>a, <2>1, <2>2, OverviewGesture
<1>7. ASSUME NEW a \in cache.asked, Overview!Serve(a) PROVE FiguresOnward
  <2> DEFINE b == [a EXCEPT !.figure = server.changes]
  <2>1. /\ b \in [key : Ranges \cup {0}, days : Ranges, figure : Nat]
        /\ b.key = a.key /\ b.days = a.days /\ b.figure = server.changes
    BY <1>0 DEF OverviewTypes
  <2>2. /\ cache'.entry = cache.entry /\ cache'.asked = (cache.asked \ {a}) \cup {b}
        /\ UNCHANGED <<server, page>> /\ OverviewTypes'
    BY <1>0, <1>7, <2>1 DEF Overview!Serve, OverviewTypes
  <2> HIDE DEF b
  <2>3. ASSUME NEW c \in cache'.asked PROVE AnswerInOrder(c)'
    <3>1. CASE c = b
      BY <1>0, <2>1, <2>2, <3>1 DEF AnswerInOrder, FigureOfKey, Overview!Key, OverviewTypes
    <3>2. CASE c # b
      BY <1>0, <2>1, <2>2, <2>3, <3>2 DEF AnswerInOrder, Overview!Key
    <3> QED
      BY <3>1, <3>2
  <2> QED
    BY <1>0, <2>2, <2>3 DEF FiguresOnward, FigureOfKey, OverviewTypes, OverviewPage, Figures
<1>8. ASSUME NEW a \in cache.asked, Overview!Land(a) PROVE FiguresOnward
  <2> DEFINE e == [days |-> a.days, figure |-> a.figure]
  <2>0. e \in Figures /\ e.days = a.days /\ e.figure = a.figure
        /\ a.key \in Ranges \cup {0} /\ a.days \in Ranges /\ a.figure \in Nat
    BY <1>0 DEF OverviewTypes, OverviewPage, Figures
  <2>1. /\ cache' = [entry |-> [cache.entry EXCEPT ![a.key] = e],
                     asked |-> cache.asked \ {a}]
        /\ a.figure > 0 /\ UNCHANGED <<server, page>>
    BY <1>8 DEF Overview!Land
  <2> HIDE DEF e
  <2>2. OverviewTypes'
    BY <1>0, <2>0, <2>1 DEF OverviewTypes
  <2>3. /\ cache'.asked = cache.asked \ {a}
        /\ \A k \in Ranges \cup {0} :
             cache'.entry[k] = IF k = a.key THEN e ELSE cache.entry[k]
    BY <1>0, <2>1 DEF OverviewTypes
  <2>4. AnswerInOrder(a)
    BY <1>0
  <2>5. ASSUME NEW c \in cache'.asked PROVE AnswerInOrder(c)'
    <3>1. c.key # a.key /\ AnswerInOrder(c) /\ c.key \in Ranges \cup {0}
      BY <1>0, <2>3, <2>4, <2>5 DEF AnswerInOrder, OverviewTypes
    <3> QED
      BY <2>1, <2>3, <3>1 DEF AnswerInOrder, Overview!Key
  <2>6. ASSUME NEW k \in Ranges \cup {0}
        PROVE  /\ FigureOfKey(k)'
               /\ cache'.entry[k].figure >= cache.entry[k].figure
    <3>1. CASE k # a.key
      BY <1>0, <2>1, <2>3, <3>1 DEF FigureOfKey, OverviewTypes, OverviewPage, Figures
    <3>2. CASE k = a.key
      BY <1>0, <2>0, <2>1, <2>3, <2>4, <3>2
         DEF FigureOfKey, AnswerInOrder, Overview!Key
    <3> QED
      BY <3>1, <3>2
  <2> QED
    BY <2>1, <2>2, <2>5, <2>6 DEF FiguresOnward
<1>9. ASSUME NEW a \in cache.asked, Overview!Fail(a) PROVE FiguresOnward
  <2>1. /\ cache'.entry = cache.entry /\ cache'.asked = cache.asked \ {a}
        /\ UNCHANGED <<server, page>> /\ OverviewTypes'
    BY <1>0, <1>9 DEF Overview!Fail, OverviewTypes
  <2> QED
    BY <1>0, <2>1
       DEF FiguresOnward, AnswerInOrder, FigureOfKey, Overview!Key, OverviewTypes, OverviewPage, Figures
<1> QED
  BY <1>1, <1>2, <1>3, <1>4, <1>5, <1>6, <1>7, <1>8, <1>9 DEF Overview!Next

\* Figures under "last n days" are of those n days, for any ranges, and a panel
\* never goes back to older figures of its range, however answers come in.
THEOREM FiguresShown == Spec => FiguresOfRange
<1>1. OverviewInv /\ [Next]_vars => OverviewInv'
  BY OneArea, StepOfReader, OverviewStep DEF OverviewInv, FiguresOnward
<1>2. OverviewInv /\ [Next]_vars
        => [area = "overview" => Overview!FiguresOfRange]_vars
  <2> SUFFICES ASSUME OverviewInv, [Next]_vars, area = "overview"
               PROVE  Overview!FiguresOfRange
    OBVIOUS
  <2>1. FiguresOnward
    BY StepOfReader, OverviewStep
  <2>2. OverviewTypes /\ \A k \in Ranges \cup {0} : FigureOfKey(k)
    BY DEF OverviewInv
  <2>3. Overview!Key(page.days) \in Ranges \cup {0} /\ page.days \in Ranges
    BY <2>2 DEF Overview!Key, OverviewTypes, OverviewPage
  <2>4. page.panel \in Overview!ByRange /\ Overview!Shown # Overview!None
          => Overview!Shown.days = page.days
    BY <2>2, <2>3 DEF FigureOfKey, Overview!Shown, Overview!Key
  <2>5. ASSUME Overview!Shown # Overview!None, page'.days = page.days
        PROVE  Overview!Shown'.figure >= Overview!Shown.figure
    <3>1. Overview!enabled /\ Overview!enabled'
      BY <2>1, <2>5 DEF Overview!Shown, Overview!enabled, FiguresOnward
    <3>2. Overview!Key(page.days)' = Overview!Key(page.days)
      BY <2>1, <2>5 DEF Overview!Key, FiguresOnward
    <3> QED
      BY <2>1, <2>3, <2>5, <3>1, <3>2 DEF Overview!Shown, FiguresOnward
  <2> QED
    BY <2>4, <2>5 DEF Overview!FiguresOfRange
<1> QED
  BY <1>1, <1>2, OverviewInit, PTL DEF Spec, FiguresOfRange

-----------------------------------------------------------------------------
(* The page of one message.  A failure this page has retried is past on    *)
(* the server, and past in the rows shown once the refetch the retry waits *)
(* for has landed; until then the button is disabled.                      *)

Row(d) == server.row[d]
Failures == [delivery : Deliveries, failure : Nat]
DetailRows == [Deliveries -> [status : {"queued", "success", "dead_letter"},
                              failure : Nat]]

IsRetry(c) == c.op = "retry"

DetailTypes ==
  /\ server \in [row : DetailRows, elsewhere : Nat]
  /\ cache \in [rows : DetailRows \cup {Null},
               fetch : [at : {"idle", "sent", "back"}, rows : DetailRows \cup {Null}]]
  /\ cache.fetch.at = "back" => cache.fetch.rows \in DetailRows
  /\ page \in [retried : SUBSET Failures, gestures : Nat]
  /\ CallsOK
  /\ \A i \in DOMAIN calls :
       IsRetry(calls[i]) /\ calls[i].at \in {"sent", "ok", "await"}
         => calls[i].arg \in Failures

\* Row r is past failure f of its delivery; row s is not behind r.
Past(r, f) == r.failure > f \/ (r.failure = f /\ r.status # "dead_letter")
NotBehind(s, r) ==
  s.failure > r.failure
    \/ (s.failure = r.failure /\ (s.status = "dead_letter" => r.status = "dead_letter"))

OldRetriesDone ==
  \A i, j \in DOMAIN calls :
    /\ i < j
    /\ IsRetry(calls[i]) /\ calls[i].here /\ IsRetry(calls[j]) /\ calls[j].here
    => calls[i].at = "done"

\* A retry is of a failure the server has seen, and past once it is served.
RetryOfFailure(c) ==
  IsRetry(c) =>
    /\ c.at = "sent" => c.arg.failure <= Row(c.arg.delivery).failure
    /\ c.at \in {"ok", "await"} => Past(Row(c.arg.delivery), c.arg.failure)

\* What the page has, or is about to have, is not ahead of the server.
RowsSeen ==
  /\ cache.rows # Null => \A d \in Deliveries : cache.rows[d].failure <= Row(d).failure
  /\ cache.fetch.at = "back" =>
       \A d \in Deliveries : cache.fetch.rows[d].failure <= Row(d).failure

\* The retry of failure x still waits for the rows.
Waited(x) ==
  \E i \in DOMAIN calls :
    IsRetry(calls[i]) /\ calls[i].here /\ calls[i].at = "await" /\ calls[i].arg = x

RetriedPast(x) ==
  /\ Past(Row(x.delivery), x.failure)
  /\ cache.fetch.at = "back" => Past(cache.fetch.rows[x.delivery], x.failure)
  /\ Waited(x) \/ (cache.rows # Null /\ Past(cache.rows[x.delivery], x.failure))

NotAgain ==
  \A i \in DOMAIN calls :
    IsRetry(calls[i]) /\ calls[i].here /\ calls[i].at = "sent"
      => calls[i].arg \notin page.retried

DetailInv ==
  /\ DetailTypes /\ OldRetriesDone /\ RowsSeen /\ NotAgain
  /\ \A i \in DOMAIN calls : RetryOfFailure(calls[i])
  /\ \A x \in page.retried : RetriedPast(x)

LEMMA DetailInit == Detail!Init => DetailInv
<1> SUFFICES ASSUME Detail!Init PROVE DetailInv
  OBVIOUS
<1>1. calls \in Seq({}) /\ DOMAIN calls = {} /\ page.retried = {} /\ cache.rows = Null
      /\ cache.fetch.at = "sent"
  BY DEF Detail!Init, Detail!Blank, Detail!Sent
<1>2. DetailTypes
  BY <1>1 DEF DetailTypes, DetailRows, Detail!Init, Detail!Blank, Detail!Sent, CallsOK
<1> QED
  BY <1>1, <1>2 DEF DetailInv, OldRetriesDone, RowsSeen, NotAgain

\* A request goes on: its answer comes back, it is lost or it is settled.
OneWay(i) ==
  /\ calls'[i].op = calls[i].op /\ calls'[i].here = calls[i].here
  /\ \/ calls'[i].at = calls[i].at /\ calls'[i].arg = calls[i].arg
     \/ calls[i].at \in {"sent", "ok", "error"} /\ calls'[i].at \in {"error", "done"}
     \/ /\ calls[i].at = "sent" /\ calls'[i].at = "ok" /\ calls'[i].arg = calls[i].arg
        /\ IsRetry(calls[i]) => Past(Row(calls[i].arg.delivery)', calls[i].arg.failure)

\* The steps that retry nothing and bring no rows.
LEMMA DetailQuiet ==
  ASSUME DetailInv,
         server' \in [row : DetailRows, elsewhere : Nat],
         \A d \in Deliveries : NotBehind(Row(d)', Row(d)),
         page' \in [retried : {page.retried}, gestures : Nat],
         cache'.rows = cache.rows,
         cache' \in [rows : DetailRows \cup {Null},
                    fetch : [at : {"idle", "sent", "back"}, rows : DetailRows \cup {Null}]],
         \/ cache'.fetch = cache.fetch \/ cache'.fetch.at # "back"
         \/ cache'.fetch.rows = server.row,
         CallsOK', DOMAIN calls' = DOMAIN calls,
         \A i \in DOMAIN calls : OneWay(i)
  PROVE  DetailInv'
<1>0. DetailTypes
  BY DEF DetailInv
<1>1. \A d \in Deliveries :
        /\ Row(d) \in [status : {"queued", "success", "dead_letter"}, failure : Nat]
        /\ Row(d)' \in [status : {"queued", "success", "dead_letter"}, failure : Nat]
  BY <1>0 DEF DetailTypes, DetailRows, Row
<1>2. ASSUME NEW i \in DOMAIN calls', IsRetry(calls'[i])
      PROVE  /\ IsRetry(calls[i]) /\ calls'[i].here = calls[i].here
             /\ calls'[i].at \in {"sent", "ok", "await"}
                  => calls'[i].arg = calls[i].arg /\ calls[i].arg \in Failures
             /\ calls'[i].at \in {"sent", "await"} => calls[i].at = calls'[i].at
             /\ calls[i].at = "done" => calls'[i].at = "done"
  BY <1>0, <1>2 DEF OneWay, IsRetry, DetailTypes
<1>3. ASSUME NEW x \in Failures, Past(Row(x.delivery), x.failure)
      PROVE  Past(Row(x.delivery)', x.failure)
  BY <1>1, <1>3 DEF Past, NotBehind, Failures
<1>4. DetailTypes'
  BY <1>0, <1>1, <1>2 DEF DetailTypes, DetailRows
<1>5. OldRetriesDone'
  BY <1>2 DEF OldRetriesDone, DetailInv
<1>6. RowsSeen'
  <2>1. ASSUME NEW r \in DetailRows, NEW d \in Deliveries, r[d].failure <= Row(d).failure
        PROVE  r[d].failure <= Row(d)'.failure
    BY <1>1, <2>1 DEF NotBehind, DetailRows
  <2>2. \A d \in Deliveries : server.row[d].failure <= Row(d).failure
    BY <1>1 DEF Row
  <2>3. server.row \in DetailRows /\ (cache.rows # Null => cache.rows \in DetailRows)
    BY <1>0 DEF DetailTypes
  <2>4. cache'.rows # Null => \A d \in Deliveries : cache'.rows[d].failure <= Row(d)'.failure
    BY <2>1, <2>3 DEF RowsSeen, DetailInv
  <2>5. cache'.fetch.at = "back" =>
          \A d \in Deliveries : cache'.fetch.rows[d].failure <= Row(d)'.failure
    BY <1>0, <2>1, <2>2, <2>3 DEF RowsSeen, DetailInv, DetailTypes
  <2> QED
    BY <2>4, <2>5 DEF RowsSeen
<1>7. NotAgain'
  BY <1>2 DEF NotAgain, DetailInv
<1>8. ASSUME NEW i \in DOMAIN calls' PROVE RetryOfFailure(calls[i])'
  <2> SUFFICES ASSUME IsRetry(calls'[i])
               PROVE  RetryOfFailure(calls[i])'
    BY DEF RetryOfFailure
  <2>1. RetryOfFailure(calls[i]) /\ OneWay(i)
    BY DEF DetailInv
  <2> QED
    BY <1>1, <1>2, <1>3, <2>1 DEF RetryOfFailure, OneWay, NotBehind, Failures
<1>9. ASSUME NEW x \in page'.retried PROVE RetriedPast(x)'
  <2>1. x \in Failures /\ x \in page.retried /\ RetriedPast(x)
    BY <1>0 DEF DetailInv, DetailTypes
  <2>2. Waited(x) => Waited(x)'
    <3> SUFFICES ASSUME NEW i \in DOMAIN calls, IsRetry(calls[i]), calls[i].here,
                        calls[i].at = "await", calls[i].arg = x
                 PROVE  Waited(x)'
      BY DEF Waited
    <3> QED
      BY DEF OneWay, Waited, IsRetry
  <2>3. Past(Row(x.delivery)', x.failure)
    BY <1>3, <2>1 DEF RetriedPast
  <2>4. cache'.fetch.at = "back" => Past(cache'.fetch.rows[x.delivery], x.failure)
    BY <2>1 DEF RetriedPast, Row
  <2> QED
    BY <2>1, <2>2, <2>3, <2>4 DEF RetriedPast
<1> QED
  BY <1>4, <1>5, <1>6, <1>7, <1>8, <1>9 DEF DetailInv

\* If no retry is pending, this page waits for none.
LEMMA NoRetryPending ==
  ASSUME CallsOK, OldRetriesDone, ~Detail!Pending("retry"),
         NEW i \in DOMAIN calls, IsRetry(calls[i]), calls[i].here
  PROVE  calls[i].at = "done"
<1> SUFFICES ASSUME calls[i].at # "done"
             PROVE  FALSE
  OBVIOUS
<1>1. i \in Detail!InFlight
  BY DEF Detail!InFlight
<1>2. \A j \in DOMAIN calls : j > i => ~(IsRetry(calls[j]) /\ calls[j].here)
  <2> SUFFICES ASSUME NEW j \in DOMAIN calls, j > i, IsRetry(calls[j]), calls[j].here
               PROVE  FALSE
    OBVIOUS
  <2>1. i < j
    BY CallsDomain
  <2> QED
    BY <2>1 DEF OldRetriesDone
<1> QED
  BY <1>1, <1>2 DEF Detail!Pending, IsRetry

\* A new request, of a failure in the rows shown if it is a retry.
LEMMA DetailSent ==
  ASSUME DetailInv, NEW op, NEW arg, Detail!Send(op, arg),
         page' \in [retried : {page.retried}, gestures : Nat], UNCHANGED <<server, cache>>,
         op = "retry" =>
           /\ ~Detail!Pending("retry")
           /\ arg \in Failures
           /\ cache.rows # Null
           /\ cache.rows[arg.delivery].failure = arg.failure
           /\ cache.rows[arg.delivery].status = "dead_letter"
  PROVE  DetailInv'
<1>0. DetailTypes /\ OldRetriesDone /\ RowsSeen /\ NotAgain
  BY DEF DetailInv
<1> DEFINE n == Len(calls) + 1
<1>1. calls' = Append(calls, [op |-> op, arg |-> arg, at |-> "sent",
                              here |-> TRUE, out |-> Null])
  BY DEF Detail!Send, Detail!Request
<1>2. /\ CallsOK'
      /\ DOMAIN calls' = DOMAIN calls \cup {n}
      /\ \A i \in DOMAIN calls : i < n /\ calls'[i] = calls[i]
      /\ calls'[n].op = op /\ calls'[n].arg = arg /\ calls'[n].at = "sent"
  BY <1>0, <1>1, SentCall DEF DetailTypes, Fields
<1>3. Len(calls) \in Nat /\ DOMAIN calls = 1..Len(calls)
  BY <1>0, CallsDomain DEF DetailTypes
<1>4. DetailTypes'
  BY <1>0, <1>2 DEF DetailTypes, IsRetry
<1>5. op = "retry" =>
        \A i \in DOMAIN calls : IsRetry(calls[i]) /\ calls[i].here => calls[i].at = "done"
  BY <1>0, NoRetryPending DEF DetailTypes
<1> HIDE DEF n
<1>6. OldRetriesDone'
  <2> SUFFICES ASSUME NEW i \in DOMAIN calls', NEW j \in DOMAIN calls', i < j,
                      IsRetry(calls'[i]), calls'[i].here,
                      IsRetry(calls'[j]), calls'[j].here
               PROVE  calls'[i].at = "done"
    BY DEF OldRetriesDone, IsRetry
  <2>1. i \in DOMAIN calls
    BY <1>2, <1>3 DEF n
  <2>2. CASE j \in DOMAIN calls
    BY <1>0, <1>2, <2>1, <2>2 DEF OldRetriesDone
  <2>3. CASE j = n
    BY <1>2, <1>5, <2>1, <2>3 DEF IsRetry
  <2> QED
    BY <1>2, <2>2, <2>3
<1>7. RowsSeen'
  BY <1>0 DEF RowsSeen, Row
<1>8. ASSUME NEW x \in page.retried, op = "retry" PROVE arg # x
  <2>1. RetriedPast(x) /\ ~Waited(x)
    BY <1>5, <1>8 DEF DetailInv, Waited
  <2>2. Past(cache.rows[x.delivery], x.failure) /\ x \in Failures
    BY <1>0, <2>1 DEF RetriedPast, DetailTypes
  <2>3. cache.rows \in DetailRows
    BY <1>0, <1>8 DEF DetailTypes
  <2>4. cache.rows[x.delivery].failure \in Nat
    BY <2>2, <2>3 DEF DetailRows, Failures
  <2> QED
    BY <1>8, <2>2, <2>4 DEF Past
<1>9. NotAgain'
  BY <1>0, <1>2, <1>8 DEF NotAgain, IsRetry
<1>10. ASSUME NEW i \in DOMAIN calls' PROVE RetryOfFailure(calls[i])'
  <2>1. CASE i \in DOMAIN calls
    BY <1>2, <2>1 DEF DetailInv, RetryOfFailure, Row, IsRetry
  <2>2. CASE i = n
    BY <1>0, <1>2, <2>2 DEF RetryOfFailure, Row, IsRetry, RowsSeen, Failures
  <2> QED
    BY <1>2, <2>1, <2>2
<1>11. ASSUME NEW x \in page'.retried PROVE RetriedPast(x)'
  <2>1. RetriedPast(x)
    BY DEF DetailInv
  <2>2. Waited(x) => Waited(x)'
    BY <1>2 DEF Waited, IsRetry
  <2> QED
    BY <2>1, <2>2 DEF RetriedPast, Row
<1> QED
  BY <1>4, <1>6, <1>7, <1>9, <1>10, <1>11 DEF DetailInv

\* A retry succeeded: the failure is past, and the page waits for the rows.
LEMMA DetailRetried ==
  ASSUME DetailInv, NEW i \in Detail!InFlight, Detail!retryAnswered(i)
  PROVE  DetailInv'
<1>0. DetailTypes /\ OldRetriesDone /\ RowsSeen /\ NotAgain
  BY DEF DetailInv
<1>1. /\ i \in DOMAIN calls /\ IsRetry(calls[i]) /\ calls[i].at = "ok"
      /\ calls[i].arg \in Failures /\ RetryOfFailure(calls[i])
  BY <1>0 DEF Detail!retryAnswered, Detail!InFlight, IsRetry, DetailTypes, DetailInv
<1> DEFINE r == [calls[i] EXCEPT !.at = "await"]
<1>2. /\ Shape(r) /\ r.op = calls[i].op /\ r.here = calls[i].here
      /\ r.arg = calls[i].arg /\ r.at = "await"
  BY <1>0, <1>1 DEF DetailTypes, CallsOK, Shape
<1>3. calls' = [calls EXCEPT ![i] = r]
  BY DEF Detail!retryAnswered, Detail!AfterRetry
<1> HIDE DEF r
<1>4. /\ CallsOK' /\ DOMAIN calls' = DOMAIN calls
      /\ \A j \in DOMAIN calls \ {i} : calls'[j] = calls[j]
      /\ calls'[i] = r
  BY <1>0, <1>1, <1>2, <1>3, ReplacedCall DEF DetailTypes
<1>5. /\ cache'.rows = cache.rows /\ cache'.fetch.at = "sent" /\ UNCHANGED server
      /\ cache' \in [rows : DetailRows \cup {Null},
                    fetch : [at : {"idle", "sent", "back"}, rows : DetailRows \cup {Null}]]
  BY <1>0 DEF Detail!retryAnswered, Detail!Sent, DetailTypes
<1>6. /\ page' \in [retried : SUBSET Failures, gestures : Nat]
      /\ page'.retried = IF calls[i].here THEN page.retried \cup {calls[i].arg}
                         ELSE page.retried
  BY <1>0, <1>1 DEF Detail!retryAnswered, DetailTypes
<1>7. DetailTypes'
  BY <1>0, <1>1, <1>2, <1>4, <1>5, <1>6 DEF DetailTypes, IsRetry
<1>8. OldRetriesDone'
  BY <1>0, <1>1, <1>2, <1>4 DEF OldRetriesDone, IsRetry
<1>9. RowsSeen'
  BY <1>0, <1>5 DEF RowsSeen, Row
<1>10. NotAgain'
  <2> SUFFICES ASSUME NEW j \in DOMAIN calls', IsRetry(calls'[j]), calls'[j].here,
                      calls'[j].at = "sent"
               PROVE  calls'[j].arg \notin page'.retried
    BY DEF NotAgain, IsRetry
  <2>1. j # i /\ calls'[j] = calls[j] /\ j \in DOMAIN calls
    BY <1>2, <1>4
  <2>2. ~calls[i].here
    <3>1. i < j \/ j < i
      BY <1>0, <1>1, <2>1, CallsDomain DEF DetailTypes
    <3> QED
      BY <1>0, <1>1, <2>1, <3>1 DEF OldRetriesDone
  <2> QED
    BY <1>0, <1>6, <2>1, <2>2 DEF NotAgain
<1>11. ASSUME NEW j \in DOMAIN calls' PROVE RetryOfFailure(calls[j])'
  <2>1. CASE j = i
    BY <1>1, <1>2, <1>4, <1>5, <2>1 DEF RetryOfFailure, Row, IsRetry
  <2>2. CASE j # i
    BY <1>4, <1>5, <2>2 DEF RetryOfFailure, Row, IsRetry, DetailInv
  <2> QED
    BY <2>1, <2>2
<1>12. ASSUME NEW x \in page'.retried PROVE RetriedPast(x)'
  <2>1. CASE x \in page.retried
    <3>1. RetriedPast(x)
      BY <2>1 DEF DetailInv
    <3>2. Waited(x) => Waited(x)'
      <4> SUFFICES ASSUME NEW j \in DOMAIN calls, IsRetry(calls[j]), calls[j].here,
                          calls[j].at = "await", calls[j].arg = x
                   PROVE  Waited(x)'
        BY DEF Waited
      <4>1. j # i
        BY <1>1
      <4> QED
        BY <1>4, <4>1 DEF Waited, IsRetry
    <3> QED
      BY <1>5, <3>1, <3>2 DEF RetriedPast, Row
  <2>2. CASE x \notin page.retried
    <3>1. calls[i].here /\ x = calls[i].arg
      BY <1>6, <1>12, <2>2
    <3>2. Waited(x)'
      BY <1>1, <1>2, <1>4, <3>1 DEF Waited, IsRetry
    <3> QED
      BY <1>1, <1>5, <3>1, <3>2 DEF RetriedPast, RetryOfFailure, Row
  <2> QED
    BY <2>1, <2>2
<1> QED
  BY <1>7, <1>8, <1>9, <1>10, <1>11, <1>12 DEF DetailInv

\* The rows are back, or the fetch has failed.
LEMMA DetailFetched ==
  ASSUME DetailInv, NEW rows, Detail!FetchOver(rows),
         rows = Null \/ (cache.fetch.at = "back" /\ rows = cache.fetch.rows)
  PROVE  DetailInv'
<1>0. DetailTypes /\ OldRetriesDone /\ RowsSeen /\ NotAgain
  BY DEF DetailInv
<1> DEFINE Over(i) == i \in Detail!Awaiting
<1>1. \A i \in DOMAIN calls : Over(i) <=> calls[i].at = "await"
  BY DEF Detail!Awaiting, Detail!InFlight
<1>2. calls' = [i \in DOMAIN calls |->
                  IF Over(i) THEN [calls[i] EXCEPT !.at = "done", !.arg = Null]
                  ELSE calls[i]]
  BY DEF Detail!FetchOver
<1>3. ASSUME NEW i \in DOMAIN calls
      PROVE  /\ Shape(calls'[i])
             /\ calls'[i].op = calls[i].op /\ calls'[i].here = calls[i].here
             /\ IF calls[i].at = "await" THEN calls'[i].at = "done"
                ELSE calls'[i] = calls[i]
  <2>1. Shape(calls[i])
    BY <1>0 DEF DetailTypes, CallsOK
  <2>2. Shape([calls[i] EXCEPT !.at = "done", !.arg = Null])
    BY <2>1 DEF Shape
  <2> QED
    BY <1>1, <1>2, <2>1, <2>2 DEF Shape
<1>4. DOMAIN calls' = DOMAIN calls
  BY <1>2
<1>5. CallsOK'
  <2>1. Len(calls) \in Nat /\ DOMAIN calls = 1..Len(calls)
    BY <1>0, CallsDomain DEF DetailTypes
  <2>2. calls' \in [1..Len(calls) -> {calls'[i] : i \in DOMAIN calls}]
    BY <1>2, <2>1
  <2>3. calls' \in Seq({calls'[i] : i \in DOMAIN calls})
    BY <2>1, <2>2, SeqDef
  <2> QED
    BY <1>3, <1>4, <2>3 DEF CallsOK, Shape
<1>6. /\ cache'.rows = IF rows = Null THEN cache.rows ELSE rows
      /\ cache'.fetch.at = "idle" /\ UNCHANGED server
      /\ cache' \in [rows : DetailRows \cup {Null},
                    fetch : [at : {"idle", "sent", "back"}, rows : DetailRows \cup {Null}]]
  BY <1>0 DEF Detail!FetchOver, Detail!Idle, DetailTypes
<1>7. /\ page' \in [retried : SUBSET Failures, gestures : Nat]
      /\ page'.retried = IF rows # Null THEN page.retried
                         ELSE page.retried \ {calls[i].arg : i \in Detail!Awaiting}
  BY <1>0 DEF Detail!FetchOver, DetailTypes
<1>8. DetailTypes'
  BY <1>0, <1>3, <1>4, <1>5, <1>6, <1>7 DEF DetailTypes, IsRetry
<1>9. OldRetriesDone'
  BY <1>0, <1>3, <1>4 DEF OldRetriesDone, IsRetry
<1>10. RowsSeen'
  BY <1>0, <1>6 DEF RowsSeen, Row
<1>11. NotAgain'
  BY <1>0, <1>3, <1>4, <1>7 DEF NotAgain, IsRetry
<1>12. ASSUME NEW i \in DOMAIN calls' PROVE RetryOfFailure(calls[i])'
  BY <1>3, <1>4, <1>6 DEF RetryOfFailure, Row, IsRetry, DetailInv
<1>13. ASSUME NEW x \in page'.retried PROVE RetriedPast(x)'
  <2>1. x \in page.retried /\ RetriedPast(x)
    BY <1>7 DEF DetailInv
  <2>2. CASE rows # Null
    BY <1>6, <2>1, <2>2 DEF RetriedPast, Row
  <2>3. CASE rows = Null
    <3>1. ~Waited(x)
      BY <1>1, <1>7, <2>3 DEF Waited, Detail!Awaiting
    <3> QED
      BY <1>6, <2>1, <2>3, <3>1 DEF RetriedPast, Row
  <2> QED
    BY <2>2, <2>3
<1> QED
  BY <1>8, <1>9, <1>10, <1>11, <1>12, <1>13 DEF DetailInv

\* A page that is left forgets what it retried.
LEMMA DetailLeft ==
  ASSUME DetailInv, Detail!leave
  PROVE  DetailInv'
<1>0. DetailTypes /\ OldRetriesDone /\ RowsSeen /\ NotAgain
  BY DEF DetailInv
<1>1. calls' = [i \in DOMAIN calls |-> [calls[i] EXCEPT !.here = FALSE]]
  BY DEF Detail!leave, Detail!Abandon
<1>2. /\ CallsOK'
      /\ DOMAIN calls' = DOMAIN calls
      /\ \A i \in DOMAIN calls :
           Fields(calls'[i], calls[i].op, calls[i].arg, calls[i].at, FALSE, calls[i].out)
  BY <1>0, <1>1, AbandonedCalls DEF DetailTypes
<1>3. /\ page' \in [retried : SUBSET Failures, gestures : Nat] /\ page'.retried = {}
      /\ UNCHANGED <<server, cache>>
  BY <1>0 DEF Detail!leave, Detail!Gesture, Detail!Blank, DetailTypes
<1>4. DetailTypes'
  BY <1>0, <1>2, <1>3 DEF DetailTypes, IsRetry, Fields
<1>5. OldRetriesDone' /\ NotAgain'
  BY <1>2 DEF OldRetriesDone, NotAgain, Fields
<1>6. RowsSeen'
  BY <1>0, <1>3 DEF RowsSeen, Row
<1>7. \A i \in DOMAIN calls' : RetryOfFailure(calls[i])'
  BY <1>2, <1>3 DEF DetailInv, RetryOfFailure, Row, IsRetry, Fields
<1> QED
  BY <1>3, <1>4, <1>5, <1>6, <1>7 DEF DetailInv

\* One row of the server moves on.
LEMMA RowMoved ==
  ASSUME DetailTypes, NEW d \in Deliveries,
         NEW r \in [status : {"queued", "success", "dead_letter"}, failure : Nat],
         NotBehind(r, Row(d)),
         server' \in [row : {[server.row EXCEPT ![d] = r]}, elsewhere : Nat]
  PROVE  /\ server' \in [row : DetailRows, elsewhere : Nat]
         /\ \A e \in Deliveries : NotBehind(Row(e)', Row(e))
         /\ Row(d)' = r
BY DEF DetailTypes, DetailRows, Row, NotBehind

LEMMA SameRow == \A d : NotBehind(Row(d), Row(d))
BY DEF NotBehind

\* The worker or somebody else changes a delivery.
LEMMA DetailElsewhere ==
  ASSUME DetailInv, NEW d \in Deliveries, Detail!Elsewhere(d)
  PROVE  DetailInv'
<1>0. DetailTypes
  BY DEF DetailInv
<1>1. Row(d) \in [status : {"queued", "success", "dead_letter"}, failure : Nat]
  BY <1>0 DEF DetailTypes, DetailRows, Row
<1>2. \E r \in [status : {"queued", "success", "dead_letter"}, failure : Nat] :
        /\ NotBehind(r, Row(d))
        /\ server' \in [row : {[server.row EXCEPT ![d] = r]}, elsewhere : Nat]
  <2>1. CASE server' = [server EXCEPT !.row[d].status = "success"]
    <3> DEFINE r == [Row(d) EXCEPT !.status = "success"]
    <3>1. /\ r \in [status : {"queued", "success", "dead_letter"}, failure : Nat]
          /\ NotBehind(r, Row(d))
      BY <1>1 DEF NotBehind
    <3>2. server' \in [row : {[server.row EXCEPT ![d] = r]}, elsewhere : Nat]
      BY <1>0, <2>1 DEF DetailTypes, Row
    <3> QED
      BY <3>1, <3>2
  <2>2. CASE server' = [server EXCEPT !.row[d] =
                          [status |-> "dead_letter", failure |-> @.failure + 1]]
    <3> DEFINE r == [status |-> "dead_letter", failure |-> Row(d).failure + 1]
    <3>1. /\ r \in [status : {"queued", "success", "dead_letter"}, failure : Nat]
          /\ NotBehind(r, Row(d))
      BY <1>1 DEF NotBehind
    <3>2. server' \in [row : {[server.row EXCEPT ![d] = r]}, elsewhere : Nat]
      BY <1>0, <2>2 DEF DetailTypes, Row
    <3> QED
      BY <3>1, <3>2
  <2>3. CASE server' = [server EXCEPT !.row[d].status = "queued", !.elsewhere = @ + 1]
    <3> DEFINE r == [Row(d) EXCEPT !.status = "queued"]
    <3>1. /\ r \in [status : {"queued", "success", "dead_letter"}, failure : Nat]
          /\ NotBehind(r, Row(d))
      BY <1>1 DEF NotBehind
    <3>2. /\ server'.row = [server.row EXCEPT ![d] = r]
          /\ server'.elsewhere = server.elsewhere + 1
          /\ server' = [row |-> server'.row, elsewhere |-> server'.elsewhere]
      BY <1>0, <2>3 DEF DetailTypes, Row
    <3>3. server'.elsewhere \in Nat
      BY <1>0, <3>2 DEF DetailTypes
    <3>4. server' \in [row : {[server.row EXCEPT ![d] = r]}, elsewhere : Nat]
      BY <3>2, <3>3
    <3> QED
      BY <3>1, <3>4
  <2> QED
    BY <2>1, <2>2, <2>3 DEF Detail!Elsewhere
<1>3. UNCHANGED <<cache, page, calls>>
  BY DEF Detail!Elsewhere
<1>4. /\ page' \in [retried : {page.retried}, gestures : Nat]
      /\ CallsOK' /\ \A i \in DOMAIN calls : OneWay(i)
  BY <1>0, <1>3 DEF DetailTypes, OneWay, CallsOK
<1>5. /\ server' \in [row : DetailRows, elsewhere : Nat]
      /\ \A e \in Deliveries : NotBehind(Row(e)', Row(e))
  BY <1>0, <1>2, RowMoved
<1> QED
  BY <1>0, <1>3, <1>4, <1>5, DetailQuiet DEF DetailTypes

\* Request i goes on, and nothing else.
LEMMA DetailAnswered ==
  ASSUME DetailInv, NEW i \in Detail!InFlight, UNCHANGED <<cache, page>>,
         CallsOK', DOMAIN calls' = DOMAIN calls,
         \A j \in DOMAIN calls \ {i} : calls'[j] = calls[j], OneWay(i),
         server' \in [row : DetailRows, elsewhere : Nat],
         \A d \in Deliveries : NotBehind(Row(d)', Row(d))
  PROVE  DetailInv'
<1>1. \A j \in DOMAIN calls : OneWay(j)
  BY DEF OneWay
<1>2. DetailTypes
  BY DEF DetailInv
<1> QED
  BY <1>1, <1>2, DetailQuiet DEF DetailTypes

\* The server accepts or refuses a retry.
LEMMA DetailServed ==
  ASSUME DetailInv, NEW i \in Detail!InFlight, Detail!ServeRetry(i)
  PROVE  DetailInv'
<1>0. DetailTypes /\ CallsOK /\ i \in DOMAIN calls
  BY DEF DetailInv, DetailTypes, Detail!InFlight
<1>1. PICK d \in Deliveries, f \in Nat :
        /\ d = calls[i].arg.delivery /\ f = calls[i].arg.failure
        /\ IsRetry(calls[i]) /\ calls[i].at = "sent"
        /\ f <= Row(d).failure /\ UNCHANGED <<cache, page>>
  BY <1>0 DEF DetailInv, DetailTypes, RetryOfFailure, IsRetry, Detail!ServeRetry, Failures
<1>2. Row(d) \in [status : {"queued", "success", "dead_letter"}, failure : Nat]
  BY <1>0, <1>1 DEF DetailTypes, DetailRows, Row
<1>3. CASE Row(d).status = "dead_letter"
  <2> DEFINE r == [Row(d) EXCEPT !.status = "queued"]
  <2>1. /\ r \in [status : {"queued", "success", "dead_letter"}, failure : Nat]
        /\ NotBehind(r, Row(d)) /\ Past(r, f)
    BY <1>1, <1>2 DEF NotBehind, Past
  <2>2. /\ calls' = [calls EXCEPT ![i].at = "ok", ![i].out = Null]
        /\ server' = [server EXCEPT !.row[d].status = "queued"]
    BY <1>1, <1>3 DEF Detail!ServeRetry, Detail!Requeued, Detail!Answer, Row
  <2>3. server' \in [row : {[server.row EXCEPT ![d] = r]}, elsewhere : Nat]
    BY <1>0, <2>2 DEF DetailTypes, Row
  <2>4. /\ CallsOK' /\ DOMAIN calls' = DOMAIN calls
        /\ \A j \in DOMAIN calls \ {i} : calls'[j] = calls[j]
        /\ Fields(calls'[i], calls[i].op, calls[i].arg, "ok", calls[i].here, Null)
    BY <1>0, <2>2, AnsweredCall
  <2> HIDE DEF r
  <2>5. /\ server' \in [row : DetailRows, elsewhere : Nat] /\ Row(d)' = r
        /\ \A e \in Deliveries : NotBehind(Row(e)', Row(e))
    BY <1>0, <1>1, <2>1, <2>3, RowMoved
  <2>6. OneWay(i)
    BY <1>1, <2>1, <2>4, <2>5 DEF OneWay, Fields
  <2> QED
    BY <1>1, <2>4, <2>5, <2>6, DetailAnswered
<1>4. CASE Row(d).status # "dead_letter"
  <2>1. /\ calls' = [calls EXCEPT ![i].at = "error", ![i].out = Null] /\ UNCHANGED server
    BY <1>1, <1>4 DEF Detail!ServeRetry, Detail!Answer, Row
  <2>2. /\ CallsOK' /\ DOMAIN calls' = DOMAIN calls
        /\ \A j \in DOMAIN calls \ {i} : calls'[j] = calls[j]
        /\ Fields(calls'[i], calls[i].op, calls[i].arg, "error", calls[i].here, Null)
    BY <1>0, <2>1, AnsweredCall
  <2>3. OneWay(i)
    BY <1>1, <2>2 DEF OneWay, Fields
  <2>4. server' \in [row : DetailRows, elsewhere : Nat]
    BY <1>0, <2>1 DEF DetailTypes
  <2> QED
    BY <1>1, <2>1, <2>2, <2>3, <2>4, SameRow, DetailAnswered DEF Row
<1> QED
  BY <1>3, <1>4

LEMMA DetailStep ==
  ASSUME DetailInv, [Detail!Next]_(Detail!vars)
  PROVE  DetailInv'
<1>0. DetailTypes /\ CallsOK
  BY DEF DetailInv, DetailTypes
<1>a. ASSUME NEW i \in Detail!InFlight, NEW at \in {"ok", "error"},
             Detail!Answer(i, at, Null), UNCHANGED <<server, cache, page>>,
             calls[i].at \in {"sent", "ok"},
             at = "ok" => calls[i].at = "sent" /\ calls[i].op = "replay"
      PROVE  DetailInv'
  <2>1. /\ i \in DOMAIN calls
        /\ calls' = [calls EXCEPT ![i].at = at, ![i].out = Null]
    BY <1>a DEF Detail!Answer, Detail!InFlight
  <2>2. /\ CallsOK' /\ DOMAIN calls' = DOMAIN calls
        /\ \A j \in DOMAIN calls \ {i} : calls'[j] = calls[j]
        /\ Fields(calls'[i], calls[i].op, calls[i].arg, at, calls[i].here, Null)
    BY <1>0, <2>1, AnsweredCall
  <2>3. OneWay(i)
    BY <1>a, <2>2 DEF OneWay, Fields, IsRetry
  <2> QED
    BY <1>0, <1>a, <2>2, <2>3, SameRow, DetailAnswered DEF DetailTypes, Row
<1>b. ASSUME UNCHANGED <<server, calls>>, cache'.rows = cache.rows,
             page' \in [retried : {page.retried}, gestures : Nat],
             cache' \in [rows : DetailRows \cup {Null},
                        fetch : [at : {"idle", "sent", "back"},
                                 rows : DetailRows \cup {Null}]],
             \/ cache'.fetch = cache.fetch \/ cache'.fetch.at # "back"
             \/ cache'.fetch.rows = server.row
      PROVE  DetailInv'
  <2>1. CallsOK' /\ \A i \in DOMAIN calls : OneWay(i)
    BY <1>0, <1>b DEF CallsOK, OneWay
  <2> QED
    BY <1>0, <1>b, <2>1, SameRow, DetailQuiet DEF DetailTypes, Row
<1>1. CASE UNCHANGED Detail!vars
  BY <1>0, <1>1, <1>b DEF Detail!vars, DetailTypes
<1>2. ASSUME NEW d \in Deliveries, Detail!Elsewhere(d) PROVE DetailInv'
  BY <1>2, DetailElsewhere
<1>3. ASSUME NEW d \in Deliveries, Detail!retry(d) PROVE DetailInv'
  <2> DEFINE arg == [delivery |-> d, failure |-> cache.rows[d].failure]
  <2>1. /\ cache.rows # Null /\ cache.rows \in DetailRows
        /\ cache.rows[d].status = "dead_letter"
    BY <1>0, <1>3 DEF Detail!retry, Detail!Shown, DetailTypes
  <2>2. arg \in Failures /\ arg.delivery = d /\ arg.failure = cache.rows[d].failure
    BY <2>1 DEF Failures, DetailRows
  <2>3. page' \in [retried : {page.retried}, gestures : Nat]
    BY <1>0, <1>3 DEF Detail!retry, Detail!Gesture, DetailTypes
  <2>4. /\ Detail!Send("retry", arg) /\ ~Detail!Pending("retry")
        /\ UNCHANGED <<server, cache>>
    BY <1>3 DEF Detail!retry
  <2> HIDE DEF arg
  <2> QED
    BY <2>1, <2>2, <2>3, <2>4, DetailSent
<1>4. CASE Detail!replay
  <2>1. page' \in [retried : {page.retried}, gestures : Nat]
    BY <1>0, <1>4 DEF Detail!replay, Detail!Gesture, DetailTypes
  <2> QED
    BY <1>4, <2>1, DetailSent DEF Detail!replay
<1>5. CASE Detail!leave
  BY <1>5, DetailLeft
<1>6. CASE Detail!Refetch
  <2>1. /\ cache'.rows = cache.rows /\ cache'.fetch.at = "sent"
        /\ cache' \in [rows : DetailRows \cup {Null},
                      fetch : [at : {"idle", "sent", "back"},
                               rows : DetailRows \cup {Null}]]
        /\ page' \in [retried : {page.retried}, gestures : Nat]
        /\ UNCHANGED <<server, calls>>
    BY <1>0, <1>6 DEF Detail!Refetch, Detail!Gesture, Detail!Sent, DetailTypes
  <2> QED
    BY <1>b, <2>1
<1>7. CASE Detail!ServeFetch
  <2>1. /\ cache'.rows = cache.rows /\ cache'.fetch.rows = server.row
        /\ cache' \in [rows : DetailRows \cup {Null},
                      fetch : [at : {"idle", "sent", "back"},
                               rows : DetailRows \cup {Null}]]
        /\ page' \in [retried : {page.retried}, gestures : Nat]
        /\ UNCHANGED <<server, calls>>
    BY <1>0, <1>7 DEF Detail!ServeFetch, DetailTypes
  <2> QED
    BY <1>b, <2>1
<1>8. CASE Detail!FetchLands \/ Detail!FetchFails
  BY <1>8, DetailFetched DEF Detail!FetchLands, Detail!FetchFails
<1>9. ASSUME NEW i \in Detail!InFlight, Detail!ServeRetry(i) PROVE DetailInv'
  BY <1>9, DetailServed
<1>10. ASSUME NEW i \in Detail!InFlight, Detail!ServeReplay(i) PROVE DetailInv'
  BY <1>10, <1>a DEF Detail!ServeReplay
<1>11. ASSUME NEW i \in Detail!InFlight, Detail!lose(i) PROVE DetailInv'
  BY <1>11, <1>a DEF Detail!lose, Detail!Lose
<1>12. ASSUME NEW i \in Detail!InFlight, Detail!retryAnswered(i) PROVE DetailInv'
  BY <1>12, DetailRetried
<1>13. ASSUME NEW i \in Detail!InFlight, Detail!settle(i) PROVE DetailInv'
  <2>1. /\ i \in DOMAIN calls /\ calls[i].at \in {"ok", "error"}
        /\ calls' = [calls EXCEPT ![i].at = "done", ![i].arg = Null, ![i].out = Null]
        /\ UNCHANGED <<server, cache, page>>
    BY <1>13 DEF Detail!settle, Detail!Settled, Detail!InFlight
  <2>2. /\ CallsOK' /\ DOMAIN calls' = DOMAIN calls
        /\ \A j \in DOMAIN calls \ {i} : calls'[j] = calls[j]
        /\ Fields(calls'[i], calls[i].op, Null, "done", calls[i].here, Null)
    BY <1>0, <2>1, SettledCall
  <2>3. OneWay(i)
    BY <2>1, <2>2 DEF OneWay, Fields
  <2> QED
    BY <1>0, <2>1, <2>2, <2>3, SameRow, DetailAnswered DEF DetailTypes, Row
<1> QED
  BY <1>1, <1>2, <1>3, <1>4, <1>5, <1>6, <1>7, <1>8, <1>9, <1>10, <1>11, <1>12, <1>13
     DEF Detail!Next

\* The page never asks for a second retry of a failure it has retried with
\* success, for any number of deliveries, failures, retries by others, lost
\* answers and refetches, unless the refetch it waited for failed.
THEOREM OneRetryPerFailure == Spec => []RetryOncePerFailure
<1> DEFINE I == area = "message" => DetailInv
<1>1. Init => I
  BY DetailInit DEF Init
<1>2. I /\ [Next]_vars => I'
  BY OneArea, StepOfReader, DetailStep
<1>3. I => RetryOncePerFailure
  BY DEF DetailInv, NotAgain, IsRetry, RetryOncePerFailure, Detail!RetryOncePerFailure,
         Detail!InFlight
<1> HIDE DEF I
<1> QED
  BY <1>1, <1>2, <1>3, PTL DEF Spec

-----------------------------------------------------------------------------
(* The limits per minute: what LimitProofs proves, in the area of the counters. *)

\* The counters are those of RateLimit, with the bounds of the console's runs.
Counters == INSTANCE LimitProofs WITH redis <- server, clock <- cache, callers <- page,
                takes <- calls, Limits <- {1, 2}, Minute <- 3, NumCallers <- 3,
                MaxClock <- 7, MaxTakes <- 4

LimitsInv == area = "limits" => Counters!IInv

\* The bounds are limits.
LEMMA LimitBounds == Counters!LimitAssumption
BY DEF Counters!LimitAssumption

\* The invariant of the counters holds at the start ...
LEMMA LimitsStart == Init => LimitsInv
<1> SUFFICES ASSUME Init, area = "limits" PROVE Counters!IInv
  BY DEF LimitsInv
<1>1. Limit!Init
  BY DEF Init
<1>2. Counters!Init
  BY <1>1 DEF Limit!Init, Counters!Init, Limit!Kinds, Counters!Kinds, Limit!Names,
     Counters!Names, Limit!Idle, Counters!Idle
<1> QED
  BY <1>2, LimitBounds, Counters!LimitStart

\* ... the steps of the area are those of the counters ...
LEMMA SameActions == [Limit!Next]_(Limit!vars) => [Counters!Next]_(Counters!vars)
<1>1. UNCHANGED Limit!vars => UNCHANGED Counters!vars
  BY DEF Limit!vars, Counters!vars
<1>2. Limit!Tick => Counters!Tick
  BY DEF Limit!Tick, Counters!Tick
<1>3. \A x : Limit!LimitsOf(x) = Counters!LimitsOf(x)
  BY DEF Limit!LimitsOf, Counters!LimitsOf, Limit!Min, Counters!Min
<1>4. Limit!Window = Counters!Window
  BY DEF Limit!Window, Counters!Window
<1>5. \A n : Limit!current(n) = Counters!current(n)
  BY DEF Limit!current, Counters!current
<1>6. \A n, l : Limit!allowed(n, l) = Counters!allowed(n, l)
  BY <1>5 DEF Limit!allowed, Counters!allowed
<1>7. \A n : Limit!Expiry(n) = Counters!Expiry(n)
  BY <1>5 DEF Limit!Expiry, Counters!Expiry, Limit!ttl_seconds, Counters!ttl_seconds
<1>8. Limit!Idle = Counters!Idle
  BY DEF Limit!Idle, Counters!Idle
<1>9. \A c, g, e : Limit!Taken(c, g, e) => Counters!Taken(c, g, e)
  BY <1>4 DEF Limit!Taken, Counters!Taken
<1>10. \A n : Limit!TTL(n) = Counters!TTL(n)
  BY DEF Limit!TTL, Counters!TTL
<1>11. \A x : Limit!deferBy(x) = Counters!deferBy(x)
  BY DEF Limit!deferBy, Counters!deferBy, Limit!Max, Counters!Max
<1>12. ASSUME NEW c, Limit!Name(c) PROVE Counters!Name(c)
  BY <1>3, <1>4, <1>12 DEF Limit!Name, Counters!Name
<1>13. ASSUME NEW c, Limit!Grant(c) PROVE Counters!Grant(c)
  BY <1>5, <1>6, <1>7, <1>8, <1>9, <1>13 DEF Limit!Grant, Counters!Grant
<1>14. ASSUME NEW c, Limit!Refuse(c) PROVE Counters!Refuse(c)
  BY <1>6, <1>8, <1>9, <1>10, <1>11, <1>14 DEF Limit!Refuse, Counters!Refuse
<1> QED
  BY <1>1, <1>2, <1>12, <1>13, <1>14 DEF Limit!Next, Counters!Next

\* ... and keep it.
LEMMA LimitsStep == LimitsInv /\ [Next]_vars => LimitsInv'
<1> SUFFICES ASSUME LimitsInv, [Next]_vars, area' = "limits" PROVE Counters!IInv'
  BY DEF LimitsInv
<1>1. area = "limits" /\ [Limit!Next]_(Limit!vars)
  BY OneArea DEF Next, vars, Limit!vars, InKeys, InChannels, InGroups, InUsers, InMessage,
     InLists, InOverview, InSession, InLimits
<1> QED
  BY <1>1, SameActions, LimitBounds, Counters!LimitStep DEF LimitsInv

\* What the invariant says of the three properties.
LEMMA LimitsFollow == LimitsInv => LimitHonoured /\ RefusedForReason /\ DeferralOutlasts
<1>1. Counters!IInv =>
        Limit!LimitHonoured /\ Limit!RefusedForReason /\ Limit!DeferralOutlasts
  BY DEF Counters!IInv, Limit!LimitHonoured, Limit!RefusedForReason, Limit!DeferralOutlasts,
         Counters!LimitHonoured, Counters!RefusedForReason, Counters!DeferralOutlasts,
         Limit!Granted, Counters!Granted, Limit!Cardinality, Counters!Cardinality
<1> QED
  BY <1>1 DEF LimitsInv, LimitHonoured, RefusedForReason, DeferralOutlasts

\* Side by side with the pages, too, no more slots are granted in a minute than
\* the limit (rate_limit.py).
THEOREM SlotsWithinLimit == Spec => []LimitHonoured
BY LimitsStart, LimitsStep, LimitsFollow, PTL DEF Spec

\* ... nobody is refused before the limit is used up ...
THEOREM RefusedWhenUsedUp == Spec => []RefusedForReason
BY LimitsStart, LimitsStep, LimitsFollow, PTL DEF Spec

\* ... and a deferred delivery outlasts the counter that deferred it (messages.py:
\* maybe_delay_for_channel_limit).
THEOREM DeferredLongEnough == Spec => []DeferralOutlasts
BY LimitsStart, LimitsStep, LimitsFollow, PTL DEF Spec


=============================================================================
