-------------------------- MODULE AdminPagesProofs --------------------------
(***************************************************************************)
(* The dead-letter pages, for any number of channels, users and rows and   *)
(* any page size: every death is settled once, the page of a delivery      *)
(* shows exactly the dead, and a browse misses and repeats nothing.        *)
(***************************************************************************)
EXTENDS AdminPages, FiniteSetTheorems, WellFoundedInduction, TLAPS

Row == [channel : Channels, status : {"live", "dead"}]

Texts == {"none", "not found", "error", "page", "found", "requeued", "deleted", "already-gone"}

Request == [op : {"none", "list", "show", "requeue", "delete"},
            pc : {"done", "resolve", "act", "older"},
            channel : Channels \cup {0}, id : IDs \cup {0}, before : IDs \cup {0},
            answer : Texts]

(* The types of the tables and of the requests. *)
Typed ==
  /\ nextID \in 1..(MaxInt64 + 1)
  /\ DOMAIN deliveries \subseteq 1..(nextID - 1)
  /\ deliveries \in [DOMAIN deliveries -> Row]
  /\ request \in [Users -> Request]
  /\ \A u \in Users : request[u].op \in {"show", "requeue", "delete"} => request[u].id \in IDs
  /\ unsettled \in [IDs -> Int]

----------------------------------------------------------------------------
(* ORDER BY id DESC.  That the descending sequence of a finite set exists  *)
(* is an induction on the size of the set: of the sizes without one, take  *)
(* the smallest.                                                           *)

Sorted(rows) == \A i, j \in DOMAIN rows : i < j => rows[i] > rows[j]

(* A set of naturals that is not empty has a least element. *)
LEMMA Least ==
  ASSUME NEW S \in SUBSET Nat, S # {}
  PROVE  \E m \in S : \A k \in S : ~(k < m)
<1>1. \E m \in S : \A k \in S : <<k, m>> \notin OpToRel(<, Nat)
  BY NatLessThanWellFounded, WFMin
<1> QED BY <1>1 DEF OpToRel

(* Every finite set of naturals can be listed in descending order. *)
LEMMA SortedExists ==
  ASSUME NEW S \in SUBSET Nat, IsFiniteSet(S)
  PROVE  \E rows \in [1..Cardinality(S) -> S] : Sorted(rows)
<1> DEFINE Bad(T) == /\ IsFiniteSet(T)
                     /\ ~ \E rows \in [1..Cardinality(T) -> T] : Sorted(rows)
           BadSizes == {n \in Nat : \E T \in SUBSET Nat : Bad(T) /\ Cardinality(T) = n}
<1> SUFFICES ASSUME Bad(S) PROVE FALSE
  OBVIOUS
<1>1. BadSizes \subseteq Nat /\ BadSizes # {}
  BY FS_CardinalityType
<1>2. PICK n \in BadSizes : \A k \in BadSizes : ~(k < n)
  <2> HIDE DEF BadSizes
  <2> QED BY <1>1, Least
<1>3. PICK T \in SUBSET Nat : Bad(T) /\ Cardinality(T) = n
  OBVIOUS
<1>4. CASE T = {}
  <2>1. Cardinality(T) = 0
    BY <1>4, FS_EmptySet
  <2> DEFINE none == [i \in 1..0 |-> 0]
  <2>2. none \in [1..Cardinality(T) -> T] /\ Sorted(none)
    BY <2>1 DEF Sorted
  <2> QED BY <1>3, <2>2
<1>5. CASE T # {}
  <2>1. PICK m \in T : \A k \in T : ~(k < m)
    BY <1>5, Least
  <2> DEFINE U == T \ {m}
  <2>2. IsFiniteSet(U) /\ Cardinality(U) = n - 1 /\ U \in SUBSET Nat
    BY <1>3, <2>1, FS_RemoveElement
  <2>n. n \in Nat /\ n - 1 \in Nat
    <3>1. n \in Nat /\ Cardinality(U) \in Nat
      BY <2>2, FS_CardinalityType
    <3> QED BY <2>2, <3>1
  <2>3. ~Bad(U)
    <3> SUFFICES ASSUME Bad(U) PROVE FALSE
      OBVIOUS
    <3>1. n - 1 \in BadSizes
      BY <2>2, <2>n
    <3>2. n - 1 < n
      BY <2>n
    <3> HIDE DEF BadSizes
    <3> QED BY <1>2, <3>1, <3>2
  <2>4. PICK rows \in [1..(n - 1) -> U] : Sorted(rows)
    BY <2>2, <2>3
  <2> DEFINE more == [i \in 1..n |-> IF i = n THEN m ELSE rows[i]]
  <2>5. more \in [1..n -> T]
    BY <2>n, <2>4
  <2>6. Sorted(more)
    <3> SUFFICES ASSUME NEW i \in 1..n, NEW j \in 1..n, i < j PROVE more[i] > more[j]
      BY DEF Sorted
    <3>1. i \in 1..(n - 1) /\ more[i] = rows[i] /\ rows[i] \in U
      BY <2>n, <2>4
    <3>2. CASE j = n
      <4>1. more[j] = m /\ rows[i] \in Nat /\ m \in Nat /\ rows[i] # m /\ ~(rows[i] < m)
        BY <2>1, <3>1, <3>2
      <4> QED BY <3>1, <4>1
    <3>3. CASE j # n
      <4>1. j \in 1..(n - 1) /\ more[j] = rows[j]
        BY <2>n, <3>3
      <4> QED BY <2>4, <3>1, <4>1 DEF Sorted
    <3> QED BY <3>2, <3>3
  <2> QED BY <1>3, <2>5, <2>6
<1> QED BY <1>4, <1>5

(* What Descending returns: every element of the set, once, the largest    *)
(* first.                                                                  *)
LEMMA DescendingSorts ==
  ASSUME NEW S \in SUBSET Nat, IsFiniteSet(S)
  PROVE  /\ Descending(S) \in [1..Cardinality(S) -> S]
         /\ Sorted(Descending(S))
         /\ \A d \in S : \E i \in 1..Cardinality(S) : Descending(S)[i] = d
         /\ Cardinality(S) \in Nat
<1> DEFINE n == Cardinality(S)
           rows == Descending(S)
<1>1. rows \in [1..n -> S] /\ Sorted(rows)
  BY SortedExists DEF Descending, Sorted
<1>2. n \in Nat
  BY FS_CardinalityType
<1> HIDE DEF n, rows
<1>3. IsFiniteSet(1..n) /\ Cardinality(1..n) = n
  BY <1>2, FS_Interval
<1>4. \A i, j \in 1..n : rows[i] = rows[j] => i = j
  <2> SUFFICES ASSUME NEW i \in 1..n, NEW j \in 1..n, rows[i] = rows[j], i # j PROVE FALSE
    OBVIOUS
  <2>1. rows[i] \in Nat /\ rows[j] \in Nat /\ (i < j \/ j < i)
    <3>1. rows[i] \in S /\ rows[j] \in S
      BY <1>1
    <3>2. i < j \/ j < i
      BY <1>2
    <3> QED BY <3>1, <3>2
  <2>2. DOMAIN rows = 1..n
    BY <1>1
  <2>3. rows[i] > rows[j] \/ rows[j] > rows[i]
    BY <1>1, <2>1, <2>2 DEF Sorted
  <2> QED BY <2>1, <2>3
<1>5. rows \in Injection(1..n, S)
  BY <1>1, <1>4 DEF Injection, IsInjective
<1>6. rows \in Surjection(1..n, S)
  BY <1>3, <1>5, FS_Injection DEF n
<1>7. \A d \in S : \E i \in 1..n : rows[i] = d
  BY <1>6 DEF Surjection
<1> QED BY <1>1, <1>2, <1>7 DEF n, rows

(* The smaller of two numbers. *)
LEMMA MinOfTwo ==
  ASSUME NEW a \in Nat, NEW b \in Nat
  PROVE  Min({a, b}) = IF a <= b THEN a ELSE b
<1> DEFINE m == IF a <= b THEN a ELSE b
<1>1. m \in {a, b} /\ \A y \in {a, b} : m =< y
  OBVIOUS
<1>2. \A x \in {a, b} : (\A y \in {a, b} : x =< y) => x = m
  OBVIOUS
<1> QED BY <1>1, <1>2 DEF Min

(* A page of dead deliveries, in terms of what the query selects. *)
PageOf(rows, S, limit) ==
  /\ rows \in Seq(IDs)
  /\ Len(rows) <= limit
  /\ Sorted(rows)
  /\ \A i \in 1..Len(rows) : rows[i] \in S
  /\ \A d \in S : \/ \E i \in 1..Len(rows) : rows[i] = d
                  \/ Len(rows) = limit /\ rows[limit] > d

(* ListDead returns such a page: what it leaves out is older than what it  *)
(* shows.                                                                  *)
LEMMA ListDeadPage ==
  ASSUME Typed, NEW ch, NEW before \in IDs \cup {0}, NEW limit \in Nat \ {0}
  PROVE  PageOf(ListDead(ch, before, limit), DeadBefore(ch, before), limit)
<1> DEFINE S == DeadBefore(ch, before)
           n == Cardinality(S)
           all == Descending(S)
           k == Min({limit, Len(all)})
           rows == SubSeq(all, 1, k)
<1>0. MaxInt64 \in Nat /\ MaxInt64 > 0
  BY AdminPagesAssumption
<1>1. S \in SUBSET IDs
  BY <1>0 DEF DeadBefore, DeadIn, Typed, IDs
<1>2. IsFiniteSet(S)
  <2>1. IsFiniteSet(IDs)
    BY <1>0, FS_Interval DEF IDs
  <2> QED BY <1>1, <2>1, FS_Subset
<1>3. S \in SUBSET Nat
  BY <1>1 DEF IDs
<1>4. rows = ListDead(ch, before, limit)
  BY DEF ListDead
<1> HIDE DEF S
<1>5. /\ all \in [1..n -> S] /\ Sorted(all) /\ n \in Nat
      /\ \A d \in S : \E i \in 1..n : all[i] = d
  BY <1>2, <1>3, DescendingSorts
<1> HIDE DEF all, n
<1>6. all \in Seq(IDs) /\ Len(all) = n /\ \A i \in 1..n : all[i] \in S /\ all[i] \in IDs
  BY <1>1, <1>5
<1>7. k = IF limit <= n THEN limit ELSE n
  BY <1>5, <1>6, MinOfTwo
<1> HIDE DEF k
<1>8. /\ rows \in Seq(IDs) /\ Len(rows) = k /\ k \in Nat /\ k <= n
      /\ \A i \in 1..k : rows[i] = all[i]
  BY <1>5, <1>6, <1>7
<1> HIDE DEF rows
<1>9. Sorted(rows)
  <2> SUFFICES ASSUME NEW i \in 1..k, NEW j \in 1..k, i < j PROVE rows[i] > rows[j]
    BY <1>8 DEF Sorted
  <2>1. i \in 1..n /\ j \in 1..n /\ rows[i] = all[i] /\ rows[j] = all[j]
    BY <1>5, <1>8
  <2> QED BY <1>5, <2>1 DEF Sorted
<1>10. \A i \in 1..k : rows[i] \in S
  BY <1>5, <1>6, <1>8
<1>11. ASSUME NEW d \in S
       PROVE  \/ \E i \in 1..k : rows[i] = d
              \/ k = limit /\ rows[limit] > d
  <2>1. PICK i \in 1..n : all[i] = d
    BY <1>5
  <2>2. CASE i <= k
    <3>1. i \in 1..k
      BY <1>5, <1>8, <2>2
    <3> QED BY <1>8, <2>1, <3>1
  <2>3. CASE ~(i <= k)
    <3>1. k = limit /\ limit \in 1..n /\ limit \in 1..k /\ limit < i
      BY <1>5, <1>7, <1>8, <2>3
    <3>2. all[limit] > all[i]
      BY <1>5, <3>1 DEF Sorted
    <3> QED BY <1>8, <2>1, <3>1, <3>2
  <2> QED BY <2>2, <2>3
<1>12. Len(rows) <= limit
  BY <1>5, <1>7, <1>8
<1> QED BY <1>4, <1>8, <1>9, <1>10, <1>11, <1>12 DEF PageOf, S

----------------------------------------------------------------------------
(* What a browse has shown, and what it still has to show. *)
BrowseOK(b) ==
  /\ Sorted(listed[b])
  /\ request[b].op = "list" =>
       /\ throughout[b] \subseteq DeadIn(deliveries, request[b].channel)
       /\ request[b].pc # "done" =>
            /\ \A i \in 1..Len(listed[b]) :
                 request[b].before > 0 /\ listed[b][i] >= request[b].before
            /\ \A d \in throughout[b] : \/ \E i \in 1..Len(listed[b]) : listed[b][i] = d
                                        \/ request[b].before = 0
                                        \/ d < request[b].before
       /\ request[b].pc = "done" =>
            \A d \in throughout[b] : \E i \in 1..Len(listed[b]) : listed[b][i] = d

(* The inductive invariant of a browse. *)
BrowseInv ==
  /\ listed \in [Browsers -> Seq(IDs)]
  /\ throughout \in [Browsers -> SUBSET IDs]
  /\ \A b \in Browsers : BrowseOK(b)

----------------------------------------------------------------------------
(* The rows after a step that writes them. *)
GoodRows(rows, next) ==
  /\ next \in 1..(MaxInt64 + 1)
  /\ rows \in [DOMAIN rows -> Row]
  /\ DOMAIN rows \subseteq 1..(next - 1)

(* The dead of a table are ids. *)
LEMMA DeadAreIDs ==
  ASSUME NEW rows, NEW next, GoodRows(rows, next), NEW ch
  PROVE  DeadIn(rows, ch) \subseteq IDs /\ DOMAIN rows \subseteq IDs
BY AdminPagesAssumption DEF GoodRows, DeadIn, IDs

(* A delivery that is dead is dead in some channel. *)
LEMMA DeadSomewhere ==
  ASSUME NEW rows, rows \in [DOMAIN rows -> Row], NEW d
  PROVE  (\E ch \in Channels : d \in DeadIn(rows, ch))
            <=> d \in DOMAIN rows /\ rows[d].status = "dead"
BY DEF DeadIn, Row

DeadRow(rows, d) == d \in DOMAIN rows /\ rows[d].status = "dead"

(* A step keeps the accounts when each delivery's changes with its status. *)
LEMMA Accounts ==
  ASSUME Typed, DeathsAccounted,
         NEW rows, rows \in [DOMAIN rows -> Row], deliveries' = rows,
         unsettled' \in [IDs -> Int],
         \A d \in IDs : unsettled'[d] = unsettled[d]
                          + (IF DeadRow(rows, d) THEN 1 ELSE 0)
                          - (IF DeadRow(deliveries, d) THEN 1 ELSE 0)
  PROVE  DeathsAccounted'
<1> SUFFICES ASSUME NEW d \in IDs
             PROVE  unsettled'[d] = IF DeadRow(rows, d) THEN 1 ELSE 0
  BY DeadSomewhere DEF DeathsAccounted, DeadRow
<1>1. unsettled[d] = IF DeadRow(deliveries, d) THEN 1 ELSE 0
  BY DeadSomewhere DEF DeathsAccounted, Typed, DeadRow
<1> QED BY <1>1

(* A browser whose request, list and rows a step leaves alone, or only     *)
(* takes rows from.                                                        *)
LEMMA BrowseKept ==
  ASSUME NEW b \in Browsers, BrowseOK(b),
         listed'[b] = listed[b], request'[b] = request[b],
         throughout'[b] \subseteq throughout[b],
         throughout'[b] \subseteq DeadIn(deliveries', request[b].channel)
  PROVE  BrowseOK(b)'
BY DEF BrowseOK, Sorted

(* A browser that is not browsing. *)
LEMMA NotBrowsing ==
  ASSUME NEW b \in Browsers, BrowseOK(b), listed'[b] = listed[b], request'[b].op # "list"
  PROVE  BrowseOK(b)'
BY DEF BrowseOK, Sorted

(* A step that writes rows and touches at most the request of u, which it  *)
(* answers.                                                                *)
LEMMA WrittenStep ==
  ASSUME Typed, BrowseInv, DeathsAccounted, NEW rows, Written(rows), UNCHANGED listed,
         GoodRows(rows, nextID'), request' \in [Users -> Request],
         \A u \in Users : request'[u] = request[u] \/ request'[u].op = "none",
         unsettled' \in [IDs -> Int],
         \A d \in IDs : unsettled'[d] = unsettled[d]
                          + (IF DeadRow(rows, d) THEN 1 ELSE 0)
                          - (IF DeadRow(deliveries, d) THEN 1 ELSE 0)
  PROVE  (Typed /\ BrowseInv /\ DeathsAccounted)'
<1>1. /\ deliveries' = rows
      /\ throughout' = [b \in Browsers |-> throughout[b] \cap DeadIn(rows, request[b].channel)]
  BY DEF Written
<1>2. Typed'
  BY <1>1 DEF Typed, GoodRows
<1>3. DeathsAccounted'
  BY <1>1, Accounts DEF GoodRows
<1>4. ASSUME NEW b \in Browsers PROVE BrowseOK(b)'
  <2>1. BrowseOK(b) /\ listed'[b] = listed[b]
    BY DEF BrowseInv
  <2>2. CASE request'[b] = request[b]
    <3>1. throughout'[b] \subseteq throughout[b]
          /\ throughout'[b] \subseteq DeadIn(deliveries', request[b].channel)
      BY <1>1
    <3> QED BY <2>1, <2>2, <3>1, BrowseKept
  <2>3. CASE request'[b].op = "none"
    BY <2>1, <2>3, NotBrowsing
  <2>4. b \in Users
    BY DEF Users
  <2> QED BY <2>2, <2>3, <2>4
<1>5. listed' \in [Browsers -> Seq(IDs)] /\ throughout' \in [Browsers -> SUBSET IDs]
  BY <1>1 DEF BrowseInv
<1> QED BY <1>2, <1>3, <1>4, <1>5 DEF BrowseInv

(* Publishes, burials, acks, purges and channel deletes. *)
LEMMA QueueStep ==
  ASSUME Typed, BrowseInv, DeathsAccounted, Queue
  PROVE  (Typed /\ BrowseInv /\ DeathsAccounted)'
<1>0. /\ MaxInt64 \in Nat /\ GoodRows(deliveries, nextID) /\ nextID \in Nat
      /\ DOMAIN deliveries \subseteq IDs /\ unsettled \in [IDs -> Int]
      /\ request \in [Users -> Request]
  BY AdminPagesAssumption DEF Typed, GoodRows, IDs
<1>1. ASSUME NEW ch \in Channels, Publish(ch) PROVE (Typed /\ BrowseInv /\ DeathsAccounted)'
  <2> DEFINE row == [channel |-> ch, status |-> "live"]
             rows == [d \in DOMAIN deliveries \cup {nextID} |->
                        IF d = nextID THEN row ELSE deliveries[d]]
  <2>1. /\ Written(rows) /\ nextID' = nextID + 1 /\ nextID <= MaxInt64
        /\ UNCHANGED <<request, listed, unsettled>>
    BY <1>1 DEF Publish
  <2>2. row \in Row /\ row.status = "live"
    BY DEF Row
  <2> HIDE DEF row
  <2>3. rows \in [DOMAIN rows -> Row] /\ DOMAIN rows = DOMAIN deliveries \cup {nextID}
    BY <1>0, <2>2 DEF GoodRows
  <2>4. GoodRows(rows, nextID')
    BY <1>0, <2>1, <2>3 DEF GoodRows
  <2>5. \A d \in IDs : DeadRow(rows, d) <=> DeadRow(deliveries, d)
    BY <1>0, <2>2 DEF DeadRow, GoodRows
  <2> HIDE DEF rows
  <2>6. \A d \in IDs : unsettled'[d] = unsettled[d]
                         + (IF DeadRow(rows, d) THEN 1 ELSE 0)
                         - (IF DeadRow(deliveries, d) THEN 1 ELSE 0)
    BY <1>0, <2>1, <2>5
  <2> QED BY <1>0, <2>1, <2>4, <2>6, WrittenStep
<1>2. ASSUME NEW e \in IDs, Bury(e) PROVE (Typed /\ BrowseInv /\ DeathsAccounted)'
  <2> DEFINE rows == [deliveries EXCEPT ![e].status = "dead"]
  <2>1. /\ e \in DOMAIN deliveries /\ deliveries[e].status = "live" /\ Written(rows)
        /\ unsettled' = [unsettled EXCEPT ![e] = @ + 1]
        /\ UNCHANGED <<nextID, request, listed>>
    BY <1>2 DEF Bury
  <2>2. /\ rows \in [DOMAIN deliveries -> Row] /\ DOMAIN rows = DOMAIN deliveries
        /\ rows[e].status = "dead"
        /\ \A d \in DOMAIN deliveries \ {e} : rows[d] = deliveries[d]
    BY <1>0, <2>1 DEF GoodRows, Row
  <2> HIDE DEF rows
  <2>3. GoodRows(rows, nextID')
    BY <1>0, <2>1, <2>2 DEF GoodRows
  <2>4. /\ unsettled' \in [IDs -> Int]
        /\ \A d \in IDs : unsettled'[d] = IF d = e THEN unsettled[d] + 1 ELSE unsettled[d]
    BY <1>0, <2>1
  <2>5. ASSUME NEW d \in IDs
        PROVE  unsettled'[d] = unsettled[d]
                         + (IF DeadRow(rows, d) THEN 1 ELSE 0)
                         - (IF DeadRow(deliveries, d) THEN 1 ELSE 0)
    <3>1. CASE d = e
      <4>1. DeadRow(rows, d) /\ ~DeadRow(deliveries, d)
        BY <2>1, <2>2, <3>1 DEF DeadRow
      <4> QED BY <1>0, <2>4, <3>1, <4>1
    <3>2. CASE d # e
      <4>1. DeadRow(rows, d) <=> DeadRow(deliveries, d)
        BY <2>2, <3>2 DEF DeadRow
      <4> QED BY <1>0, <2>4, <3>2, <4>1
    <3> QED BY <3>1, <3>2
  <2> QED BY <1>0, <2>1, <2>3, <2>4, <2>5, WrittenStep
<1>3. ASSUME NEW e \in IDs, Retire(e) PROVE (Typed /\ BrowseInv /\ DeathsAccounted)'
  <2> DEFINE rows == [x \in DOMAIN deliveries \ {e} |-> deliveries[x]]
  <2>1. /\ e \in DOMAIN deliveries /\ Written(rows)
        /\ unsettled' = [unsettled EXCEPT ![e] =
                           IF deliveries[e].status = "dead" THEN @ - 1 ELSE @]
        /\ UNCHANGED <<nextID, request, listed>>
    BY <1>3 DEF Retire
  <2>2. /\ rows \in [DOMAIN rows -> Row] /\ DOMAIN rows = DOMAIN deliveries \ {e}
        /\ \A d \in DOMAIN deliveries \ {e} : rows[d] = deliveries[d]
    BY <1>0 DEF GoodRows
  <2> HIDE DEF rows
  <2>3. GoodRows(rows, nextID')
    BY <1>0, <2>1, <2>2 DEF GoodRows
  <2>4. /\ unsettled' \in [IDs -> Int]
        /\ \A d \in IDs : unsettled'[d] =
             IF d = e /\ deliveries[e].status = "dead" THEN unsettled[d] - 1 ELSE unsettled[d]
    BY <1>0, <2>1
  <2>5. ASSUME NEW d \in IDs
        PROVE  unsettled'[d] = unsettled[d]
                         + (IF DeadRow(rows, d) THEN 1 ELSE 0)
                         - (IF DeadRow(deliveries, d) THEN 1 ELSE 0)
    <3>1. CASE d = e
      <4>1. ~DeadRow(rows, d) /\ (DeadRow(deliveries, d) <=> deliveries[e].status = "dead")
        BY <2>1, <2>2, <3>1 DEF DeadRow
      <4> QED BY <1>0, <2>4, <3>1, <4>1
    <3>2. CASE d # e
      <4>1. DeadRow(rows, d) <=> DeadRow(deliveries, d)
        BY <2>2, <3>2 DEF DeadRow
      <4> QED BY <1>0, <2>4, <3>2, <4>1
    <3> QED BY <3>1, <3>2
  <2> QED BY <1>0, <2>1, <2>3, <2>4, <2>5, WrittenStep
<1>4. ASSUME NEW ch \in Channels, DeleteChannel(ch)
      PROVE  (Typed /\ BrowseInv /\ DeathsAccounted)'
  <2> DEFINE rows == [d \in OutlivesChannel(ch) |-> deliveries[d]]
  <2>1. /\ Written(rows)
        /\ unsettled' = [d \in IDs |->
             IF d \in DeadIn(deliveries, ch) THEN unsettled[d] - 1 ELSE unsettled[d]]
        /\ UNCHANGED <<nextID, request, listed>>
    BY <1>4 DEF DeleteChannel
  <2>2. /\ rows \in [DOMAIN rows -> Row]
        /\ DOMAIN rows = {d \in DOMAIN deliveries : deliveries[d].channel # ch}
        /\ \A d \in DOMAIN rows : rows[d] = deliveries[d]
    BY <1>0 DEF GoodRows, OutlivesChannel
  <2> HIDE DEF rows
  <2>3. GoodRows(rows, nextID')
    BY <1>0, <2>1, <2>2 DEF GoodRows
  <2>4. unsettled' \in [IDs -> Int]
    BY <1>0, <2>1
  <2>5. ASSUME NEW d \in IDs
        PROVE  unsettled'[d] = unsettled[d]
                         + (IF DeadRow(rows, d) THEN 1 ELSE 0)
                         - (IF DeadRow(deliveries, d) THEN 1 ELSE 0)
    <3>1. CASE d \in DeadIn(deliveries, ch)
      <4>1. ~DeadRow(rows, d) /\ DeadRow(deliveries, d)
        BY <2>2, <3>1 DEF DeadRow, DeadIn
      <4> QED BY <1>0, <2>1, <3>1, <4>1
    <3>2. CASE d \notin DeadIn(deliveries, ch)
      <4>1. DeadRow(rows, d) <=> DeadRow(deliveries, d)
        BY <2>2, <3>2 DEF DeadRow, DeadIn
      <4> QED BY <1>0, <2>1, <3>2, <4>1
    <3> QED BY <3>1, <3>2
  <2> QED BY <1>0, <2>1, <2>3, <2>4, <2>5, WrittenStep
<1> QED BY <1>1, <1>2, <1>3, <1>4 DEF Queue

----------------------------------------------------------------------------
(* A request that is opened, moved or answered without a write. *)
LEMMA RequestStep ==
  ASSUME Typed, BrowseInv, DeathsAccounted, NEW u \in Users, NEW q \in Request,
         request' = [request EXCEPT ![u] = q],
         q.op \in {"show", "requeue", "delete"} => q.id \in IDs,
         UNCHANGED <<deliveries, nextID, unsettled>>,
         listed' \in [Browsers -> Seq(IDs)], throughout' \in [Browsers -> SUBSET IDs],
         \A b \in Browsers \ {u} : listed'[b] = listed[b] /\ throughout'[b] = throughout[b],
         u \in Browsers => BrowseOK(u)'
  PROVE  (Typed /\ BrowseInv /\ DeathsAccounted)'
<1>1. /\ request' \in [Users -> Request] /\ request'[u] = q
      /\ \A v \in Users \ {u} : request'[v] = request[v]
  BY DEF Typed
<1>2. Typed'
  BY <1>1 DEF Typed
<1>3. DeathsAccounted'
  BY DEF DeathsAccounted
<1>4. ASSUME NEW b \in Browsers PROVE BrowseOK(b)'
  <2>1. CASE b = u
    BY <2>1
  <2>2. CASE b # u
    <3>1. BrowseOK(b) /\ b \in Users
      BY DEF BrowseInv, Users
    <3>2. listed'[b] = listed[b] /\ throughout'[b] = throughout[b] /\ request'[b] = request[b]
      BY <1>1, <2>2, <3>1
    <3> QED BY <3>1, <3>2 DEF BrowseOK, Sorted
  <2> QED BY <2>1, <2>2
<1> QED BY <1>2, <1>3, <1>4 DEF BrowseInv

(* The same when the browses stand still and u is not left browsing. *)
LEMMA SideStep ==
  ASSUME Typed, BrowseInv, DeathsAccounted, NEW u \in Users, NEW q \in Request,
         request' = [request EXCEPT ![u] = q],
         q.op \in {"show", "requeue", "delete"} => q.id \in IDs,
         q.op # "list",
         UNCHANGED <<deliveries, nextID, unsettled, listed, throughout>>
  PROVE  (Typed /\ BrowseInv /\ DeathsAccounted)'
<1>1. request'[u] = q
  BY DEF Typed
<1>2. u \in Browsers => BrowseOK(u)'
  BY <1>1, NotBrowsing DEF BrowseInv
<1>3. listed' \in [Browsers -> Seq(IDs)] /\ throughout' \in [Browsers -> SUBSET IDs]
  BY DEF BrowseInv
<1> QED BY <1>2, <1>3, RequestStep

(* The request after its answer. *)
Replied(text) == [op |-> "none", pc |-> "done", channel |-> 0, id |-> 0, before |-> 0,
                  answer |-> text]

(* An answer ends the request. *)
LEMMA AnswerIsIdle ==
  ASSUME NEW u, NEW text \in Texts, Answer(u, text)
  PROVE  /\ Replied(text) \in Request /\ Replied(text).op = "none"
         /\ Replied(text).answer = text
         /\ request' = [request EXCEPT ![u] = Replied(text)]
<1>1. [Idle EXCEPT !.answer = text] = Replied(text)
  BY DEF Idle, Replied
<1>2. Replied(text) \in Request
  BY DEF Replied, Request, Texts
<1>3. Replied(text).op = "none" /\ Replied(text).answer = text
  BY DEF Replied
<1> QED BY <1>1, <1>2, <1>3 DEF Answer

(* An answer without a write. *)
LEMMA AnswerStep ==
  ASSUME Typed, BrowseInv, DeathsAccounted, NEW u \in Users,
         NEW text \in Texts, Answer(u, text), UNCHANGED <<deliveries, nextID, unsettled, listed, throughout>>
  PROVE  (Typed /\ BrowseInv /\ DeathsAccounted)'
<1>1. /\ Replied(text) \in Request /\ Replied(text).op = "none"
      /\ request' = [request EXCEPT ![u] = Replied(text)]
  BY AnswerIsIdle
<1> QED BY <1>1, SideStep

(* The two forms: a requeue or delete that finds the delivery dead settles *)
(* it, any other changes nothing.                                          *)
LEMMA DeadActionStep ==
  ASSUME Typed, BrowseInv, DeathsAccounted, NEW u \in Users, RequeueDead(u) \/ DeleteDead(u)
  PROVE  (Typed /\ BrowseInv /\ DeathsAccounted)'
<1> DEFINE e == request[u].id
           live == [deliveries EXCEPT ![e].status = "live"]
           rest == [x \in DOMAIN deliveries \ {e} |-> deliveries[x]]
<1>0. /\ GoodRows(deliveries, nextID) /\ unsettled \in [IDs -> Int]
      /\ request \in [Users -> Request] /\ DOMAIN deliveries \subseteq IDs
  BY AdminPagesAssumption DEF Typed, GoodRows, IDs
<1>1. CASE ~DeadOf(request[u].channel, e)
  <2>1. /\ Answer(u, "already-gone")
        /\ UNCHANGED <<deliveries, nextID, unsettled, listed, throughout>>
    BY <1>1 DEF RequeueDead, DeleteDead, deadAction
  <2> QED BY <2>1, AnswerStep DEF Texts
<1>2. CASE DeadOf(request[u].channel, e)
  <2>1. PICK rows \in {live, rest}, text \in {"requeued", "deleted", "error"} :
          /\ Written(rows) /\ Answer(u, text)
          /\ unsettled' = [unsettled EXCEPT ![e] = @ - 1]
          /\ UNCHANGED <<nextID, listed>>
    BY <1>2 DEF RequeueDead, DeleteDead, deadAction
  <2>2. e \in DOMAIN deliveries /\ deliveries[e].status = "dead" /\ e \in IDs
    BY <1>0, <1>2 DEF DeadOf, DeadIn
  <2>3. /\ rows \in [DOMAIN rows -> Row] /\ DOMAIN rows \subseteq DOMAIN deliveries
        /\ ~DeadRow(rows, e)
        /\ \A d \in DOMAIN deliveries \ {e} : d \in DOMAIN rows /\ rows[d] = deliveries[d]
    <3>1. CASE rows = live
      BY <1>0, <2>2, <3>1 DEF GoodRows, Row, DeadRow
    <3>2. CASE rows = rest
      BY <1>0, <2>2, <3>2 DEF GoodRows, DeadRow
    <3> QED BY <3>1, <3>2
  <2> HIDE DEF live, rest, e
  <2>4. GoodRows(rows, nextID')
    BY <1>0, <2>1, <2>3 DEF GoodRows
  <2>5. /\ unsettled' \in [IDs -> Int]
        /\ \A d \in IDs : unsettled'[d] = IF d = e THEN unsettled[d] - 1 ELSE unsettled[d]
    BY <1>0, <2>1, <2>2
  <2>6. ASSUME NEW d \in IDs
        PROVE  unsettled'[d] = unsettled[d]
                         + (IF DeadRow(rows, d) THEN 1 ELSE 0)
                         - (IF DeadRow(deliveries, d) THEN 1 ELSE 0)
    <3>1. CASE d = e
      <4>1. ~DeadRow(rows, d) /\ DeadRow(deliveries, d)
        BY <2>2, <2>3, <3>1 DEF DeadRow
      <4> QED BY <1>0, <2>5, <3>1, <4>1
    <3>2. CASE d # e
      <4>1. DeadRow(rows, d) <=> DeadRow(deliveries, d)
        BY <2>3, <3>2 DEF DeadRow
      <4> QED BY <1>0, <2>5, <3>2, <4>1
    <3> QED BY <3>1, <3>2
  <2>7. /\ Replied(text) \in Request /\ Replied(text).op = "none"
        /\ request' = [request EXCEPT ![u] = Replied(text)]
    <3>1. text \in Texts /\ Answer(u, text)
      BY <2>1 DEF Texts
    <3> QED BY <3>1, AnswerIsIdle
  <2>8. /\ request' \in [Users -> Request]
        /\ \A v \in Users : request'[v] = request[v] \/ request'[v].op = "none"
    BY <1>0, <2>7
  <2> QED BY <2>1, <2>4, <2>5, <2>6, <2>8, WrittenStep
<1> QED BY <1>1, <1>2

(* A request that moves on keeps what it asked for. *)
LEMMA MovedRequest ==
  ASSUME Typed, NEW u \in Users, NEW pc \in {"done", "resolve", "act", "older"},
         NEW q, q = [request[u] EXCEPT !.pc = pc]
  PROVE  /\ q \in Request /\ q.pc = pc /\ q.op = request[u].op /\ q.id = request[u].id
         /\ q.channel = request[u].channel /\ q.before = request[u].before
         /\ q.answer = request[u].answer
BY DEF Typed, Request

(* resolveChannel lets a request go on, or answers it. *)
LEMMA ResolveStep ==
  ASSUME Typed, BrowseInv, DeathsAccounted, NEW u \in Users, resolveChannel(u)
  PROVE  (Typed /\ BrowseInv /\ DeathsAccounted)'
<1>1. UNCHANGED <<deliveries, nextID, unsettled, listed, throughout>>
  BY DEF resolveChannel
<1>2. CASE Answer(u, "not found")
  BY <1>1, <1>2, AnswerStep DEF Texts
<1>3. CASE request' = [request EXCEPT ![u].pc = "act"]
  <2> DEFINE q == [request[u] EXCEPT !.pc = "act"]
  <2>1. request' = [request EXCEPT ![u] = q] /\ request[u].pc = "resolve"
    BY <1>3 DEF resolveChannel, Typed
  <2>2. /\ q \in Request /\ q.pc = "act" /\ q.op = request[u].op /\ q.id = request[u].id
        /\ q.channel = request[u].channel /\ q.before = request[u].before
    BY MovedRequest
  <2> HIDE DEF q
  <2>3. request'[u] = q
    BY <2>1 DEF Typed
  <2>4. u \in Browsers => BrowseOK(u)'
    BY <1>1, <2>1, <2>2, <2>3 DEF BrowseInv, BrowseOK, Sorted
  <2>5. listed' \in [Browsers -> Seq(IDs)] /\ throughout' \in [Browsers -> SUBSET IDs]
    BY <1>1 DEF BrowseInv
  <2>6. q.op \in {"show", "requeue", "delete"} => q.id \in IDs
    BY <2>2 DEF Typed
  <2> QED BY <1>1, <2>1, <2>2, <2>4, <2>5, <2>6, RequestStep
<1> QED BY <1>2, <1>3 DEF resolveChannel

(* The rest of what an operator does, and requests that fail. *)
LEMMA OperateStep ==
  ASSUME Typed, BrowseInv, DeathsAccounted, NEW u \in Users,
         (u \in Operators /\ Operate(u)) \/ RequestFails(u)
  PROVE  (Typed /\ BrowseInv /\ DeathsAccounted)'
<1>1. ASSUME NEW ch \in Channels, NEW d \in IDs, NEW op \in {"show", "requeue", "delete"},
             Ask(u, op, ch, d), UNCHANGED <<deliveries, nextID, unsettled, listed, throughout>>
      PROVE  (Typed /\ BrowseInv /\ DeathsAccounted)'
  <2> DEFINE q == [op |-> op, pc |-> "resolve", channel |-> ch, id |-> d, before |-> 0,
                   answer |-> "none"]
  <2>1. q \in Request /\ q.op = op /\ q.id = d
    BY DEF Request, Texts
  <2>2. request' = [request EXCEPT ![u] = q]
    BY <1>1 DEF Ask
  <2> HIDE DEF q
  <2> QED BY <1>1, <2>1, <2>2, SideStep
<1>2. CASE \E ch \in Channels, d \in IDs :
             \/ OpenDelivery(u, ch, d)
             \/ \E op \in {"requeue", "delete"} : PostAction(u, op, ch, d)
  <2>1. PICK ch \in Channels, d \in IDs, op \in {"show", "requeue", "delete"} :
          Ask(u, op, ch, d) /\ UNCHANGED <<deliveries, nextID, unsettled, listed, throughout>>
    BY <1>2 DEF OpenDelivery, PostAction
  <2> QED BY <1>1, <2>1
<1>3. CASE loadDeadDelivery(u)
  <2>1. PICK text \in {"not found", "found"} : Answer(u, text)
    BY <1>3 DEF loadDeadDelivery
  <2>2. UNCHANGED <<deliveries, nextID, unsettled, listed, throughout>>
    BY <1>3 DEF loadDeadDelivery
  <2> QED BY <2>1, <2>2, AnswerStep DEF Texts
<1>4. CASE RequestFails(u)
  BY <1>4, AnswerStep DEF RequestFails, Texts
<1>5. CASE RequeueDead(u) \/ DeleteDead(u)
  BY <1>5, DeadActionStep
<1> QED BY <1>2, <1>3, <1>4, <1>5 DEF Operate

----------------------------------------------------------------------------
(* Appending smaller ids to a descending list. *)
LEMMA SortedAppend ==
  ASSUME NEW s \in Seq(IDs), NEW t \in Seq(IDs), Sorted(s), Sorted(t),
         \A i \in 1..Len(s), j \in 1..Len(t) : s[i] > t[j]
  PROVE  /\ s \o t \in Seq(IDs) /\ Sorted(s \o t)
         /\ Len(s \o t) = Len(s) + Len(t)
         /\ \A i \in 1..Len(s) : (s \o t)[i] = s[i]
         /\ \A j \in 1..Len(t) : (s \o t)[Len(s) + j] = t[j]
         /\ \A i \in 1..Len(s \o t) :
              \/ i \in 1..Len(s)
              \/ i - Len(s) \in 1..Len(t) /\ (s \o t)[i] = t[i - Len(s)]
<1> DEFINE r == s \o t
<1>1. /\ r \in Seq(IDs) /\ Len(r) = Len(s) + Len(t)
      /\ \A i \in 1..Len(s) : r[i] = s[i]
      /\ \A j \in 1..Len(t) : r[Len(s) + j] = t[j]
      /\ \A i \in 1..Len(r) : i \notin 1..Len(s) => r[i] = t[i - Len(s)]
      /\ Len(s) \in Nat /\ Len(t) \in Nat
  OBVIOUS
<1>2. DOMAIN r = 1..Len(r) /\ DOMAIN s = 1..Len(s) /\ DOMAIN t = 1..Len(t)
  OBVIOUS
<1> HIDE DEF r
<1>3. \A i \in 1..Len(r) : i \in 1..Len(s) \/ i - Len(s) \in 1..Len(t)
  BY <1>1
<1>4. Sorted(r)
  <2> SUFFICES ASSUME NEW i \in 1..Len(r), NEW j \in 1..Len(r), i < j PROVE r[i] > r[j]
    BY <1>2 DEF Sorted
  <2>1. CASE i \in 1..Len(s) /\ j \in 1..Len(s)
    BY <1>1, <1>2, <2>1 DEF Sorted
  <2>2. CASE i \in 1..Len(s) /\ j \notin 1..Len(s)
    <3>1. j - Len(s) \in 1..Len(t) /\ r[j] = t[j - Len(s)] /\ r[i] = s[i]
      BY <1>1, <1>3, <2>2
    <3> QED BY <2>2, <3>1
  <2>3. CASE i \notin 1..Len(s)
    <3>1. j \notin 1..Len(s)
      BY <1>1, <2>3
    <3>2. /\ i - Len(s) \in 1..Len(t) /\ r[i] = t[i - Len(s)]
          /\ j - Len(s) \in 1..Len(t) /\ r[j] = t[j - Len(s)]
          /\ i - Len(s) < j - Len(s)
      BY <1>1, <1>3, <2>3, <3>1
    <3> QED BY <1>2, <3>2 DEF Sorted
  <2> QED BY <2>1, <2>2, <2>3
<1> QED BY <1>1, <1>3, <1>4 DEF r

(* The next page of a browse goes on where the last one ended: below what  *)
(* was shown, and with nothing left out in between.                        *)
LEMMA NextPage ==
  ASSUME Typed, BrowseInv, NEW b \in Browsers, loadDeadList(b)
  PROVE  /\ listed' \in [Browsers -> Seq(IDs)]
         /\ \A x \in Browsers \ {b} : listed'[x] = listed[x]
         /\ \E q \in Request :
              /\ request' = [request EXCEPT ![b] = q] /\ q.op = "list"
              /\ BrowseOK(b)'
<1> DEFINE r == request[b]
           N == deadPageSize
           rows == ListDead(r.channel, r.before, N + 1)
           S == DeadBefore(r.channel, r.before)
           m == Min({N, Len(rows)})
           shown == SubSeq(rows, 1, m)
           older == Len(rows) > N
           pc == IF older THEN "older" ELSE "done"
           before == IF older THEN OlderBefore(rows) ELSE r.before
           q == [r EXCEPT !.pc = pc, !.before = before, !.answer = "page"]
<1>0. /\ b \in Users /\ r \in Request /\ r.before \in IDs \cup {0} /\ BrowseOK(b)
      /\ listed[b] \in Seq(IDs) /\ listed \in [Browsers -> Seq(IDs)] /\ N \in Nat /\ N > 0
      /\ r.op = "list" /\ r.pc = "act" /\ request \in [Users -> Request]
  BY AdminPagesAssumption DEF Users, Typed, Request, BrowseInv, loadDeadList
<1>1. PageOf(rows, S, N + 1)
  <2>1. N + 1 \in Nat \ {0}
    BY <1>0
  <2> QED BY <1>0, <2>1, ListDeadPage
<1>2. /\ listed' = [listed EXCEPT ![b] = @ \o shown]
      /\ UNCHANGED <<deliveries, throughout>>
      /\ request' = [request EXCEPT ![b].pc = pc, ![b].before = before, ![b].answer = "page"]
  BY DEF loadDeadList
<1>3. request' = [request EXCEPT ![b] = q]
  BY <1>0, <1>2
<1>4. /\ S \subseteq DeadIn(deliveries, r.channel)
      /\ \A d \in DeadIn(deliveries, r.channel) : r.before = 0 \/ d < r.before => d \in S
      /\ \A d \in S : r.before = 0 \/ d < r.before
  BY DEF DeadBefore
<1> HIDE DEF rows, S, q
<1>5. rows \in Seq(IDs) /\ Len(rows) \in Nat
  BY <1>1 DEF PageOf
<1>6. m = IF N <= Len(rows) THEN N ELSE Len(rows)
  BY <1>0, <1>5, MinOfTwo
<1> HIDE DEF m
<1>7. /\ shown \in Seq(IDs) /\ Len(shown) = m /\ m \in Nat /\ m <= Len(rows)
      /\ \A i \in 1..m : shown[i] = rows[i]
  BY <1>0, <1>5, <1>6
<1> HIDE DEF shown
<1>8. Sorted(shown)
  <2> SUFFICES ASSUME NEW i \in 1..m, NEW j \in 1..m, i < j PROVE shown[i] > shown[j]
    BY <1>7 DEF Sorted
  <2>1. i \in 1..Len(rows) /\ j \in 1..Len(rows) /\ shown[i] = rows[i] /\ shown[j] = rows[j]
    BY <1>5, <1>7
  <2> QED BY <1>1, <2>1 DEF PageOf, Sorted
<1>9. \A i \in 1..Len(listed[b]), j \in 1..Len(shown) : listed[b][i] > shown[j]
  <2> SUFFICES ASSUME NEW i \in 1..Len(listed[b]), NEW j \in 1..Len(shown)
               PROVE  listed[b][i] > shown[j]
    OBVIOUS
  <2>1. r.before > 0 /\ listed[b][i] >= r.before /\ listed[b][i] \in IDs
    BY <1>0 DEF BrowseOK
  <2>2. shown[j] \in S /\ shown[j] \in IDs
    <3>1. j \in 1..Len(rows) /\ shown[j] = rows[j]
      BY <1>5, <1>7
    <3> QED BY <1>1, <3>1 DEF PageOf
  <2>3. shown[j] < r.before
    BY <1>4, <2>1, <2>2
  <2>4. r.before \in Int /\ listed[b][i] \in Int /\ shown[j] \in Int
    BY <1>0, <2>1, <2>2, AdminPagesAssumption DEF IDs
  <2> QED BY <2>1, <2>3, <2>4
<1>10. /\ listed' \in [Browsers -> Seq(IDs)] /\ Sorted(listed'[b])
       /\ \A x \in Browsers \ {b} : listed'[x] = listed[x]
       /\ Len(listed'[b]) = Len(listed[b]) + m
       /\ \A i \in 1..Len(listed[b]) : listed'[b][i] = listed[b][i]
       /\ \A j \in 1..m : listed'[b][Len(listed[b]) + j] = shown[j]
       /\ \A i \in 1..Len(listed'[b]) :
            \/ i \in 1..Len(listed[b])
            \/ i - Len(listed[b]) \in 1..m /\ listed'[b][i] = shown[i - Len(listed[b])]
  <2> DEFINE s == listed[b] \o shown
  <2>1. /\ s \in Seq(IDs) /\ Sorted(s) /\ Len(s) = Len(listed[b]) + m
        /\ \A i \in 1..Len(listed[b]) : s[i] = listed[b][i]
        /\ \A j \in 1..m : s[Len(listed[b]) + j] = shown[j]
        /\ \A i \in 1..Len(s) :
             \/ i \in 1..Len(listed[b])
             \/ i - Len(listed[b]) \in 1..m /\ s[i] = shown[i - Len(listed[b])]
    BY <1>0, <1>7, <1>8, <1>9, SortedAppend DEF BrowseOK
  <2>2. listed' = [listed EXCEPT ![b] = s]
    BY <1>2
  <2> HIDE DEF s
  <2>3. /\ listed' \in [Browsers -> Seq(IDs)] /\ listed'[b] = s
        /\ \A x \in Browsers \ {b} : listed'[x] = listed[x]
    BY <1>0, <2>1, <2>2
  <2> QED BY <2>1, <2>3
<1>11. /\ before \in IDs \cup {0} /\ pc \in {"older", "done"}
       /\ older => /\ m = N /\ Len(rows) = N + 1 /\ before = rows[N] /\ rows[N] \in IDs
                   /\ before = shown[N]
  <2>1. older => m = N /\ Len(rows) = N + 1 /\ N \in 1..Len(rows) /\ N \in 1..m
    BY <1>0, <1>1, <1>5, <1>6 DEF PageOf
  <2>2. older => rows[N] \in IDs /\ shown[N] = rows[N]
    BY <1>5, <1>7, <2>1
  <2> QED BY <1>0, <2>1, <2>2 DEF OlderBefore
<1>12. (older <=> pc = "older") /\ (~older <=> pc = "done")
  OBVIOUS
<1> HIDE DEF older, pc, before
<1>13. /\ q \in Request /\ q.pc = pc /\ q.before = before /\ q.op = "list"
       /\ q.channel = r.channel /\ q.id = r.id
  BY <1>0, <1>11 DEF q, Request, Texts
<1>14. request'[b] = q
  BY <1>0, <1>3
(* A delivery dead all the time is shown, now or before, or is older. *)
<1>15. ASSUME NEW d \in throughout[b]
       PROVE  \/ \E i \in 1..Len(listed'[b]) : listed'[b][i] = d
              \/ older /\ d < before
  <2>0. d \in DeadIn(deliveries, r.channel)
    BY <1>0 DEF BrowseOK
  <2>1. CASE \E i \in 1..Len(listed[b]) : listed[b][i] = d
    <3>1. PICK i \in 1..Len(listed[b]) : listed[b][i] = d
      BY <2>1
    <3>2. i \in 1..Len(listed'[b]) /\ listed'[b][i] = d
      BY <1>0, <1>7, <1>10, <3>1
    <3> QED BY <3>2
  <2>2. CASE ~ \E i \in 1..Len(listed[b]) : listed[b][i] = d
    <3>1. d \in S
      BY <1>0, <1>4, <2>0, <2>2 DEF BrowseOK
    <3>2. CASE \E i \in 1..m : rows[i] = d
      <4>1. PICK i \in 1..m : rows[i] = d
        BY <3>2
      <4>2. Len(listed[b]) + i \in 1..Len(listed'[b]) /\ listed'[b][Len(listed[b]) + i] = d
        BY <1>0, <1>7, <1>10, <4>1
      <4> QED BY <4>2
    <3>3. CASE ~ \E i \in 1..m : rows[i] = d
      <4>0. \A i \in 1..Len(rows) : rows[i] \in IDs /\ rows[i] \in Int
        BY <1>5, AdminPagesAssumption DEF IDs
      <4>1. CASE \E i \in 1..Len(rows) : rows[i] = d
        <5>1. PICK i \in 1..Len(rows) : rows[i] = d
          BY <4>1
        <5>2. ~(i <= m)
          BY <1>7, <3>3, <5>1
        <5>3. older /\ N < i /\ N \in 1..Len(rows)
          BY <1>0, <1>5, <1>6, <5>2 DEF older
        <5>4. rows[N] > rows[i]
          BY <1>1, <1>5, <5>3 DEF PageOf, Sorted
        <5> QED BY <1>11, <4>0, <5>1, <5>3, <5>4
      <4>2. CASE Len(rows) = N + 1 /\ rows[N + 1] > d
        <5>1. older /\ N \in 1..Len(rows) /\ N + 1 \in 1..Len(rows)
          BY <1>0, <4>2 DEF older
        <5>2. rows[N] > rows[N + 1]
          BY <1>0, <1>1, <1>5, <5>1 DEF PageOf, Sorted
        <5>3. d \in Int
          BY <2>0, AdminPagesAssumption DEF DeadIn, Typed
        <5> QED BY <1>11, <4>0, <4>2, <5>1, <5>2, <5>3
      <4> QED BY <1>1, <3>1, <4>1, <4>2 DEF PageOf
    <3> QED BY <3>2, <3>3
  <2> QED BY <2>1, <2>2
<1>16. ASSUME older, NEW i \in 1..Len(listed'[b])
       PROVE  before > 0 /\ listed'[b][i] >= before
  <2>0. before \in IDs /\ before \in Nat /\ before > 0
    BY <1>11, <1>16, AdminPagesAssumption DEF IDs
  <2>1. CASE i \in 1..Len(listed[b])
    <3>1. listed'[b][i] = listed[b][i] /\ listed[b][i] > shown[N] /\ listed[b][i] \in IDs
      BY <1>0, <1>7, <1>9, <1>10, <1>11, <1>16, <2>1
    <3> QED BY <1>11, <1>16, <2>0, <3>1, AdminPagesAssumption DEF IDs
  <2>2. CASE i - Len(listed[b]) \in 1..m /\ listed'[b][i] = shown[i - Len(listed[b])]
    <3> DEFINE j == i - Len(listed[b])
    <3>1. j \in 1..N /\ listed'[b][i] = shown[j] /\ j <= N /\ N \in 1..N /\ j \in Int
      BY <1>0, <1>11, <1>16, <2>2
    <3> HIDE DEF j
    <3>2. shown[j] \in IDs /\ shown[N] \in IDs
      BY <1>7, <1>11, <1>16, <3>1
    <3>3. CASE j = N
      BY <1>11, <1>16, <2>0, <3>1, <3>3
    <3>4. CASE j # N
      <4>1. j < N /\ DOMAIN shown = 1..N
        BY <1>0, <1>7, <1>11, <1>16, <3>1, <3>4
      <4>2. shown[j] > shown[N]
        BY <1>8, <3>1, <4>1 DEF Sorted
      <4> QED BY <1>11, <1>16, <2>0, <3>1, <3>2, <4>2, AdminPagesAssumption DEF IDs
    <3> QED BY <3>3, <3>4
  <2> QED BY <1>10, <2>1, <2>2
<1>17. BrowseOK(b)'
  <2>1. throughout'[b] = throughout[b] /\ deliveries' = deliveries
    BY <1>2
  <2>2. throughout[b] \subseteq DeadIn(deliveries, r.channel)
    BY <1>0 DEF BrowseOK
  <2>3. CASE older
    BY <1>10, <1>12, <1>13, <1>14, <1>15, <1>16, <2>1, <2>2, <2>3 DEF BrowseOK
  <2>4. CASE ~older
    BY <1>10, <1>12, <1>13, <1>14, <1>15, <2>1, <2>2, <2>4 DEF BrowseOK
  <2> QED BY <2>3, <2>4
<1> QED BY <1>3, <1>10, <1>13, <1>17

(* A browse: opened, read page by page, and left. *)
LEMMA BrowseStep ==
  ASSUME Typed, BrowseInv, DeathsAccounted, NEW b \in Browsers, Browse(b)
  PROVE  (Typed /\ BrowseInv /\ DeathsAccounted)'
<1>0. /\ b \in Users /\ request \in [Users -> Request] /\ BrowseOK(b)
      /\ listed \in [Browsers -> Seq(IDs)] /\ throughout \in [Browsers -> SUBSET IDs]
  BY DEF Users, Typed, BrowseInv
<1>1. ASSUME NEW ch \in Channels, OpenList(b, ch)
      PROVE  (Typed /\ BrowseInv /\ DeathsAccounted)'
  <2> DEFINE q == [op |-> "list", pc |-> "resolve", channel |-> ch, id |-> 0, before |-> 0,
                   answer |-> "none"]
  <2>1. /\ request' = [request EXCEPT ![b] = q] /\ listed' = [listed EXCEPT ![b] = <<>>]
        /\ throughout' = [throughout EXCEPT ![b] = DeadIn(deliveries, ch)]
        /\ UNCHANGED <<deliveries, nextID, unsettled>>
    BY <1>1 DEF OpenList, Ask
  <2>2. /\ q \in Request /\ q.op = "list" /\ q.pc = "resolve" /\ q.channel = ch
        /\ q.before = 0
    BY DEF Request, Texts
  <2> HIDE DEF q
  <2>3. DeadIn(deliveries, ch) \subseteq IDs
    BY AdminPagesAssumption DEF Typed, DeadIn, IDs
  <2>4. /\ request'[b] = q /\ listed'[b] = <<>> /\ throughout'[b] = DeadIn(deliveries, ch)
        /\ listed' \in [Browsers -> Seq(IDs)] /\ throughout' \in [Browsers -> SUBSET IDs]
        /\ \A x \in Browsers \ {b} : listed'[x] = listed[x] /\ throughout'[x] = throughout[x]
    BY <1>0, <2>1, <2>3
  <2>5. BrowseOK(b)'
    BY <2>1, <2>2, <2>4 DEF BrowseOK, Sorted
  <2> QED BY <1>0, <2>1, <2>2, <2>4, <2>5, RequestStep
<1>2. CASE loadDeadList(b)
  <2>1. UNCHANGED <<deliveries, nextID, throughout, unsettled>>
    BY <1>2 DEF loadDeadList
  <2>2. PICK q \in Request : /\ request' = [request EXCEPT ![b] = q] /\ q.op = "list"
                             /\ BrowseOK(b)'
    BY <1>2, NextPage
  <2>3. /\ listed' \in [Browsers -> Seq(IDs)]
        /\ \A x \in Browsers \ {b} : listed'[x] = listed[x]
    BY <1>2, NextPage
  <2> QED BY <1>0, <2>1, <2>2, <2>3, RequestStep
<1>3. CASE FollowOlder(b)
  <2> DEFINE q == [request[b] EXCEPT !.pc = "resolve", !.answer = "none"]
  <2>1. /\ request' = [request EXCEPT ![b] = q] /\ request[b].pc = "older"
        /\ UNCHANGED <<deliveries, nextID, unsettled, listed, throughout>>
    BY <1>0, <1>3 DEF FollowOlder
  <2>2. /\ q \in Request /\ q.pc = "resolve" /\ q.op = request[b].op /\ q.id = request[b].id
        /\ q.channel = request[b].channel /\ q.before = request[b].before
    BY <1>0 DEF Request, Texts
  <2> HIDE DEF q
  <2>3. request'[b] = q
    BY <1>0, <2>1
  <2>4. BrowseOK(b)'
    BY <1>0, <2>1, <2>2, <2>3 DEF BrowseOK, Sorted
  <2>5. q.op \in {"show", "requeue", "delete"} => q.id \in IDs
    BY <1>0, <2>2 DEF Typed
  <2> QED BY <1>0, <2>1, <2>2, <2>4, <2>5, RequestStep
<1>4. CASE LeaveBrowse(b)
  <2>1. /\ request' = [request EXCEPT ![b] = Idle]
        /\ UNCHANGED <<deliveries, nextID, unsettled, listed, throughout>>
    BY <1>4 DEF LeaveBrowse
  <2>2. Idle \in Request /\ Idle.op = "none"
    BY DEF Idle, Request, Texts
  <2> QED BY <1>0, <2>1, <2>2, SideStep
<1> QED BY <1>1, <1>2, <1>3, <1>4 DEF Browse

----------------------------------------------------------------------------
(* The tables are empty at first and nobody browses. *)
LEMMA PagesInit == Init => Typed /\ BrowseInv /\ DeathsAccounted
<1> SUFFICES ASSUME Init PROVE Typed /\ BrowseInv /\ DeathsAccounted
  OBVIOUS
<1>1. Idle \in Request /\ Idle.op = "none"
  BY DEF Idle, Request, Texts
<1>2. DOMAIN deliveries = {}
  BY DEF Init
<1>3. Typed
  BY <1>1, <1>2, AdminPagesAssumption DEF Init, Typed
<1>4. BrowseInv
  BY <1>1 DEF Init, BrowseInv, BrowseOK, Sorted, Users
<1>5. DeathsAccounted
  BY <1>2 DEF Init, DeathsAccounted, DeadIn
<1> QED BY <1>3, <1>4, <1>5

(* Every step keeps the three. *)
LEMMA PagesStep ==
  Typed /\ BrowseInv /\ DeathsAccounted /\ [Next]_vars => (Typed /\ BrowseInv /\ DeathsAccounted)'
<1> SUFFICES ASSUME Typed, BrowseInv, DeathsAccounted, [Next]_vars
             PROVE  (Typed /\ BrowseInv /\ DeathsAccounted)'
  OBVIOUS
<1>1. CASE Queue
  BY <1>1, QueueStep
<1>2. ASSUME NEW b \in Browsers, Browse(b) PROVE (Typed /\ BrowseInv /\ DeathsAccounted)'
  BY <1>2, BrowseStep
<1>3. ASSUME NEW o \in Operators, Operate(o) PROVE (Typed /\ BrowseInv /\ DeathsAccounted)'
  BY <1>3, OperateStep DEF Users
<1>4. ASSUME NEW u \in Users, resolveChannel(u) \/ RequestFails(u)
      PROVE  (Typed /\ BrowseInv /\ DeathsAccounted)'
  BY <1>4, ResolveStep, OperateStep
<1>5. CASE UNCHANGED vars
  BY <1>5 DEF vars, Typed, BrowseInv, BrowseOK, Sorted, DeathsAccounted
<1> QED BY <1>1, <1>2, <1>3, <1>4, <1>5 DEF Next

(* Whatever operators, retries, purges and channel deletes race for a dead *)
(* delivery, each of its deaths is settled exactly once.                   *)
THEOREM DeathsSettledOnce == Spec => []DeathsAccounted
BY PagesInit, PagesStep, PTL DEF Spec

(* A browse repeats nothing, keeps the order, and has shown at its last    *)
(* page everything that was dead all the time, for every page size and     *)
(* whatever changes between its pages.                                     *)
THEOREM BrowsesExact == Spec => []BrowseExact
<1>1. Typed /\ BrowseInv => BrowseExact
  <2> SUFFICES ASSUME Typed, BrowseInv, NEW b \in Browsers
               PROVE  /\ \A i, j \in DOMAIN listed[b] : i < j => listed[b][i] > listed[b][j]
                      /\ request[b].op = "list" /\ request[b].pc = "done"
                           /\ request[b].answer = "page" =>
                           throughout[b] \subseteq ToSet(listed[b])
    BY DEF BrowseExact
  <2>1. BrowseOK(b) /\ listed[b] \in Seq(IDs)
    BY DEF BrowseInv
  <2>2. DOMAIN listed[b] = 1..Len(listed[b])
    BY <2>1
  <2> QED BY <2>1, <2>2 DEF BrowseOK, Sorted, ToSet
<1> QED BY <1>1, PagesInit, PagesStep, PTL DEF Spec

(* The page of a delivery is found if and only if the delivery is dead in  *)
(* the channel when the list is read.                                      *)
LEMMA ShowReads ==
  ASSUME Typed, NEW u \in Operators, loadDeadDelivery(u), request[u].id < MaxInt64
  PROVE  request'[u].answer = "found"
           <=> request[u].id \in DeadIn(deliveries, request[u].channel)
<1> DEFINE r == request[u]
           rows == ListDead(r.channel, CursorAbove(r.id), 1)
           S == DeadBefore(r.channel, r.id + 1)
           text == IF rows = <<>> \/ rows[1] # r.id THEN "not found" ELSE "found"
<1>1. u \in Users /\ r.op = "show" /\ r.id \in IDs /\ r.id < MaxInt64
      /\ request \in [Users -> Request]
  BY DEF Users, Typed, loadDeadDelivery
<1>2. CursorAbove(r.id) = r.id + 1 /\ r.id + 1 \in IDs /\ r.id \in Nat /\ r.id + 1 # 0
  BY <1>1, AdminPagesAssumption DEF CursorAbove, Wrap, IDs
<1>3. PageOf(rows, S, 1)
  BY <1>2, ListDeadPage
<1>4. Answer(u, text)
  BY DEF loadDeadDelivery
<1>5. request'[u].answer = text
  BY <1>1, <1>4, AnswerIsIdle, ZenonT(30) DEF Texts
<1>6. r.id \in S <=> r.id \in DeadIn(deliveries, r.channel)
  BY <1>2 DEF DeadBefore
<1>7. \A d \in S : d \in Int /\ d < r.id + 1
  BY <1>2, AdminPagesAssumption DEF DeadBefore, DeadIn, Typed
<1> HIDE DEF rows, S
<1>8. rows \in Seq(IDs) /\ Len(rows) \in Nat /\ Len(rows) <= 1
  BY <1>3 DEF PageOf
<1>9. CASE r.id \in S
  <2>1. Len(rows) = 1 /\ rows[1] = r.id
    <3>1. CASE \E i \in 1..Len(rows) : rows[i] = r.id
      <4>1. PICK i \in 1..Len(rows) : rows[i] = r.id
        BY <3>1
      <4>2. i = 1 /\ Len(rows) = 1
        <5>1. \A n \in Nat : \A k \in 1..n : n <= 1 => k = 1 /\ n = 1
          OBVIOUS
        <5> QED BY <1>8, <5>1
      <4> QED BY <4>1, <4>2
    <3>2. CASE Len(rows) = 1 /\ rows[1] > r.id
      <4>1. rows[1] \in S
        BY <1>3, <3>2 DEF PageOf
      <4>2. FALSE
        BY <1>2, <1>7, <3>2, <4>1
      <4> QED BY <4>2
    <3> QED BY <1>3, <1>9, <3>1, <3>2 DEF PageOf
  <2>2. rows # <<>>
    BY <2>1
  <2> QED BY <1>5, <1>6, <1>9, <2>1, <2>2
<1>10. CASE r.id \notin S
  <2>1. rows = <<>> \/ rows[1] # r.id
    <3> SUFFICES ASSUME rows # <<>>, rows[1] = r.id PROVE FALSE
      OBVIOUS
    <3>1. 1 \in 1..Len(rows)
      BY <1>8
    <3>2. rows[1] \in S
      BY <1>3, <3>1 DEF PageOf
    <3> QED BY <1>10, <3>2
  <2> QED BY <1>5, <1>6, <1>10, <2>1
<1> QED BY <1>9, <1>10

(* No page of a delivery below the largest id shows one that is not dead   *)
(* in that channel, or hides one that is.                                  *)
THEOREM ShowsTheDead == Spec => ShowsExactlyTheDead
<1> DEFINE Shows == \A o \in Operators :
                      Looked(o) /\ request[o].id < MaxInt64 => FoundWhenDead(o)
<1>1. Typed /\ [Next]_vars => [Shows]_vars
  <2> SUFFICES ASSUME Typed, Next, NEW b \in Operators,
                      request[b].op = "show", request[b].pc = "act",
                      request'[b].answer # "error", request'[b] # request[b],
                      request[b].id < MaxInt64
               PROVE  request'[b].answer = "found"
                        <=> request[b].id \in DeadIn(deliveries, request[b].channel)
    BY DEF vars, Looked, FoundWhenDead
  <2>0. b \in Users /\ request \in [Users -> Request]
    BY DEF Users, Typed
  <2>1. ASSUME NEW u \in Users, u # b, NEW q, request' = [request EXCEPT ![u] = q] PROVE FALSE
    BY <2>0, <2>1
  <2>2. ~RequestFails(b)
    <3> SUFFICES ASSUME RequestFails(b) PROVE FALSE
      OBVIOUS
    <3>1. request'[b].answer = "error"
      BY <2>0, AnswerIsIdle DEF RequestFails, Texts
    <3> QED BY <3>1
  <2>3. loadDeadDelivery(b)
    <3>1. ~Queue
      BY DEF Queue, Publish, Bury, Retire, DeleteChannel
    <3>2. ASSUME NEW u \in Users, resolveChannel(u) PROVE FALSE
      <4>1. u # b
        BY <3>2 DEF resolveChannel
      <4>2. request'[b] = request[b]
        BY <2>0, <3>2, <4>1 DEF resolveChannel, Answer
      <4> QED BY <4>2
    <3>3. ASSUME NEW u \in Users, RequestFails(u) PROVE FALSE
      <4>1. u # b
        BY <2>2, <3>3
      <4>2. request'[b] = request[b]
        BY <2>0, <3>3, <4>1 DEF RequestFails, Answer
      <4> QED BY <4>2
    <3>4. ASSUME NEW u \in Browsers, Browse(u) PROVE FALSE
      <4>0. u \in Users
        BY DEF Users
      <4>1. u # b
        BY <3>4 DEF Browse, OpenList, loadDeadList, FollowOlder, LeaveBrowse
      <4>2. request'[b] = request[b]
        BY <2>0, <3>4, <4>0, <4>1 DEF Browse, OpenList, Ask, loadDeadList, FollowOlder, LeaveBrowse
      <4> QED BY <4>2
    <3>5. ASSUME NEW u \in Operators, Operate(u), u # b PROVE FALSE
      <4>0. u \in Users
        BY DEF Users
      <4>2. request'[b] = request[b]
        BY <2>0, <3>5, <4>0 DEF Operate, OpenDelivery, PostAction, Ask, loadDeadDelivery,
                                Answer, RequeueDead, DeleteDead, deadAction
      <4> QED BY <4>2
    <3>6. Operate(b) => loadDeadDelivery(b)
      BY DEF Operate, OpenDelivery, PostAction, RequeueDead, DeleteDead, deadAction
    <3> QED BY <3>1, <3>2, <3>3, <3>4, <3>5, <3>6 DEF Next
  <2> QED BY <2>3, ShowReads
<1> QED BY <1>1, PagesInit, PagesStep, PTL DEF Spec, ShowsExactlyTheDead
=============================================================================
