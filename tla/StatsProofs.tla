---------------------------- MODULE StatsProofs -----------------------------
(***************************************************************************)
(* What is proved of the event counters and of the strips built from them, *)
(* for any number of processes, flushes, coordinates, days and batch       *)
(* sizes.                                                                  *)
(***************************************************************************)
EXTENDS StatsTrend, FiniteSetTheorems, WellFoundedInduction, TLAPS

----------------------------------------------------------------------------
(* Sums over finite sets.                                                  *)

(* A set of naturals is a predicate the provers can instantiate: induction *)
(* over the naturals and over the subsets of a finite set.                 *)
LEMMA NatIsInductive ==
  ASSUME NEW N \in SUBSET Nat, 0 \in N, \A n \in N : n + 1 \in N
  PROVE  N = Nat
<1> SUFFICES ASSUME Nat \ N # {} PROVE FALSE
  OBVIOUS
<1>1. PICK m \in Nat \ N : \A k \in Nat \ N : <<k, m>> \notin OpToRel(<, Nat)
  BY NatLessThanWellFounded, WFMin
<1>2. m - 1 \in Nat /\ m - 1 < m
  OBVIOUS
<1>3. m - 1 \in N
  BY <1>1, <1>2 DEF OpToRel
<1>4. (m - 1) + 1 = m
  OBVIOUS
<1>5. (m - 1) + 1 \in N
  BY <1>3, Zenon
<1> QED BY <1>4, <1>5, Zenon

Some(s) == CHOOSE x \in s : TRUE

LEMMA SomeIn ==
  ASSUME NEW S, IsFiniteSet(S), NEW s \in SUBSET S, s # {}
  PROVE  /\ Some(s) \in s /\ s \ {Some(s)} \in SUBSET S
         /\ IsFiniteSet(s) /\ Cardinality(s) \in Nat
         /\ Cardinality(s \ {Some(s)}) + 1 = Cardinality(s)
<1>1. Some(s) \in s
  BY DEF Some
<1>2. IsFiniteSet(s)
  BY FS_Subset
<1>3. Cardinality(s) \in Nat
  BY <1>2, FS_CardinalityType
<1>4. Cardinality(s \ {Some(s)}) = Cardinality(s) - 1
  BY <1>1, <1>2, FS_RemoveElement
<1> QED BY <1>1, <1>2, <1>3, <1>4

LEMMA SubsetsAreInductive ==
  ASSUME NEW S, IsFiniteSet(S), NEW Good, {} \in Good,
         \A s \in SUBSET S : s # {} /\ s \ {Some(s)} \in Good => s \in Good
  PROVE  SUBSET S \subseteq Good
<1> DEFINE N == {n \in Nat : \A s \in SUBSET S : Cardinality(s) = n => s \in Good}
<1>1. 0 \in N
  <2>1. \A s \in SUBSET S : Cardinality(s) = 0 => s = {}
    BY FS_EmptySet, FS_Subset
  <2> QED BY <2>1
<1>2. ASSUME NEW n \in N PROVE n + 1 \in N
  <2> SUFFICES ASSUME NEW s \in SUBSET S, Cardinality(s) = n + 1 PROVE s \in Good
    OBVIOUS
  <2>1. s # {}
    BY FS_EmptySet
  <2>2. s \ {Some(s)} \in SUBSET S /\ Cardinality(s \ {Some(s)}) + 1 = n + 1
    BY <2>1, SomeIn
  <2>3. Cardinality(s \ {Some(s)}) = n
    <3>1. Cardinality(s \ {Some(s)}) \in Nat
      BY <2>2, FS_Subset, FS_CardinalityType
    <3> QED BY <2>2, <3>1
  <2> QED BY <2>1, <2>2, <2>3
<1>3. N = Nat
  <2>1. N \in SUBSET Nat
    OBVIOUS
  <2> HIDE DEF N
  <2> QED BY <1>1, <1>2, <2>1, NatIsInductive
<1>4. \A s \in SUBSET S : Cardinality(s) \in Nat
  BY FS_Subset, FS_CardinalityType
<1> QED BY <1>3, <1>4

(* The function a fold iterates. *)
Sums(g, S, f) ==
  g = [s \in SUBSET S |-> IF s = {} THEN 0
                          ELSE f[CHOOSE x \in s : TRUE] + g[s \ {CHOOSE x \in s : TRUE}]]

LEMMA SumsExist ==
  ASSUME NEW S, IsFiniteSet(S), NEW f
  PROVE  \E g : Sums(g, S, f)
<1> DEFINE Upto(n) == {s \in SUBSET S : Cardinality(s) <= n}
           Part(g, n) == g = [s \in Upto(n) |-> IF s = {} THEN 0
                                                ELSE f[Some(s)] + g[s \ {Some(s)}]]
           N == {n \in Nat : \E g : Part(g, n)}
<1>0. \A s \in SUBSET S : Cardinality(s) \in Nat
  BY FS_Subset, FS_CardinalityType
<1>1. 0 \in N
  <2>1. \A s \in Upto(0) : s = {}
    BY <1>0, FS_EmptySet, FS_Subset
  <2> DEFINE g == [s \in Upto(0) |-> 0]
  <2> HIDE DEF Upto
  <2>2. Part(g, 0)
    BY <2>1
  <2> QED BY <2>2
<1>2. ASSUME NEW n \in N PROVE n + 1 \in N
  <2>1. PICK g : Part(g, n)
    OBVIOUS
  <2> DEFINE h == [s \in Upto(n + 1) |-> IF s = {} THEN 0
                                         ELSE f[Some(s)] + g[s \ {Some(s)}]]
  <2>2. n \in Nat /\ \A s \in Upto(n) : s \in Upto(n + 1)
    BY <1>0
  <2>3. \A s \in Upto(n + 1) : s # {} => s \ {Some(s)} \in Upto(n)
    BY <1>0, <2>2, SomeIn
  <2> HIDE DEF Upto
  <2>4. \A s \in Upto(n) : g[s] = h[s]
    BY <2>1, <2>2
  <2>5. \A s \in Upto(n + 1) : s # {} => g[s \ {Some(s)}] = h[s \ {Some(s)}]
    BY <2>3, <2>4
  <2>6. Part(h, n + 1)
    BY <2>5
  <2>7. \E k : Part(k, n + 1)
    BY <2>6, Zenon
  <2> HIDE DEF Part
  <2> QED BY <2>2, <2>7
<1>3. Cardinality(S) \in N
  <2> HIDE DEF N
  <2>1. N \subseteq Nat
    BY DEF N
  <2> QED BY <1>0, <1>1, <1>2, <2>1, NatIsInductive
<1>4. Upto(Cardinality(S)) = SUBSET S
  BY FS_Subset
<1>5. PICK g : Part(g, Cardinality(S))
  BY <1>3
<1>6. g = [s \in SUBSET S |-> IF s = {} THEN 0 ELSE f[Some(s)] + g[s \ {Some(s)}]]
  <2> HIDE DEF Upto
  <2> QED BY <1>4, <1>5, Zenon
<1> QED BY <1>6 DEF Sums, Some

(* The partial sums of f over the subsets of S. *)
PartialSums(g, S, f) ==
  /\ g[{}] = 0
  /\ \A s \in SUBSET S : s # {} => g[s] = f[Some(s)] + g[s \ {Some(s)}]

(* SumFunction is the last of them. *)
LEMMA SumIterates ==
  ASSUME NEW S, IsFiniteSet(S), NEW f, DOMAIN f = S
  PROVE  \E g : SumFunction(f) = g[S] /\ PartialSums(g, S, f)
<1> DEFINE g == CHOOSE g : Sums(g, S, f)
<1>1. SumFunction(f) = g[S]
  BY DEF SumFunction, SumFunctionOnSet, FoldFunctionOnSet, MapThenFoldSet, Sums
<1>2. Sums(g, S, f)
  BY SumsExist
<1> HIDE DEF g
<1>3. PartialSums(g, S, f)
  BY <1>2 DEF Sums, Some, PartialSums
<1> QED BY <1>1, <1>3

(* A sum of integers is one, of naturals too, and of zeros it is zero. *)
LEMMA SumType ==
  ASSUME NEW S, IsFiniteSet(S), NEW T \in {Nat, Int, {0}}, NEW f \in [S -> T]
  PROVE  SumFunction(f) \in T
<1>0. DOMAIN f = S
  OBVIOUS
<1>1. PICK g : SumFunction(f) = g[S] /\ PartialSums(g, S, f)
  BY <1>0, SumIterates
<1> DEFINE Good == {s \in SUBSET S : g[s] \in T}
<1>2. {} \in Good
  BY <1>1 DEF PartialSums
<1>3. ASSUME NEW s \in SUBSET S, s # {}, s \ {Some(s)} \in Good PROVE s \in Good
  <2>1. Some(s) \in S
    BY <1>3, SomeIn
  <2>2. f[Some(s)] \in T /\ g[s \ {Some(s)}] \in T
    BY <1>3, <2>1
  <2>3. \A a, b \in T : a + b \in T
    OBVIOUS
  <2> QED BY <1>1, <1>3, <2>2, <2>3 DEF PartialSums
<1>4. S \in Good
  <2> HIDE DEF Good
  <2> QED BY <1>2, <1>3, SubsetsAreInductive
<1> QED BY <1>1, <1>4

(* One term changes, and the sum by as much. *)
LEMMA SumChanges ==
  ASSUME NEW S, IsFiniteSet(S), NEW f \in [S -> Int], NEW h \in [S -> Int],
         NEW x \in S, \A y \in S : y # x => h[y] = f[y]
  PROVE  SumFunction(h) = SumFunction(f) + (h[x] - f[x])
<1>0. DOMAIN f = S /\ DOMAIN h = S
  OBVIOUS
<1>1. PICK F : SumFunction(f) = F[S] /\ PartialSums(F, S, f)
  BY <1>0, SumIterates
<1>2. PICK H : SumFunction(h) = H[S] /\ PartialSums(H, S, h)
  BY <1>0, SumIterates
<1> DEFINE delta(s) == IF x \in s THEN h[x] - f[x] ELSE 0
           Good == {s \in SUBSET S : F[s] \in Int /\ H[s] = F[s] + delta(s)}
<1>3. {} \in Good
  BY <1>1, <1>2 DEF PartialSums
<1>4. ASSUME NEW s \in SUBSET S, s # {}, s \ {Some(s)} \in Good PROVE s \in Good
  <2> DEFINE y == Some(s)
             t == s \ {y}
  <2>1. y \in s /\ t \in SUBSET S /\ y \in S
    BY <1>4, SomeIn
  <2>2. F[t] \in Int /\ H[t] = F[t] + delta(t)
    BY <1>4
  <2>3. F[s] = f[y] + F[t] /\ H[s] = h[y] + H[t]
    BY <1>1, <1>2, <1>4 DEF PartialSums
  <2>4. f[y] \in Int /\ h[y] \in Int /\ f[x] \in Int /\ h[x] \in Int
    BY <2>1
  <2> HIDE DEF y
  <2>5. CASE y = x
    BY <2>1, <2>2, <2>3, <2>4, <2>5
  <2>6. CASE y # x
    BY <2>1, <2>2, <2>3, <2>4, <2>6
  <2> QED BY <2>5, <2>6
<1>5. S \in Good
  <2> HIDE DEF Good
  <2> QED BY <1>3, <1>4, SubsetsAreInductive
<1> QED BY <1>1, <1>2, <1>5
----------------------------------------------------------------------------
(* Types of the state. *)

Counts == [Coords -> Nat]

FlushCall == [pc : {"idle", "filter", "upsert"}, pending : Counts,
              order : SUBSET Coords, kept : SUBSET Coords]

SinkTypes ==
  /\ live \subseteq Coords
  /\ events \in Counts /\ forgotten \in Counts /\ repeated \in Counts
  /\ unrecorded \in [Procs -> Counts] /\ statBuf \in [Procs -> Counts]
  /\ table \in [Days -> Counts]
  /\ today \in Days
  /\ flush \in [Calls -> FlushCall]
  /\ doomed \in [Procs -> SUBSET Coords]

(* Coordinates a cascade has yet to discard are not live.  A coordinate    *)
(* with a pending delta that is live has not been filtered out.            *)
DoomedGone == \A p \in Procs : doomed[p] \cap live = {}

FilterComplete ==
  \A f \in Calls : flush[f].pc = "filter" =>
    \A c \in live : flush[f].pending[c] = 0 \/ c \in flush[f].order \cup flush[f].kept

SinkInv == SinkTypes /\ DoomedGone /\ FilterComplete /\ CountsConserved

LEMMA PlusCounts ==
  ASSUME NEW f \in Counts, NEW g \in Counts
  PROVE  Plus(f, g) \in Counts /\ \A c \in Coords : Plus(f, g)[c] = f[c] + g[c]
BY DEF Counts, Plus

LEMMA OnlyCounts ==
  ASSUME NEW f \in Counts, NEW S
  PROVE  /\ Only(f, S) \in Counts
         /\ \A c \in Coords : Only(f, S)[c] = IF c \in S THEN f[c] ELSE 0
BY DEF Counts, Only

LEMMA ZeroCounts == Zero \in Counts /\ \A c \in Coords : Zero[c] = 0
BY DEF Zero, Counts

LEMMA NoFlushType ==
  /\ NoFlush \in FlushCall /\ NoFlush.pc = "idle"
BY ZeroCounts DEF NoFlush, FlushCall

LEMMA BatchIn ==
  ASSUME NEW order
  PROVE  Batch(order) \subseteq order
BY DEF Batch

(* The days are finitely many. *)
LEMMA DaysFinite == IsFiniteSet(Days) /\ Days \subseteq Nat
<1>1. MaxDay \in Nat
  BY StatsSinkAssumption
<1> QED BY <1>1, FS_Interval DEF Days

(* The sums of a state are numbers. *)
LEMMA HeldTypes ==
  ASSUME SinkTypes, NEW c \in Coords
  PROVE  /\ \A f \in Calls : InFlush(f, c) \in Nat
         /\ \A p \in Procs : InFlushes(p, c) \in Nat /\ Held(p, c) \in Nat
<1>1. ASSUME NEW f \in Calls PROVE InFlush(f, c) \in Nat
  <2>1. flush[f].pc \in {"idle", "filter", "upsert"} /\ flush[f].pending[c] \in Nat
    BY DEF SinkTypes, FlushCall, Counts
  <2> QED BY <2>1 DEF InFlush
<1>2. ASSUME NEW p \in Procs PROVE InFlushes(p, c) \in Nat /\ Held(p, c) \in Nat
  <2> DEFINE t == [i \in Flushers |-> InFlush(<<p, i>>, c)]
  <2>1. t \in [Flushers -> Nat]
    BY <1>1 DEF Calls
  <2>2. SumFunction(t) \in Nat
    <3> HIDE DEF t
    <3> QED BY <2>1, SumType, StatsSinkAssumption
  <2>3. unrecorded[p][c] \in Nat /\ statBuf[p][c] \in Nat
    BY DEF SinkTypes, Counts
  <2> QED BY <2>2, <2>3 DEF InFlushes, Held
<1> QED BY <1>1, <1>2

LEMMA HeldTypesNext ==
  ASSUME SinkTypes', NEW c \in Coords
  PROVE  /\ \A f \in Calls : InFlush(f, c)' \in Nat
         /\ \A p \in Procs : InFlushes(p, c)' \in Nat /\ Held(p, c)' \in Nat
<1>1. ASSUME NEW f \in Calls PROVE InFlush(f, c)' \in Nat
  <2>1. flush'[f].pc \in {"idle", "filter", "upsert"} /\ flush'[f].pending[c] \in Nat
    BY DEF SinkTypes, FlushCall, Counts
  <2> QED BY <2>1 DEF InFlush
<1>2. ASSUME NEW p \in Procs PROVE InFlushes(p, c)' \in Nat /\ Held(p, c)' \in Nat
  <2> DEFINE t == [i \in Flushers |-> InFlush(<<p, i>>, c)']
  <2>1. t \in [Flushers -> Nat]
    BY <1>1 DEF Calls
  <2>2. SumFunction(t) \in Nat
    <3> HIDE DEF t
    <3> QED BY <2>1, SumType, StatsSinkAssumption
  <2>3. unrecorded'[p][c] \in Nat /\ statBuf'[p][c] \in Nat
    BY DEF SinkTypes, Counts
  <2> QED BY <2>2, <2>3 DEF InFlushes, Held
<1> QED BY <1>1, <1>2
----------------------------------------------------------------------------
(* What a step changes in the sums. *)

AllHeld(c)  == SumFunction([q \in Procs |-> Held(q, c)])
Recorded(c) == SumFunction([e \in Days |-> table[e][c]])

(* The deltas of one process change, those of every other one do not. *)
LEMMA ProcStep ==
  ASSUME SinkTypes, SinkTypes', NEW p \in Procs, NEW c \in Coords,
         \A q \in Procs : q # p => Held(q, c)' = Held(q, c)
  PROVE  AllHeld(c)' = AllHeld(c) + (Held(p, c)' - Held(p, c))
<1> DEFINE old == [q \in Procs |-> Held(q, c)]
           new == [q \in Procs |-> Held(q, c)']
<1>1. old \in [Procs -> Int] /\ new \in [Procs -> Int]
  BY HeldTypes, HeldTypesNext
<1>2. \A q \in Procs : q # p => new[q] = old[q]
  OBVIOUS
<1>3. old[p] = Held(p, c) /\ new[p] = Held(p, c)'
  OBVIOUS
<1>4. SumFunction(new) = SumFunction(old) + (new[p] - old[p])
  <2> HIDE DEF old, new
  <2> QED BY <1>1, <1>2, SumChanges, StatsSinkAssumption
<1> QED BY <1>3, <1>4 DEF AllHeld, Recorded

(* No process's deltas change. *)
LEMMA ProcsStay ==
  ASSUME NEW c \in Coords, \A q \in Procs : Held(q, c)' = Held(q, c)
  PROVE  AllHeld(c)' = AllHeld(c)
<1>1. [q \in Procs |-> Held(q, c)'] = [q \in Procs |-> Held(q, c)]
  OBVIOUS
<1> QED BY <1>1 DEF AllHeld

(* What a flush has to write, by its program counter. *)
LEMMA InFlushIs ==
  ASSUME SinkTypes, NEW f \in Calls, NEW c \in Coords
  PROVE  InFlush(f, c) =
           IF flush[f].pc = "filter" \/ (flush[f].pc = "upsert" /\ c \in flush[f].order)
             THEN flush[f].pending[c] ELSE 0
<1>1. flush[f].pc \in {"idle", "filter", "upsert"}
  BY DEF SinkTypes, FlushCall
<1> QED BY <1>1 DEF InFlush

LEMMA InFlushNext ==
  ASSUME SinkTypes', NEW f \in Calls, NEW c \in Coords
  PROVE  InFlush(f, c)' =
           IF flush'[f].pc = "filter" \/ (flush'[f].pc = "upsert" /\ c \in flush'[f].order)
             THEN flush'[f].pending[c] ELSE 0
<1>1. flush'[f].pc \in {"idle", "filter", "upsert"}
  BY DEF SinkTypes, FlushCall
<1> QED BY <1>1 DEF InFlush

(* A process whose flushes do not change. *)
LEMMA FlushesStay ==
  ASSUME SinkTypes, SinkTypes', NEW p \in Procs, NEW c \in Coords, \A i \in Flushers : flush'[<<p, i>>] = flush[<<p, i>>]
  PROVE  InFlushes(p, c)' = InFlushes(p, c)
<1>1. [i \in Flushers |-> InFlush(<<p, i>>, c)'] = [i \in Flushers |-> InFlush(<<p, i>>, c)]
  <2>1. \A i \in Flushers : <<p, i>> \in Calls
    BY DEF Calls
  <2> QED BY <2>1, InFlushIs, InFlushNext
<1> QED BY <1>1 DEF InFlushes

(* One of its flushes changes. *)
LEMMA FlushStep ==
  ASSUME SinkTypes, SinkTypes', NEW f \in Calls, NEW c \in Coords,
         \A g \in Calls : g # f => flush'[g] = flush[g]
  PROVE  /\ InFlushes(f[1], c)' = InFlushes(f[1], c) + (InFlush(f, c)' - InFlush(f, c))
         /\ \A q \in Procs : q # f[1] => InFlushes(q, c)' = InFlushes(q, c)
<1> DEFINE p == f[1]
           i == f[2]
           old == [j \in Flushers |-> InFlush(<<p, j>>, c)]
           new == [j \in Flushers |-> InFlush(<<p, j>>, c)']
<1>0. p \in Procs /\ i \in Flushers /\ f = <<p, i>>
  BY DEF Calls
<1>1. old \in [Flushers -> Int] /\ new \in [Flushers -> Int]
  <2>1. \A j \in Flushers : <<p, j>> \in Calls
    BY <1>0 DEF Calls
  <2> QED BY <2>1, HeldTypes, HeldTypesNext
<1>2. ASSUME NEW j \in Flushers, j # i PROVE new[j] = old[j]
  <2>1. <<p, j>> \in Calls /\ <<p, j>> # f
    BY <1>0, <1>2 DEF Calls
  <2>2. flush'[<<p, j>>] = flush[<<p, j>>]
    BY <2>1
  <2> QED BY <2>1, <2>2, InFlushIs, InFlushNext
<1>3. old[i] = InFlush(f, c) /\ new[i] = InFlush(f, c)'
  BY <1>0
<1>4. SumFunction(new) = SumFunction(old) + (new[i] - old[i])
  <2> HIDE DEF old, new, p, i
  <2> QED BY <1>0, <1>1, <1>2, SumChanges, StatsSinkAssumption
<1>5. InFlushes(p, c) = SumFunction(old) /\ InFlushes(p, c)' = SumFunction(new)
  BY DEF InFlushes
<1>6. ASSUME NEW q \in Procs, q # f[1] PROVE InFlushes(q, c)' = InFlushes(q, c)
  <2>1. \A j \in Flushers : <<q, j>> \in Calls /\ <<q, j>> # f
    BY <1>0, <1>6 DEF Calls
  <2> QED BY <2>1, FlushesStay
<1> QED BY <1>3, <1>4, <1>5, <1>6

(* One day's bucket changes. *)
LEMMA DayStep ==
  ASSUME SinkTypes, SinkTypes', NEW d \in Days, NEW c \in Coords,
         \A e \in Days : e # d => table'[e][c] = table[e][c]
  PROVE  Recorded(c)' = Recorded(c) + (table'[d][c] - table[d][c])
<1> DEFINE old == [e \in Days |-> table[e][c]]
           new == [e \in Days |-> table'[e][c]]
<1>1. old \in [Days -> Int] /\ new \in [Days -> Int]
  BY DEF SinkTypes, Counts
<1>2. \A e \in Days : e # d => new[e] = old[e]
  OBVIOUS
<1>3. old[d] = table[d][c] /\ new[d] = table'[d][c]
  OBVIOUS
<1>4. SumFunction(new) = SumFunction(old) + (new[d] - old[d])
  <2> HIDE DEF old, new
  <2> QED BY <1>1, <1>2, SumChanges, DaysFinite
<1> QED BY <1>3, <1>4 DEF AllHeld, Recorded

LEMMA DaysStay ==
  ASSUME NEW c \in Coords, \A d \in Days : table'[d][c] = table[d][c]
  PROVE  Recorded(c)' = Recorded(c)
<1>1. [e \in Days |-> table'[e][c]] = [e \in Days |-> table[e][c]]
  OBVIOUS
<1> QED BY <1>1 DEF Recorded

(* All sums are numbers. *)
LEMMA SumsTyped ==
  ASSUME SinkTypes, NEW c \in Coords
  PROVE  AllHeld(c) \in Nat /\ Recorded(c) \in Nat
<1> DEFINE h == [q \in Procs |-> Held(q, c)]
           t == [e \in Days |-> table[e][c]]
<1>1. h \in [Procs -> Nat] /\ t \in [Days -> Nat]
  BY HeldTypes DEF SinkTypes, Counts
<1> HIDE DEF h, t
<1>2. SumFunction(h) \in Nat /\ SumFunction(t) \in Nat
  BY <1>1, SumType, DaysFinite, StatsSinkAssumption
<1> QED BY <1>2 DEF h, t, AllHeld, Recorded

----------------------------------------------------------------------------
(* Types. *)

LEMMA TypesInit == Init => SinkTypes
<1> SUFFICES ASSUME Init PROVE SinkTypes
  OBVIOUS
<1>1. 0 \in Days
  BY StatsSinkAssumption DEF Days
<1> QED BY <1>1, ZeroCounts, NoFlushType DEF Init, SinkTypes

(* The steps of a flush. *)
LEMMA TypesFlush ==
  ASSUME SinkTypes, NEW f \in Calls, FlushStats(f)
  PROVE  SinkTypes'
<1> DEFINE p == f[1]
           r == flush[f]
           b == Batch(r.order)
<1>0. /\ p \in Procs /\ r \in FlushCall /\ b \subseteq r.order /\ r.order \subseteq Coords
      /\ r.kept \subseteq Coords /\ r.pending \in Counts
  BY BatchIn DEF Calls, SinkTypes, FlushCall
<1>1. CASE FlushTake(f)
  <2> DEFINE q == [pc |-> "filter", pending |-> statBuf[p],
                   order |-> {c \in Coords : statBuf[p][c] > 0}, kept |-> {}]
  <2>1. q \in FlushCall
    BY <1>0 DEF SinkTypes, FlushCall
  <2>2. /\ flush' = [flush EXCEPT ![f] = q] /\ statBuf' = [statBuf EXCEPT ![p] = Zero]
        /\ UNCHANGED <<live, events, unrecorded, table, today, doomed, forgotten, repeated>>
    BY <1>1 DEF FlushTake
  <2> HIDE DEF q, p
  <2> QED BY <2>1, <2>2, ZeroCounts DEF SinkTypes
<1>2. CASE FlushFilter(f)
  <2> DEFINE kept == r.kept \cup LiveIn(b)
             q == IF r.order \ b # {} THEN [r EXCEPT !.order = r.order \ b, !.kept = kept]
                  ELSE IF kept = {} THEN NoFlush
                  ELSE [r EXCEPT !.pc = "upsert", !.order = kept, !.kept = {}]
  <2>1. kept \subseteq Coords
    BY <1>0 DEF LiveIn, SinkTypes
  <2>2. /\ flush' = [flush EXCEPT ![f] = q]
        /\ UNCHANGED <<live, events, unrecorded, statBuf, table, today, doomed, forgotten, repeated>>
    BY <1>2 DEF FlushFilter
  <2>3. q \in FlushCall
    <3> HIDE DEF kept, b
    <3> QED BY <1>0, <2>1, NoFlushType DEF FlushCall
  <2> HIDE DEF q
  <2> QED BY <2>2, <2>3 DEF SinkTypes
<1>3. CASE FlushFilterFails(f)
  <2> DEFINE n == Plus(statBuf[p], r.pending)
  <2>1. n \in Counts
    BY <1>0, PlusCounts, OnlyCounts DEF SinkTypes
  <2>2. /\ statBuf' = [statBuf EXCEPT ![p] = n] /\ flush' = [flush EXCEPT ![f] = NoFlush]
        /\ UNCHANGED <<live, events, unrecorded, table, today, doomed, forgotten, repeated>>
    BY <1>3 DEF FlushFilterFails
  <2> HIDE DEF n
  <2> QED BY <2>1, <2>2, NoFlushType DEF SinkTypes
<1>4. Upserted(f) \in [Days -> Counts]
  <2> DEFINE n == Plus(table[today], Only(r.pending, b))
  <2>1. n \in Counts
    BY <1>0, PlusCounts, OnlyCounts DEF SinkTypes
  <2>2. Upserted(f) = [table EXCEPT ![today] = n]
    BY DEF Upserted, Landing
  <2> HIDE DEF n
  <2> QED BY <2>1, <2>2 DEF SinkTypes
<1>5. CASE FlushUpsert(f)
  <2> DEFINE q == IF r.order \ b = {} THEN NoFlush ELSE [r EXCEPT !.order = r.order \ b]
  <2>1. /\ table' = Upserted(f) /\ flush' = [flush EXCEPT ![f] = q]
        /\ UNCHANGED <<live, events, unrecorded, statBuf, today, doomed, forgotten, repeated>>
    BY <1>5 DEF FlushUpsert
  <2>2. q \in FlushCall
    <3> HIDE DEF b
    <3> QED BY <1>0, NoFlushType DEF FlushCall
  <2> HIDE DEF q
  <2> QED BY <1>4, <2>1, <2>2 DEF SinkTypes
<1>6. CASE FlushUpsertFails(f)
  <2> DEFINE n == Plus(statBuf[p], Remaining(f))
             m == Plus(repeated, Only(r.pending, b))
  <2>0. Remaining(f) \in Counts /\ Only(r.pending, b) \in Counts
    BY <1>0, OnlyCounts DEF Remaining
  <2>1. n \in Counts /\ m \in Counts
    BY <1>0, <2>0, PlusCounts DEF SinkTypes
  <2>2. /\ statBuf' = [statBuf EXCEPT ![p] = n] /\ flush' = [flush EXCEPT ![f] = NoFlush]
        /\ table' \in {table, Upserted(f)} /\ repeated' \in {repeated, m}
        /\ UNCHANGED <<live, events, unrecorded, today, doomed, forgotten>>
    BY <1>6 DEF FlushUpsertFails
  <2> HIDE DEF n, m
  <2> QED BY <1>4, <2>1, <2>2, NoFlushType DEF SinkTypes
<1> QED BY <1>1, <1>2, <1>3, <1>5, <1>6 DEF FlushStats

LEMMA TypesStep ==
  ASSUME SinkTypes, [Next]_vars
  PROVE  SinkTypes'
<1>1. ASSUME NEW p \in Procs, NEW c \in Coords, Mutate(p, c) \/ recordStat(p, c)
      PROVE  SinkTypes'
  <2>0. /\ unrecorded[p] \in Counts /\ statBuf[p] \in Counts
        /\ unrecorded[p][c] \in Nat /\ statBuf[p][c] \in Nat /\ events[c] \in Nat
    BY DEF SinkTypes, Counts
  <2>1. CASE Mutate(p, c)
    <3> DEFINE n == [unrecorded[p] EXCEPT ![c] = @ + 1]
               e == [events EXCEPT ![c] = @ + 1]
    <3>1. n \in Counts /\ e \in Counts
      BY <2>0 DEF SinkTypes, Counts
    <3>2. /\ unrecorded' = [unrecorded EXCEPT ![p] = n] /\ events' = e
          /\ UNCHANGED <<live, statBuf, table, today, flush, doomed, forgotten, repeated>>
      BY <2>1 DEF Mutate
    <3> HIDE DEF n, e
    <3> QED BY <3>1, <3>2 DEF SinkTypes
  <2>2. CASE recordStat(p, c)
    <3>1. unrecorded[p][c] - 1 \in Nat
      BY <2>0, <2>2 DEF recordStat
    <3> DEFINE n == [unrecorded[p] EXCEPT ![c] = @ - 1]
               b == [statBuf[p] EXCEPT ![c] = @ + 1]
    <3>2. n \in Counts /\ b \in Counts
      BY <2>0, <3>1 DEF Counts
    <3>3. /\ unrecorded' = [unrecorded EXCEPT ![p] = n] /\ statBuf' = [statBuf EXCEPT ![p] = b]
          /\ UNCHANGED <<live, events, table, today, flush, doomed, forgotten, repeated>>
      BY <2>2 DEF recordStat
    <3> HIDE DEF n, b
    <3> QED BY <3>2, <3>3 DEF SinkTypes
  <2> QED BY <1>1, <2>1, <2>2
<1>2. ASSUME NEW p \in Procs, NEW S \in SUBSET Coords, Cascade(p, S) PROVE SinkTypes'
  <2>1. \A d \in Days : Only(table[d], Coords \ S) \in Counts
    BY OnlyCounts DEF SinkTypes
  <2>2. table' \in [Days -> Counts]
    BY <1>2, <2>1 DEF Cascade
  <2> QED BY <1>2, <2>2 DEF Cascade, SinkTypes
<1>3. ASSUME NEW p \in Procs, discardStats(p) PROVE SinkTypes'
  <2> DEFINE n == Only(statBuf[p], Coords \ doomed[p])
  <2>1. n \in Counts
    BY OnlyCounts DEF SinkTypes
  <2>2. /\ statBuf' = [statBuf EXCEPT ![p] = n] /\ doomed' = [doomed EXCEPT ![p] = {}]
        /\ UNCHANGED <<live, events, unrecorded, table, today, flush, forgotten, repeated>>
    BY <1>3 DEF discardStats
  <2> HIDE DEF n
  <2> QED BY <2>1, <2>2 DEF SinkTypes
<1>4. ASSUME NEW p \in Procs, Crash(p) PROVE SinkTypes'
  <2>1. forgotten' \in Counts
    BY <1>4, HeldTypes DEF Crash, SinkTypes, Counts
  <2>2. flush' \in [Calls -> FlushCall]
    BY <1>4, NoFlushType DEF Crash, SinkTypes
  <2> QED BY <1>4, <2>1, <2>2, ZeroCounts DEF Crash, SinkTypes
<1>5. ASSUME NEW f \in Calls, FlushStats(f) PROVE SinkTypes'
  BY <1>5, TypesFlush
<1>6. CASE PruneStats
  <2>1. PICK d \in Days, c \in Coords :
          /\ table' = [table EXCEPT ![d][c] = 0]
          /\ forgotten' = [forgotten EXCEPT ![c] = @ + table[d][c]]
          /\ UNCHANGED <<live, events, unrecorded, statBuf, today, flush, doomed, repeated>>
    BY <1>6 DEF PruneStats
  <2>2. table[d] \in Counts /\ table[d][c] \in Nat /\ forgotten[c] \in Nat
    BY DEF SinkTypes, Counts
  <2> DEFINE t == [table[d] EXCEPT ![c] = 0]
             g == [forgotten EXCEPT ![c] = @ + table[d][c]]
  <2>a. t \in Counts /\ g \in Counts
    BY <2>2 DEF SinkTypes, Counts
  <2>b. table' = [table EXCEPT ![d] = t] /\ forgotten' = g
    BY <2>1
  <2> HIDE DEF t, g
  <2>3. table' \in [Days -> Counts]
    BY <2>a, <2>b DEF SinkTypes
  <2>4. forgotten' \in Counts
    BY <2>a, <2>b
  <2> QED BY <2>1, <2>3, <2>4 DEF SinkTypes
<1>7. CASE NewDay
  <2>1. today' \in Days
    BY <1>7, StatsSinkAssumption DEF NewDay, SinkTypes, Days
  <2> QED BY <1>7, <2>1 DEF NewDay, SinkTypes
<1>8. CASE UNCHANGED vars
  BY <1>8 DEF vars, SinkTypes
<1> QED BY <1>1, <1>2, <1>3, <1>4, <1>5, <1>6, <1>7, <1>8 DEF Next

----------------------------------------------------------------------------
(* Conservation. *)

Balanced(c) == events[c] + repeated[c] = forgotten[c] + AllHeld(c) + Recorded(c)

LEMMA SumsTypedNext ==
  ASSUME SinkTypes', NEW c \in Coords
  PROVE  AllHeld(c)' \in Nat /\ Recorded(c)' \in Nat
<1> DEFINE h == [q \in Procs |-> Held(q, c)']
           t == [e \in Days |-> table'[e][c]]
<1>1. h \in [Procs -> Nat] /\ t \in [Days -> Nat]
  BY HeldTypesNext DEF SinkTypes, Counts
<1> HIDE DEF h, t
<1>2. SumFunction(h) \in Nat /\ SumFunction(t) \in Nat
  BY <1>1, SumType, DaysFinite, StatsSinkAssumption
<1> QED BY <1>2 DEF h, t, AllHeld, Recorded

(* A step of one process outside its flushes. *)
LEMMA BufferStep ==
  ASSUME SinkTypes, SinkTypes', NEW p \in Procs, NEW c \in Coords, flush' = flush,
         \A q \in Procs : q # p => /\ unrecorded'[q] = unrecorded[q]
                                   /\ statBuf'[q] = statBuf[q]
  PROVE  AllHeld(c)' = AllHeld(c) + (unrecorded'[p][c] - unrecorded[p][c])
                                  + (statBuf'[p][c] - statBuf[p][c])
<1>1. \A q \in Procs : InFlushes(q, c)' = InFlushes(q, c)
  BY FlushesStay
<1>2. \A q \in Procs : q # p => Held(q, c)' = Held(q, c)
  BY <1>1 DEF Held
<1>3. AllHeld(c)' = AllHeld(c) + (Held(p, c)' - Held(p, c))
  BY <1>2, ProcStep
<1>4. /\ InFlushes(p, c)' = InFlushes(p, c) /\ InFlushes(p, c) \in Nat /\ AllHeld(c) \in Nat
      /\ unrecorded[p][c] \in Nat /\ unrecorded'[p][c] \in Nat
      /\ statBuf[p][c] \in Nat /\ statBuf'[p][c] \in Nat
  BY <1>1, HeldTypes, SumsTyped DEF SinkTypes, Counts
<1>5. /\ Held(p, c) = unrecorded[p][c] + statBuf[p][c] + InFlushes(p, c)
      /\ Held(p, c)' = unrecorded'[p][c] + statBuf'[p][c] + InFlushes(p, c)
  BY <1>4 DEF Held
<1> QED BY <1>3, <1>4, <1>5

(* A step of one flush, which may also write its process's buffer. *)
LEMMA CallStep ==
  ASSUME SinkTypes, SinkTypes', NEW f \in Calls, NEW c \in Coords,
         \A g \in Calls : g # f => flush'[g] = flush[g],
         unrecorded' = unrecorded,
         \A q \in Procs : q # f[1] => statBuf'[q] = statBuf[q]
  PROVE  AllHeld(c)' = AllHeld(c) + (statBuf'[f[1]][c] - statBuf[f[1]][c])
                                  + (InFlush(f, c)' - InFlush(f, c))
<1> DEFINE p == f[1]
<1>0. p \in Procs
  BY DEF Calls
<1>1. /\ InFlushes(p, c)' = InFlushes(p, c) + (InFlush(f, c)' - InFlush(f, c))
      /\ \A q \in Procs : q # p => InFlushes(q, c)' = InFlushes(q, c)
  BY FlushStep
<1>2. \A q \in Procs : q # p => Held(q, c)' = Held(q, c)
  BY <1>1 DEF Held
<1>3. AllHeld(c)' = AllHeld(c) + (Held(p, c)' - Held(p, c))
  BY <1>0, <1>2, ProcStep
<1>4. /\ InFlushes(p, c) \in Nat /\ AllHeld(c) \in Nat
      /\ unrecorded[p][c] \in Nat
      /\ statBuf[p][c] \in Nat /\ statBuf'[p][c] \in Nat
      /\ InFlush(f, c) \in Nat /\ InFlush(f, c)' \in Nat
  BY <1>0, HeldTypes, HeldTypesNext, SumsTyped DEF SinkTypes, Counts
<1>5. /\ Held(p, c) = unrecorded[p][c] + statBuf[p][c] + InFlushes(p, c)
      /\ Held(p, c)' = unrecorded[p][c] + statBuf'[p][c] + InFlushes(p, c)'
  BY DEF Held
<1> HIDE DEF p
<1>6. Held(p, c)' - Held(p, c) = (statBuf'[p][c] - statBuf[p][c])
                                   + (InFlush(f, c)' - InFlush(f, c))
  BY <1>1, <1>4, <1>5
<1> QED BY <1>3, <1>4, <1>6 DEF p

(* The parts of the invariant that a step which touches neither flushes    *)
(* nor cascades keeps.                                                     *)
LEMMA QuietParts ==
  ASSUME SinkInv, live' = live, doomed' = doomed, flush' = flush
  PROVE  DoomedGone' /\ FilterComplete'
BY DEF SinkInv, DoomedGone, FilterComplete

LEMMA ConservedInit == Init => SinkInv
<1> SUFFICES ASSUME Init PROVE SinkInv
  OBVIOUS
<1>1. SinkTypes
  BY TypesInit
<1>2. DoomedGone
  BY DEF Init, DoomedGone
<1>3. FilterComplete
  BY NoFlushType DEF Init, FilterComplete
<1>4. ASSUME NEW c \in live PROVE Balanced(c)
  <2>0. c \in Coords
    BY DEF Init
  <2>1. ASSUME NEW p \in Procs PROVE Held(p, c) = 0
    <3> DEFINE t == [i \in Flushers |-> InFlush(<<p, i>>, c)]
    <3>1. \A i \in Flushers : <<p, i>> \in Calls /\ flush[<<p, i>>] = NoFlush
      BY DEF Init, Calls
    <3>2. t \in [Flushers -> {0}]
      BY <3>1, NoFlushType DEF InFlush
    <3>3. SumFunction(t) \in {0}
      <4> HIDE DEF t
      <4> QED BY <3>2, SumType, StatsSinkAssumption
    <3>4. unrecorded[p][c] = 0 /\ statBuf[p][c] = 0
      BY <2>0, ZeroCounts DEF Init
    <3> QED BY <3>3, <3>4 DEF Held, InFlushes
  <2>2. AllHeld(c) = 0
    <3> DEFINE t == [p \in Procs |-> Held(p, c)]
    <3>1. t \in [Procs -> {0}]
      BY <2>1
    <3>2. SumFunction(t) \in {0}
      <4> HIDE DEF t
      <4> QED BY <3>1, SumType, StatsSinkAssumption
    <3> QED BY <3>2 DEF AllHeld
  <2>3. Recorded(c) = 0
    <3> DEFINE t == [d \in Days |-> table[d][c]]
    <3>1. t \in [Days -> {0}]
      BY <2>0, ZeroCounts DEF Init
    <3>2. SumFunction(t) \in {0}
      <4> HIDE DEF t
      <4> QED BY <3>1, SumType, DaysFinite
    <3> QED BY <3>2 DEF Recorded
  <2>4. events[c] = 0 /\ repeated[c] = 0 /\ forgotten[c] = 0
    BY <2>0, ZeroCounts DEF Init
  <2> QED BY <2>2, <2>3, <2>4 DEF Balanced
<1> QED BY <1>1, <1>2, <1>3, <1>4 DEF SinkInv, CountsConserved, Balanced, AllHeld, Recorded

(* It is enough to follow one live coordinate through a step. *)
LEMMA StepKeeps ==
  ASSUME SinkInv, [Next]_vars, live' \subseteq live, DoomedGone', FilterComplete',
         \A c \in live' :
           (events'[c] - events[c]) + (repeated'[c] - repeated[c]) =
             (forgotten'[c] - forgotten[c]) + (AllHeld(c)' - AllHeld(c))
                                            + (Recorded(c)' - Recorded(c))
  PROVE  SinkInv'
<1>1. SinkTypes /\ SinkTypes'
  BY TypesStep DEF SinkInv
<1>2. ASSUME NEW c \in live' PROVE Balanced(c)'
  <2>1. c \in Coords /\ c \in live
    BY <1>1 DEF SinkTypes
  <2>2. /\ events[c] \in Nat /\ repeated[c] \in Nat /\ forgotten[c] \in Nat
        /\ events'[c] \in Nat /\ repeated'[c] \in Nat /\ forgotten'[c] \in Nat
    BY <1>1, <2>1 DEF SinkTypes, Counts
  <2>3. /\ AllHeld(c) \in Nat /\ Recorded(c) \in Nat
        /\ AllHeld(c)' \in Nat /\ Recorded(c)' \in Nat
    BY <1>1, <2>1, SumsTyped, SumsTypedNext
  <2>4. events[c] + repeated[c] = forgotten[c] + AllHeld(c) + Recorded(c)
    BY <2>1 DEF SinkInv, CountsConserved, AllHeld, Recorded
  <2>5. (events'[c] - events[c]) + (repeated'[c] - repeated[c]) =
          (forgotten'[c] - forgotten[c]) + (AllHeld(c)' - AllHeld(c))
                                         + (Recorded(c)' - Recorded(c))
    OBVIOUS
  <2>6. events'[c] + repeated'[c] = forgotten'[c] + AllHeld(c)' + Recorded(c)'
    <3> DEFINE e == events[c]      en == events'[c]
               r == repeated[c]    rn == repeated'[c]
               g == forgotten[c]   gn == forgotten'[c]
               h == AllHeld(c)     hn == AllHeld(c)'
               t == Recorded(c)    tn == Recorded(c)'
    <3>1. /\ e \in Int /\ r \in Int /\ g \in Int /\ h \in Int /\ t \in Int
          /\ en \in Int /\ rn \in Int /\ gn \in Int /\ hn \in Int /\ tn \in Int
      BY <2>2, <2>3
    <3>2. e + r = g + h + t /\ (en - e) + (rn - r) = (gn - g) + (hn - h) + (tn - t)
      BY <2>4, <2>5
    <3> HIDE DEF e, en, r, rn, g, gn, h, hn, t, tn
    <3>3. en + rn = gn + hn + tn
      BY <3>1, <3>2
    <3> QED BY <3>3 DEF en, rn, gn, hn, tn
  <2> QED BY <2>6 DEF Balanced
<1> QED BY <1>1, <1>2 DEF SinkInv, CountsConserved, Balanced, AllHeld, Recorded

LEMMA MutateKeeps ==
  ASSUME SinkInv, Next, NEW p \in Procs, NEW e \in Coords, Mutate(p, e) \/ recordStat(p, e)
  PROVE  SinkInv'
<1>1. SinkTypes /\ SinkTypes'
  BY TypesStep DEF SinkInv
<1>2. /\ UNCHANGED <<live, table, flush, doomed, forgotten, repeated>>
      /\ \A q \in Procs : q # p => unrecorded'[q] = unrecorded[q] /\ statBuf'[q] = statBuf[q]
  BY <1>1 DEF Mutate, recordStat, SinkTypes
<1>3. DoomedGone' /\ FilterComplete'
  BY <1>2, QuietParts
<1>4. ASSUME NEW c \in live'
      PROVE  (events'[c] - events[c]) + (repeated'[c] - repeated[c]) =
               (forgotten'[c] - forgotten[c]) + (AllHeld(c)' - AllHeld(c))
                                              + (Recorded(c)' - Recorded(c))
  <2>0. c \in Coords
    BY <1>1 DEF SinkTypes
  <2>1. /\ repeated'[c] - repeated[c] = 0 /\ forgotten'[c] - forgotten[c] = 0
        /\ Recorded(c)' = Recorded(c) /\ Recorded(c) \in Nat /\ AllHeld(c) \in Nat
    BY <1>1, <1>2, <2>0, DaysStay, SumsTyped DEF SinkTypes, Counts
  <2>2. AllHeld(c)' = AllHeld(c) + (unrecorded'[p][c] - unrecorded[p][c])
                                 + (statBuf'[p][c] - statBuf[p][c])
    BY <1>1, <1>2, <2>0, BufferStep
  <2>3. /\ events[c] \in Nat /\ unrecorded[p][c] \in Nat /\ statBuf[p][c] \in Nat
        /\ unrecorded[p] \in Counts /\ statBuf[p] \in Counts /\ events \in Counts
        /\ unrecorded \in [Procs -> Counts] /\ statBuf \in [Procs -> Counts]
    BY <1>1, <2>0 DEF SinkTypes, Counts
  <2> DEFINE one == IF c = e THEN 1 ELSE 0
  <2>4. CASE Mutate(p, e)
    <3>1. events'[c] = events[c] + one
      BY <2>0, <2>3, <2>4 DEF Mutate, Counts
    <3>2. unrecorded'[p][c] = unrecorded[p][c] + one
      BY <2>0, <2>3, <2>4 DEF Mutate, Counts
    <3>3. statBuf'[p][c] = statBuf[p][c]
      BY <2>4 DEF Mutate
    <3> QED BY <2>1, <2>2, <2>3, <3>1, <3>2, <3>3
  <2>5. CASE recordStat(p, e)
    <3>1. events'[c] = events[c]
      BY <2>5 DEF recordStat
    <3>2. unrecorded'[p][c] = unrecorded[p][c] - one
      BY <2>0, <2>3, <2>5 DEF recordStat, Counts
    <3>3. statBuf'[p][c] = statBuf[p][c] + one
      BY <2>0, <2>3, <2>5 DEF recordStat, Counts
    <3> QED BY <2>1, <2>2, <2>3, <3>1, <3>2, <3>3
  <2> QED BY <2>4, <2>5
<1> QED BY <1>2, <1>3, <1>4, StepKeeps

LEMMA CascadeKeeps ==
  ASSUME SinkInv, Next, NEW p \in Procs, NEW S \in SUBSET Coords, Cascade(p, S)
  PROVE  SinkInv'
<1>1. SinkTypes /\ SinkTypes'
  BY TypesStep DEF SinkInv
<1>2. live' = live \ S /\ UNCHANGED <<events, unrecorded, statBuf, flush, forgotten, repeated>>
  BY DEF Cascade
<1>3. DoomedGone'
  BY <1>1, <1>2 DEF SinkInv, DoomedGone, Cascade, SinkTypes
<1>4. FilterComplete'
  BY <1>2 DEF SinkInv, FilterComplete
<1>5. ASSUME NEW c \in live'
      PROVE  (events'[c] - events[c]) + (repeated'[c] - repeated[c]) =
               (forgotten'[c] - forgotten[c]) + (AllHeld(c)' - AllHeld(c))
                                              + (Recorded(c)' - Recorded(c))
  <2>0. c \in Coords \ S
    BY <1>1, <1>2 DEF SinkTypes
  <2>1. \A d \in Days : table'[d][c] = table[d][c]
    BY <1>1, <2>0, OnlyCounts DEF Cascade, SinkTypes
  <2>2. Recorded(c)' = Recorded(c)
    BY <2>0, <2>1, DaysStay
  <2>3. AllHeld(c)' = AllHeld(c)
    <3>1. \A q \in Procs : Held(q, c)' = Held(q, c)
      BY <1>1, <1>2, <2>0, FlushesStay DEF Held
    <3> QED BY <2>0, <3>1, ProcsStay
  <2>4. /\ Recorded(c) \in Nat /\ AllHeld(c) \in Nat
        /\ events[c] \in Nat /\ repeated[c] \in Nat /\ forgotten[c] \in Nat
    BY <1>1, <2>0, SumsTyped DEF SinkTypes, Counts
  <2> QED BY <1>2, <2>2, <2>3, <2>4
<1> QED BY <1>2, <1>3, <1>4, <1>5, StepKeeps

LEMMA DiscardKeeps ==
  ASSUME SinkInv, Next, NEW p \in Procs, discardStats(p)
  PROVE  SinkInv'
<1>1. SinkTypes /\ SinkTypes'
  BY TypesStep DEF SinkInv
<1>2. UNCHANGED <<live, events, unrecorded, table, flush, forgotten, repeated>>
  BY DEF discardStats
<1>3. DoomedGone'
  BY <1>1, <1>2 DEF SinkInv, DoomedGone, discardStats, SinkTypes
<1>4. FilterComplete'
  BY <1>2 DEF SinkInv, FilterComplete
<1>5. ASSUME NEW c \in live'
      PROVE  (events'[c] - events[c]) + (repeated'[c] - repeated[c]) =
               (forgotten'[c] - forgotten[c]) + (AllHeld(c)' - AllHeld(c))
                                              + (Recorded(c)' - Recorded(c))
  <2>0. c \in Coords /\ c \notin doomed[p]
    BY <1>1, <1>2 DEF SinkTypes, SinkInv, DoomedGone
  <2>1. statBuf'[p][c] = statBuf[p][c]
    BY <1>1, <2>0, OnlyCounts DEF discardStats, SinkTypes
  <2>2. \A q \in Procs : statBuf'[q][c] = statBuf[q][c]
    BY <1>1, <2>1 DEF discardStats, SinkTypes
  <2>3. AllHeld(c)' = AllHeld(c)
    <3>1. \A q \in Procs : Held(q, c)' = Held(q, c)
      BY <1>1, <1>2, <2>0, <2>2, FlushesStay DEF Held
    <3> QED BY <2>0, <3>1, ProcsStay
  <2>4. Recorded(c)' = Recorded(c)
    BY <1>2, <2>0, DaysStay
  <2>5. /\ Recorded(c) \in Nat /\ AllHeld(c) \in Nat
        /\ events[c] \in Nat /\ repeated[c] \in Nat /\ forgotten[c] \in Nat
    BY <1>1, <2>0, SumsTyped DEF SinkTypes, Counts
  <2> QED BY <1>2, <2>3, <2>4, <2>5
<1> QED BY <1>2, <1>3, <1>4, <1>5, StepKeeps

LEMMA CrashKeeps ==
  ASSUME SinkInv, Next, NEW p \in Procs, Crash(p)
  PROVE  SinkInv'
<1>1. SinkTypes /\ SinkTypes'
  BY TypesStep DEF SinkInv
<1>2. /\ UNCHANGED <<live, events, table, repeated>>
      /\ \A q \in Procs : q # p => /\ unrecorded'[q] = unrecorded[q] /\ statBuf'[q] = statBuf[q]
                                   /\ doomed'[q] = doomed[q]
      /\ unrecorded'[p] = Zero /\ statBuf'[p] = Zero /\ doomed'[p] = {}
      /\ \A f \in Calls : flush'[f] = IF f[1] = p THEN NoFlush ELSE flush[f]
  BY <1>1 DEF Crash, SinkTypes
<1>3. DoomedGone'
  BY <1>2 DEF SinkInv, DoomedGone
<1>4. FilterComplete'
  BY <1>2, NoFlushType DEF SinkInv, FilterComplete
<1>5. ASSUME NEW c \in live'
      PROVE  (events'[c] - events[c]) + (repeated'[c] - repeated[c]) =
               (forgotten'[c] - forgotten[c]) + (AllHeld(c)' - AllHeld(c))
                                              + (Recorded(c)' - Recorded(c))
  <2>0. c \in Coords
    BY <1>1 DEF SinkTypes
  <2>1. ASSUME NEW q \in Procs, q # p PROVE Held(q, c)' = Held(q, c)
    <3>1. \A i \in Flushers : flush'[<<q, i>>] = flush[<<q, i>>]
      BY <1>2, <2>1 DEF Calls
    <3> QED BY <1>1, <1>2, <2>0, <2>1, <3>1, FlushesStay DEF Held
  <2>2. Held(p, c)' = 0
    <3> DEFINE t == [i \in Flushers |-> InFlush(<<p, i>>, c)']
    <3>1. \A i \in Flushers : <<p, i>> \in Calls /\ flush'[<<p, i>>] = NoFlush
      BY <1>2 DEF Calls
    <3>2. t \in [Flushers -> {0}]
      BY <3>1, NoFlushType DEF InFlush
    <3>3. SumFunction(t) \in {0}
      <4> HIDE DEF t
      <4> QED BY <3>2, SumType, StatsSinkAssumption
    <3>4. unrecorded'[p][c] = 0 /\ statBuf'[p][c] = 0
      BY <1>2, <2>0, ZeroCounts
    <3> QED BY <3>3, <3>4 DEF Held, InFlushes
  <2>3. AllHeld(c)' = AllHeld(c) + (Held(p, c)' - Held(p, c))
    BY <1>1, <2>0, <2>1, ProcStep
  <2>4. forgotten'[c] = forgotten[c] + Held(p, c) /\ Held(p, c) \in Nat
    BY <1>1, <2>0, HeldTypes DEF Crash
  <2>5. Recorded(c)' = Recorded(c)
    BY <1>2, <2>0, DaysStay
  <2>6. /\ Recorded(c) \in Nat /\ AllHeld(c) \in Nat
        /\ events[c] \in Nat /\ repeated[c] \in Nat /\ forgotten[c] \in Nat
    BY <1>1, <2>0, SumsTyped DEF SinkTypes, Counts
  <2> QED BY <1>2, <2>2, <2>3, <2>4, <2>5, <2>6
<1> QED BY <1>2, <1>3, <1>4, <1>5, StepKeeps

LEMMA PruneKeeps ==
  ASSUME SinkInv, Next, PruneStats
  PROVE  SinkInv'
<1>1. SinkTypes /\ SinkTypes'
  BY TypesStep DEF SinkInv
<1>2. PICK d \in Days, e \in Coords :
        /\ table' = [table EXCEPT ![d][e] = 0]
        /\ forgotten' = [forgotten EXCEPT ![e] = @ + table[d][e]]
        /\ UNCHANGED <<live, events, unrecorded, statBuf, flush, doomed, repeated>>
  BY DEF PruneStats
<1>3. DoomedGone' /\ FilterComplete'
  BY <1>2, QuietParts
<1>4. ASSUME NEW c \in live'
      PROVE  (events'[c] - events[c]) + (repeated'[c] - repeated[c]) =
               (forgotten'[c] - forgotten[c]) + (AllHeld(c)' - AllHeld(c))
                                              + (Recorded(c)' - Recorded(c))
  <2>0. c \in Coords /\ table[d] \in Counts /\ table[d][c] \in Nat
    BY <1>1 DEF SinkTypes, Counts
  <2>1. AllHeld(c)' = AllHeld(c)
    <3>1. \A q \in Procs : Held(q, c)' = Held(q, c)
      BY <1>1, <1>2, <2>0, FlushesStay DEF Held
    <3> QED BY <2>0, <3>1, ProcsStay
  <2>2. \A x \in Days : x # d => table'[x] = table[x]
    BY <1>1, <1>2 DEF SinkTypes
  <2>3. Recorded(c)' = Recorded(c) + (table'[d][c] - table[d][c])
    BY <1>1, <2>0, <2>2, DayStep
  <2>4. table'[d][c] = IF c = e THEN 0 ELSE table[d][c]
    BY <1>1, <1>2, <2>0 DEF SinkTypes, Counts
  <2>5. forgotten'[c] = IF c = e THEN forgotten[c] + table[d][c] ELSE forgotten[c]
    BY <1>1, <1>2, <2>0 DEF SinkTypes, Counts
  <2>6. /\ Recorded(c) \in Nat /\ AllHeld(c) \in Nat
        /\ events[c] \in Nat /\ repeated[c] \in Nat /\ forgotten[c] \in Nat
    BY <1>1, <2>0, SumsTyped DEF SinkTypes, Counts
  <2>7. events'[c] = events[c] /\ repeated'[c] = repeated[c]
    BY <1>2
  <2>8. CASE c = e
    BY <2>0, <2>1, <2>3, <2>4, <2>5, <2>6, <2>7, <2>8
  <2>9. CASE c # e
    BY <2>0, <2>1, <2>3, <2>4, <2>5, <2>6, <2>7, <2>9
  <2> QED BY <2>8, <2>9
<1> QED BY <1>2, <1>3, <1>4, StepKeeps

(* The day changes, or nothing does. *)
LEMMA StutterKeeps ==
  ASSUME SinkInv, [Next]_vars, NewDay \/ UNCHANGED vars
  PROVE  SinkInv'
<1>1. SinkTypes /\ SinkTypes'
  BY TypesStep DEF SinkInv
<1>2. UNCHANGED <<live, events, unrecorded, statBuf, table, flush, doomed, forgotten, repeated>>
  BY DEF NewDay, vars
<1>3. DoomedGone' /\ FilterComplete'
  BY <1>2, QuietParts
<1>4. ASSUME NEW c \in live'
      PROVE  (events'[c] - events[c]) + (repeated'[c] - repeated[c]) =
               (forgotten'[c] - forgotten[c]) + (AllHeld(c)' - AllHeld(c))
                                              + (Recorded(c)' - Recorded(c))
  <2>0. c \in Coords
    BY <1>1 DEF SinkTypes
  <2>1. AllHeld(c)' = AllHeld(c)
    <3>1. \A q \in Procs : Held(q, c)' = Held(q, c)
      BY <1>1, <1>2, <2>0, FlushesStay DEF Held
    <3> QED BY <2>0, <3>1, ProcsStay
  <2>2. Recorded(c)' = Recorded(c)
    BY <1>2, <2>0, DaysStay
  <2>3. /\ Recorded(c) \in Nat /\ AllHeld(c) \in Nat
        /\ events[c] \in Nat /\ repeated[c] \in Nat /\ forgotten[c] \in Nat
    BY <1>1, <2>0, SumsTyped DEF SinkTypes, Counts
  <2> QED BY <1>2, <2>1, <2>2, <2>3
<1> QED BY <1>2, <1>3, <1>4, StepKeeps

(* A step of one flush, for a live coordinate: what leaves the flush goes  *)
(* to the buffer, or to today's bucket, and there twice only where a       *)
(* statement landed and reported an error.                                 *)
LEMMA FlushKeeps ==
  ASSUME SinkInv, Next, NEW f \in Calls,
         UNCHANGED <<live, events, unrecorded, doomed, forgotten>>,
         \A g \in Calls : g # f => flush'[g] = flush[g],
         \A q \in Procs : q # f[1] => statBuf'[q] = statBuf[q],
         \A d \in Days : d # today => table'[d] = table[d],
         flush'[f].pc = "filter" =>
           \A c \in live : \/ flush'[f].pending[c] = 0
                           \/ c \in flush'[f].order \cup flush'[f].kept,
         \A c \in live :
           repeated'[c] - repeated[c] = (statBuf'[f[1]][c] - statBuf[f[1]][c])
                                          + (InFlush(f, c)' - InFlush(f, c))
                                          + (table'[today][c] - table[today][c])
  PROVE  SinkInv'
<1>1. SinkTypes /\ SinkTypes'
  BY TypesStep DEF SinkInv
<1>2. DoomedGone'
  BY DEF SinkInv, DoomedGone
<1>3. FilterComplete'
  BY DEF SinkInv, FilterComplete
<1>4. ASSUME NEW c \in live'
      PROVE  (events'[c] - events[c]) + (repeated'[c] - repeated[c]) =
               (forgotten'[c] - forgotten[c]) + (AllHeld(c)' - AllHeld(c))
                                              + (Recorded(c)' - Recorded(c))
  <2>0. c \in Coords /\ c \in live /\ f[1] \in Procs /\ today \in Days
    BY <1>1 DEF SinkTypes, Calls
  <2>1. AllHeld(c)' = AllHeld(c) + (statBuf'[f[1]][c] - statBuf[f[1]][c])
                                 + (InFlush(f, c)' - InFlush(f, c))
    BY <1>1, <2>0, CallStep
  <2>2. Recorded(c)' = Recorded(c) + (table'[today][c] - table[today][c])
    BY <1>1, <2>0, DayStep
  <2>3. repeated'[c] - repeated[c] = (statBuf'[f[1]][c] - statBuf[f[1]][c])
                                       + (InFlush(f, c)' - InFlush(f, c))
                                       + (table'[today][c] - table[today][c])
    BY <2>0
  <2>4. events'[c] = events[c] /\ forgotten'[c] = forgotten[c]
    OBVIOUS
  <2>5. /\ Recorded(c) \in Nat /\ AllHeld(c) \in Nat
        /\ events[c] \in Nat /\ forgotten[c] \in Nat
        /\ repeated[c] \in Nat /\ repeated'[c] \in Nat
        /\ statBuf[f[1]][c] \in Nat /\ statBuf'[f[1]][c] \in Nat
        /\ table[today][c] \in Nat /\ table'[today][c] \in Nat
        /\ InFlush(f, c) \in Nat /\ InFlush(f, c)' \in Nat
    BY <1>1, <2>0, SumsTyped, HeldTypes, HeldTypesNext DEF SinkTypes, Counts
  <2> QED BY ONLY <2>1, <2>2, <2>3, <2>4, <2>5
<1> QED BY <1>2, <1>3, <1>4, StepKeeps

(* FlushTake moves the buffer into the flush. *)
LEMMA TakeKeeps ==
  ASSUME SinkInv, Next, NEW f \in Calls, FlushTake(f)
  PROVE  SinkInv'
<1> DEFINE p == f[1]
           q == [pc |-> "filter", pending |-> statBuf[p],
                 order |-> {c \in Coords : statBuf[p][c] > 0}, kept |-> {}]
<1>1. SinkTypes /\ SinkTypes' /\ p \in Procs
  BY TypesStep DEF SinkInv, Calls
<1>2. /\ flush[f].pc = "idle" /\ flush' = [flush EXCEPT ![f] = q]
      /\ statBuf' = [statBuf EXCEPT ![p] = Zero]
      /\ UNCHANGED <<live, events, unrecorded, table, doomed, forgotten, repeated>>
  BY DEF FlushTake
<1>3. /\ q.pc = "filter" /\ q.pending = statBuf[p] /\ q.kept = {}
      /\ q.order = {c \in Coords : statBuf[p][c] > 0}
  OBVIOUS
<1> HIDE DEF q
<1>4. /\ flush'[f] = q /\ \A g \in Calls : g # f => flush'[g] = flush[g]
      /\ statBuf'[p] = Zero /\ \A x \in Procs : x # p => statBuf'[x] = statBuf[x]
  BY <1>1, <1>2 DEF SinkTypes
<1>5. \A c \in live : q.pending[c] = 0 \/ c \in q.order \cup q.kept
  BY <1>1, <1>3 DEF SinkTypes, Counts
<1>6. ASSUME NEW c \in live
      PROVE  repeated'[c] - repeated[c] = (statBuf'[p][c] - statBuf[p][c])
                                            + (InFlush(f, c)' - InFlush(f, c))
                                            + (table'[today][c] - table[today][c])
  <2>1. /\ c \in Coords /\ statBuf[p][c] \in Nat /\ repeated[c] \in Nat /\ table[today][c] \in Nat
    BY <1>1 DEF SinkTypes, Counts
  <2>2. InFlush(f, c) = 0 /\ InFlush(f, c)' = statBuf[p][c]
    BY <1>1, <1>2, <1>3, <1>4, <2>1, InFlushIs, InFlushNext
  <2>3. statBuf'[p][c] = 0
    BY <1>4, <2>1, ZeroCounts
  <2>4. repeated'[c] = repeated[c] /\ table'[today][c] = table[today][c]
    BY <1>2
  <2> QED BY <2>1, <2>2, <2>3, <2>4
<1> QED BY <1>2, <1>4, <1>5, <1>6, FlushKeeps

(* FlushFilter drops coordinates that are gone, and no others. *)
LEMMA FilterKeeps ==
  ASSUME SinkInv, Next, NEW f \in Calls, FlushFilter(f)
  PROVE  SinkInv'
<1> DEFINE r == flush[f]
           b == Batch(r.order)
           rest == r.order \ b
           kept == r.kept \cup LiveIn(b)
           q == IF rest # {} THEN [r EXCEPT !.order = rest, !.kept = kept]
                ELSE IF kept = {} THEN NoFlush
                ELSE [r EXCEPT !.pc = "upsert", !.order = kept, !.kept = {}]
<1>1. SinkTypes /\ SinkTypes' /\ f[1] \in Procs /\ r \in FlushCall
  BY TypesStep DEF SinkInv, Calls, SinkTypes
<1>2. /\ r.pc = "filter" /\ flush' = [flush EXCEPT ![f] = q]
      /\ UNCHANGED <<live, events, unrecorded, statBuf, table, doomed, forgotten, repeated>>
  BY DEF FlushFilter
<1>3. \A c \in live : r.pending[c] = 0 \/ c \in rest \cup kept
  BY <1>2 DEF SinkInv, FilterComplete, LiveIn
<1> HIDE DEF kept, rest
<1>4. /\ rest # {} => q.pc = "filter" /\ q.pending = r.pending /\ q.order = rest /\ q.kept = kept
      /\ rest = {} /\ kept = {} => q.pc = "idle"
      /\ rest = {} /\ kept # {} => q.pc = "upsert" /\ q.pending = r.pending /\ q.order = kept
  BY <1>1, <1>2, NoFlushType DEF FlushCall
<1> HIDE DEF q
<1>5. flush'[f] = q /\ \A g \in Calls : g # f => flush'[g] = flush[g]
  BY <1>1, <1>2 DEF SinkTypes
<1>6. flush'[f].pc = "filter" =>
        \A c \in live : flush'[f].pending[c] = 0 \/ c \in flush'[f].order \cup flush'[f].kept
  BY <1>3, <1>4, <1>5
<1>7. ASSUME NEW c \in live
      PROVE  repeated'[c] - repeated[c] = (statBuf'[f[1]][c] - statBuf[f[1]][c])
                                            + (InFlush(f, c)' - InFlush(f, c))
                                            + (table'[today][c] - table[today][c])
  <2>1. /\ c \in Coords /\ statBuf[f[1]][c] \in Nat /\ repeated[c] \in Nat
        /\ table[today][c] \in Nat /\ r.pending[c] \in Nat
    BY <1>1 DEF SinkTypes, Counts, FlushCall
  <2>2. InFlush(f, c) = r.pending[c]
    BY <1>1, <1>2, <2>1, InFlushIs
  <2>3. InFlush(f, c)' = IF q.pc = "filter" \/ (q.pc = "upsert" /\ c \in q.order)
                           THEN q.pending[c] ELSE 0
    BY <1>1, <1>5, <2>1, InFlushNext
  <2>4. r.pending[c] = 0 \/ c \in rest \cup kept
    BY <1>3
  <2>5. InFlush(f, c)' = r.pending[c]
    <3>1. CASE rest # {}
      BY <1>4, <2>3, <3>1
    <3>2. CASE rest = {} /\ kept = {}
      BY <1>4, <2>3, <2>4, <3>2
    <3>3. CASE rest = {} /\ kept # {}
      BY <1>4, <2>3, <2>4, <3>3
    <3> QED BY <3>1, <3>2, <3>3
  <2> QED BY <1>2, <2>1, <2>2, <2>5
<1> QED BY <1>2, <1>5, <1>6, <1>7, FlushKeeps

(* A failed read merges everything back. *)
LEMMA FilterFailsKeeps ==
  ASSUME SinkInv, Next, NEW f \in Calls, FlushFilterFails(f)
  PROVE  SinkInv'
<1> DEFINE p == f[1]
           r == flush[f]
<1>1. SinkTypes /\ SinkTypes' /\ p \in Procs /\ r \in FlushCall
  BY TypesStep DEF SinkInv, Calls, SinkTypes
<1>2. /\ r.pc = "filter" /\ flush' = [flush EXCEPT ![f] = NoFlush]
      /\ statBuf' = [statBuf EXCEPT ![p] = Plus(statBuf[p], r.pending)]
      /\ UNCHANGED <<live, events, unrecorded, table, doomed, forgotten, repeated>>
  BY DEF FlushFilterFails
<1>3. /\ flush'[f] = NoFlush /\ \A g \in Calls : g # f => flush'[g] = flush[g]
      /\ statBuf'[p] = Plus(statBuf[p], r.pending)
      /\ \A x \in Procs : x # p => statBuf'[x] = statBuf[x]
  BY <1>1, <1>2 DEF SinkTypes
<1>4. ASSUME NEW c \in live
      PROVE  repeated'[c] - repeated[c] = (statBuf'[p][c] - statBuf[p][c])
                                            + (InFlush(f, c)' - InFlush(f, c))
                                            + (table'[today][c] - table[today][c])
  <2>1. /\ c \in Coords /\ statBuf[p][c] \in Nat /\ repeated[c] \in Nat
        /\ table[today][c] \in Nat /\ r.pending[c] \in Nat
        /\ statBuf[p] \in Counts /\ r.pending \in Counts
    BY <1>1 DEF SinkTypes, Counts, FlushCall
  <2>2. InFlush(f, c) = r.pending[c] /\ InFlush(f, c)' = 0
    BY <1>1, <1>2, <1>3, <2>1, NoFlushType, InFlushIs, InFlushNext
  <2>3. statBuf'[p][c] = statBuf[p][c] + r.pending[c]
    BY <1>3, <2>1, PlusCounts
  <2>4. repeated'[c] = repeated[c] /\ table'[today][c] = table[today][c]
    BY <1>2
  <2> QED BY <2>1, <2>2, <2>3, <2>4
<1> QED BY <1>2, <1>3, <1>4, NoFlushType, FlushKeeps

(* What an upsert of the next batch adds to today's bucket. *)
LEMMA UpsertedAdds ==
  ASSUME SinkTypes, NEW f \in Calls, NEW c \in Coords
  PROVE  /\ \A d \in Days : d # today => Upserted(f)[d] = table[d]
         /\ Upserted(f)[today][c] = table[today][c]
              + (IF c \in Batch(flush[f].order) THEN flush[f].pending[c] ELSE 0)
<1> DEFINE add == Only(flush[f].pending, Batch(flush[f].order))
<1>1. flush[f].pending \in Counts /\ table[today] \in Counts /\ today \in Days
  BY DEF SinkTypes, FlushCall
<1>2. /\ add \in Counts
      /\ add[c] = IF c \in Batch(flush[f].order) THEN flush[f].pending[c] ELSE 0
  BY <1>1, OnlyCounts
<1>3. Upserted(f) = [table EXCEPT ![today] = Plus(table[today], add)]
  BY DEF Upserted, Landing
<1> HIDE DEF add
<1>4. /\ Upserted(f)[today] = Plus(table[today], add)
      /\ \A d \in Days : d # today => Upserted(f)[d] = table[d]
  BY <1>1, <1>3 DEF SinkTypes
<1>5. Plus(table[today], add)[c] = table[today][c] + add[c]
  BY <1>1, <1>2, PlusCounts
<1> QED BY <1>2, <1>4, <1>5

(* A batch moves from the flush to the table. *)
LEMMA UpsertKeeps ==
  ASSUME SinkInv, Next, NEW f \in Calls, FlushUpsert(f)
  PROVE  SinkInv'
<1> DEFINE r == flush[f]
           b == Batch(r.order)
           rest == r.order \ b
           q == IF rest = {} THEN NoFlush ELSE [r EXCEPT !.order = rest]
<1>1. SinkTypes /\ SinkTypes' /\ f[1] \in Procs /\ r \in FlushCall /\ b \subseteq r.order
  BY TypesStep, BatchIn DEF SinkInv, Calls, SinkTypes
<1>2. /\ r.pc = "upsert" /\ table' = Upserted(f) /\ flush' = [flush EXCEPT ![f] = q]
      /\ UNCHANGED <<live, events, unrecorded, statBuf, doomed, forgotten, repeated>>
  BY DEF FlushUpsert
<1>3. /\ rest = {} => q.pc = "idle"
      /\ rest # {} => q.pc = "upsert" /\ q.pending = r.pending /\ q.order = rest
  <2> HIDE DEF rest
  <2> QED BY <1>1, <1>2, NoFlushType DEF FlushCall
<1> HIDE DEF q
<1>4. flush'[f] = q /\ \A g \in Calls : g # f => flush'[g] = flush[g]
  BY <1>1, <1>2 DEF SinkTypes
<1>5. ASSUME NEW c \in live
      PROVE  repeated'[c] - repeated[c] = (statBuf'[f[1]][c] - statBuf[f[1]][c])
                                            + (InFlush(f, c)' - InFlush(f, c))
                                            + (table'[today][c] - table[today][c])
  <2>1. /\ c \in Coords /\ statBuf[f[1]][c] \in Nat /\ repeated[c] \in Nat
        /\ table[today][c] \in Nat /\ r.pending[c] \in Nat
    BY <1>1 DEF SinkTypes, Counts, FlushCall
  <2> DEFINE n == r.pending[c]
  <2>2. InFlush(f, c) = IF c \in r.order THEN n ELSE 0
    BY <1>1, <1>2, <2>1, InFlushIs
  <2>3. InFlush(f, c)' = IF c \in rest THEN n ELSE 0
    <3>1. InFlush(f, c)' = IF q.pc = "filter" \/ (q.pc = "upsert" /\ c \in q.order)
                             THEN q.pending[c] ELSE 0
      BY <1>1, <1>4, <2>1, InFlushNext
    <3> HIDE DEF rest
    <3> QED BY <1>3, <3>1
  <2>4. table'[today][c] = table[today][c] + (IF c \in b THEN n ELSE 0)
    BY <1>1, <1>2, <2>1, UpsertedAdds
  <2>5. c \in r.order <=> c \in rest \/ c \in b
    BY <1>1
  <2>6. ~(c \in rest /\ c \in b)
    OBVIOUS
  <2>7. statBuf'[f[1]][c] = statBuf[f[1]][c] /\ repeated'[c] = repeated[c]
    BY <1>2
  <2> HIDE DEF n, b, rest, r
  <2>8. n \in Nat
    BY <2>1 DEF n, r
  <2>9. CASE c \in b
    BY <2>1, <2>2, <2>3, <2>4, <2>5, <2>6, <2>7, <2>8, <2>9
  <2>10. CASE c \notin b
    BY <2>1, <2>2, <2>3, <2>4, <2>5, <2>6, <2>7, <2>8, <2>10
  <2> QED BY <2>9, <2>10
<1>6. /\ \A d \in Days : d # today => table'[d] = table[d]
      /\ flush'[f].pc # "filter"
  <2>1. flush'[f].pc # "filter"
    BY <1>3, <1>4
  <2>2. ASSUME NEW d \in Days, d # today PROVE table'[d] = table[d]
    <3>1. Upserted(f) = [table EXCEPT ![today] = Upserted(f)[today]]
      BY <1>1 DEF Upserted, Landing, SinkTypes
    <3> QED BY <1>1, <1>2, <2>2, <3>1 DEF SinkTypes
  <2> QED BY <2>1, <2>2
<1> QED BY <1>2, <1>4, <1>5, <1>6, FlushKeeps

(* A statement reports an error: this batch and the later ones are merged  *)
(* back, the earlier ones are in the table.                                *)
LEMMA UpsertFailsKeeps ==
  ASSUME SinkInv, Next, NEW f \in Calls, FlushUpsertFails(f)
  PROVE  SinkInv'
<1> DEFINE p == f[1]
           r == flush[f]
           b == Batch(r.order)
<1>1. SinkTypes /\ SinkTypes' /\ p \in Procs /\ r \in FlushCall /\ b \subseteq r.order
  BY TypesStep, BatchIn DEF SinkInv, Calls, SinkTypes
<1>2. /\ r.pc = "upsert" /\ flush' = [flush EXCEPT ![f] = NoFlush]
      /\ statBuf' = [statBuf EXCEPT ![p] = Plus(statBuf[p], Remaining(f))]
      /\ \/ table' = table /\ repeated' = repeated
         \/ table' = Upserted(f) /\ repeated' = Plus(repeated, Only(r.pending, b))
      /\ UNCHANGED <<live, events, unrecorded, doomed, forgotten>>
  BY DEF FlushUpsertFails
<1>3. /\ flush'[f] = NoFlush /\ \A g \in Calls : g # f => flush'[g] = flush[g]
      /\ statBuf'[p] = Plus(statBuf[p], Remaining(f))
      /\ \A x \in Procs : x # p => statBuf'[x] = statBuf[x]
  BY <1>1, <1>2 DEF SinkTypes
<1>4. ASSUME NEW c \in live
      PROVE  repeated'[c] - repeated[c] = (statBuf'[p][c] - statBuf[p][c])
                                            + (InFlush(f, c)' - InFlush(f, c))
                                            + (table'[today][c] - table[today][c])
  <2>1. /\ c \in Coords /\ statBuf[p][c] \in Nat /\ repeated[c] \in Nat
        /\ table[today][c] \in Nat /\ r.pending[c] \in Nat
        /\ statBuf[p] \in Counts /\ r.pending \in Counts /\ repeated \in Counts
    BY <1>1 DEF SinkTypes, Counts, FlushCall
  <2> DEFINE n == IF c \in r.order THEN r.pending[c] ELSE 0
             m == IF c \in b THEN r.pending[c] ELSE 0
  <2>2. InFlush(f, c) = n /\ InFlush(f, c)' = 0
    BY <1>1, <1>2, <1>3, <2>1, NoFlushType, InFlushIs, InFlushNext
  <2>3. statBuf'[p][c] = statBuf[p][c] + n
    <3>1. Remaining(f) \in Counts /\ Remaining(f)[c] = n
      BY <2>1, OnlyCounts DEF Remaining
    <3> QED BY <1>3, <2>1, <3>1, PlusCounts
  <2>4. \/ table'[today][c] = table[today][c] /\ repeated'[c] = repeated[c]
        \/ table'[today][c] = table[today][c] + m /\ repeated'[c] = repeated[c] + m
    <3>1. Only(r.pending, b) \in Counts /\ Only(r.pending, b)[c] = m
      BY <2>1, OnlyCounts
    <3>2. Plus(repeated, Only(r.pending, b))[c] = repeated[c] + m
      BY <2>1, <3>1, PlusCounts
    <3>3. Upserted(f)[today][c] = table[today][c] + m
      BY <1>1, <2>1, UpsertedAdds
    <3> QED BY <1>2, <3>2, <3>3
  <2>5. n \in Nat /\ m \in Nat
    BY <2>1
  <2> HIDE DEF n, m
  <2> QED BY <2>1, <2>2, <2>3, <2>4, <2>5
<1>5. ASSUME NEW d \in Days, d # today PROVE table'[d] = table[d]
  <2>1. Upserted(f) = [table EXCEPT ![today] = Upserted(f)[today]]
    BY <1>1 DEF Upserted, Landing, SinkTypes
  <2>2. Upserted(f)[d] = table[d]
    BY <1>1, <1>5, <2>1 DEF SinkTypes
  <2> QED BY <1>2, <2>2
<1> QED BY <1>2, <1>3, <1>4, <1>5, NoFlushType, FlushKeeps

(* Every event of a live coordinate is counted exactly once on its way     *)
(* from the commit through buffer and flushes to the day buckets, for any  *)
(* number of processes and flushes, whatever fails, crashes or is pruned.  *)
THEOREM CountedOnce == Spec => []CountsConserved
<1>1. SinkInv /\ [Next]_vars => SinkInv'
  <2> SUFFICES ASSUME SinkInv, [Next]_vars PROVE SinkInv'
    OBVIOUS
  <2>1. CASE UNCHANGED vars
    BY <2>1, StutterKeeps
  <2>2. ASSUME NEW f \in Calls, FlushStats(f), Next PROVE SinkInv'
    BY <2>2, TakeKeeps, FilterKeeps, FilterFailsKeeps, UpsertKeeps, UpsertFailsKeeps
       DEF FlushStats
  <2>3. ASSUME NEW p \in Procs, Next,
               \/ \E c \in Coords : Mutate(p, c) \/ recordStat(p, c)
               \/ \E S \in SUBSET Coords : Cascade(p, S)
               \/ discardStats(p)
               \/ Crash(p)
        PROVE  SinkInv'
    BY <2>3, MutateKeeps, CascadeKeeps, DiscardKeeps, CrashKeeps
  <2>4. CASE Next /\ (PruneStats \/ NewDay)
    BY <2>4, PruneKeeps, StutterKeeps
  <2> QED BY <2>1, <2>2, <2>3, <2>4 DEF Next
<1>2. SinkInv => CountsConserved
  BY DEF SinkInv
<1> QED BY <1>1, <1>2, ConservedInit, PTL DEF Spec

----------------------------------------------------------------------------
(* Shades: the arithmetic of heatmap.go. *)

LEMMA Times ==
  ASSUME NEW a \in Int, NEW b \in Int, NEW s \in Nat, a <= b
  PROVE  a * s <= b * s
OBVIOUS

LEMMA Division ==
  ASSUME NEW a \in Nat, NEW b \in Nat \ {0}
  PROVE  /\ a \div b \in Int
         /\ (a \div b) * b <= a
         /\ a < (a \div b) * b + b
<1> DEFINE q == a \div b
           r == a % b
<1>1. q \in Int
  OBVIOUS
<1>2. r \in 0..(b - 1)
  OBVIOUS
<1>3. a = b * q + r
  OBVIOUS
<1> HIDE DEF q, r
<1>4. a = q * b + r
  BY <1>1, <1>2, <1>3
<1>5. q * b \in Int
  BY <1>1
<1>6. q * b <= a /\ a < q * b + b
  BY <1>2, <1>4, <1>5
<1> QED BY <1>1, <1>6 DEF q

(* The rounded-up quotient is the number of the quarter. *)
LEMMA QuartileRoundsUp ==
  ASSUME NEW v \in Nat \ {0}, NEW s \in Nat \ {0}, v <= s
  PROVE  /\ Quartile(v, s) \in 1..4
         /\ \A l \in 1..4 : 4 * v <= l * s <=> Quartile(v, s) <= l
<1> DEFINE a == v * 4 + s - 1
           q == a \div s
<1>1. a \in Nat /\ a >= s /\ a < 5 * s
  OBVIOUS
<1>2. q \in Int /\ q * s <= a /\ a < q * s + s
  <2> HIDE DEF a
  <2> QED BY <1>1, Division
<1> HIDE DEF q
<1>3. ~ 5 <= q
  <2>1. 5 <= q => 5 * s <= q * s
    BY <1>2, Times
  <2> QED BY <1>1, <1>2, <2>1
<1>4. ~ q <= 0
  <2>1. q <= 0 => q * s <= 0 * s
    BY <1>2, Times
  <2> QED BY <1>1, <1>2, <2>1
<1>5. q \in {1, 2, 3, 4}
  BY <1>2, <1>3, <1>4
<1>6. ASSUME NEW l \in 1..4 PROVE 4 * v <= l * s <=> q <= l
  <2>1. l \in {1, 2, 3, 4}
    OBVIOUS
  <2>2. CASE l = 1
    BY <1>2, <1>5, <2>2
  <2>3. CASE l = 2
    BY <1>2, <1>5, <2>3
  <2>4. CASE l = 3
    BY <1>2, <1>5, <2>4
  <2>5. CASE l = 4
    BY <1>2, <1>5, <2>5
  <2> QED BY <2>1, <2>2, <2>3, <2>4, <2>5
<1>7. Quartile(v, s) = q
  BY DEF Quartile, q
<1> QED BY <1>5, <1>6, <1>7

LEMMA ShadeIsQuartile ==
  ASSUME NEW v \in Nat \ {0}, NEW s \in Nat \ {0}, v <= s
  PROVE  Shade(v, s) = Quartile(v, s) /\ Shade(v, s) \in 1..4
<1> DEFINE q == Quartile(v, s)
           L == {l \in 1..4 : 4 * v <= l * s}
<1>1. q \in 1..4 /\ \A l \in 1..4 : 4 * v <= l * s <=> q <= l
  BY QuartileRoundsUp
<1>2. L = {l \in 1..4 : q <= l}
  BY <1>1
<1>3. Min(L) = q
  <2> HIDE DEF q, L
  <2>1. \A x \in L : (\A y \in L : x =< y) <=> x = q
    BY <1>1, <1>2
  <2>2. q \in L
    BY <1>1, <1>2
  <2> QED BY <2>1, <2>2 DEF Min
<1> QED BY <1>1, <1>3 DEF Shade

(* The largest of finitely many naturals is one of them. *)
LEMMA MaxOfFinite ==
  ASSUME NEW S \in SUBSET Nat, IsFiniteSet(S), S # {}
  PROVE  Max(S) \in S /\ \A y \in S : y <= Max(S)
<1> DEFINE Good == {s \in SUBSET S : s = {} \/ \E m \in s : \A y \in s : m >= y}
<1>1. {} \in Good
  OBVIOUS
<1>2. ASSUME NEW s \in SUBSET S, s # {}, s \ {Some(s)} \in Good PROVE s \in Good
  <2> DEFINE x == Some(s)
             t == s \ {x}
  <2>1. x \in s
    BY <1>2, SomeIn
  <2> HIDE DEF x
  <2>2. CASE t = {}
    BY <2>1, <2>2
  <2>3. CASE t # {}
    <3>1. PICK m \in t : \A y \in t : m >= y
      BY <1>2, <2>3 DEF x
    <3>2. CASE m >= x
      <4>1. \A y \in s : m >= y
        BY <2>1, <3>1, <3>2
      <4> QED BY <4>1
    <3>3. CASE ~ m >= x
      <4>1. \A y \in s : x >= y
        BY <2>1, <3>1, <3>3
      <4> QED BY <2>1, <4>1
    <3> QED BY <3>2, <3>3
  <2> QED BY <2>2, <2>3
<1>3. S \in Good
  <2> HIDE DEF Good
  <2> QED BY <1>1, <1>2, SubsetsAreInductive
<1>4. \E m \in S : \A y \in S : m >= y
  BY <1>3
<1> QED BY <1>4 DEF Max

LEMMA MaxOfTwo ==
  ASSUME NEW a \in Nat, NEW b \in Nat
  PROVE  Max({a, b}) = IF a < b THEN b ELSE a
<1> DEFINE m == IF a < b THEN b ELSE a
<1>1. \A x \in {a, b} : (\A y \in {a, b} : x >= y) <=> x = m
  OBVIOUS
<1>2. m \in {a, b}
  OBVIOUS
<1> QED BY <1>1, <1>2 DEF Max

(* A level is the quarter of its scale, clamped from below for dead. *)
LEMMA LevelsAreShades ==
  ASSUME NEW v \in Nat, NEW top \in Nat, v <= top
  PROVE  /\ v = 0 => counterLevel(v, top) = 0 /\ deadCounterLevel(v, top) = 0
         /\ v # 0 => /\ counterLevel(v, top) = Shade(v, Max({top, heatmapScaleFloor}))
                     /\ deadCounterLevel(v, top) = Max({2, Shade(v, top)})
<1>0. heatmapScaleFloor \in Nat \ {0}
  BY StatsTrendAssumption
<1>1. CASE v = 0
  BY <1>1 DEF counterLevel, deadCounterLevel
<1>2. CASE v # 0
  <2> DEFINE scale == IF top < heatmapScaleFloor THEN heatmapScaleFloor ELSE top
  <2>1. scale = Max({top, heatmapScaleFloor})
    BY <1>0, MaxOfTwo
  <2>2. scale \in Nat \ {0} /\ v <= scale /\ top \in Nat \ {0} /\ v \in Nat \ {0}
    BY <1>0, <1>2
  <2>3. counterLevel(v, top) = Clamp(1, 4, Quartile(v, scale))
    BY <2>2 DEF counterLevel
  <2>4. deadCounterLevel(v, top) = Clamp(2, 4, Quartile(v, top))
    BY <2>2 DEF deadCounterLevel
  <2> HIDE DEF scale
  <2>5. Shade(v, scale) = Quartile(v, scale) /\ Shade(v, scale) \in 1..4
    BY <2>2, ShadeIsQuartile
  <2>6. Shade(v, top) = Quartile(v, top) /\ Shade(v, top) \in 1..4
    BY <2>2, ShadeIsQuartile
  <2>7. Clamp(1, 4, Quartile(v, scale)) = Shade(v, scale)
    BY <2>5 DEF Clamp
  <2>8. Max({2, Shade(v, top)}) = IF 2 < Shade(v, top) THEN Shade(v, top) ELSE 2
    BY <2>6, MaxOfTwo
  <2>9. Clamp(2, 4, Quartile(v, top)) = Max({2, Shade(v, top)})
    BY <2>6, <2>8 DEF Clamp
  <2> QED BY <1>2, <2>1, <2>3, <2>4, <2>7, <2>9
<1> QED BY <1>1, <1>2
----------------------------------------------------------------------------
(* The strips. *)

LEMMA PagesFinite ==
  ASSUME NEW S \in Pages
  PROVE  S \subseteq Coords /\ IsFiniteSet(S)
BY StatsSinkAssumption, FS_Singleton DEF Pages

LEMMA StoredType ==
  ASSUME SinkTypes, NEW S \in Pages, NEW d \in Days
  PROVE  Stored(S, d) \in Nat
<1> DEFINE f == [c \in S |-> table[d][c]]
<1>1. f \in [S -> Nat]
  BY PagesFinite DEF SinkTypes, Counts
<1>2. SumFunction(f) \in Nat
  <2> HIDE DEF f
  <2> QED BY <1>1, PagesFinite, SumType
<1> QED BY <1>2 DEF Stored

(* What a strip shows for a day. *)
Shown(S, d) == IF d \in Days /\ d > today - trendDays THEN Stored(S, d) ELSE 0

Shadow(S, h, i) ==
  LET day == h - trendDays + i IN [Day |-> day, Value |-> Shown(S, day)]

LEMMA ShownType ==
  ASSUME SinkTypes, NEW S \in Pages, NEW d
  PROVE  Shown(S, d) \in Nat
BY StoredType DEF Shown

(* A day without a row is filled up with what its row would have held. *)
LEMMA FilledUp ==
  ASSUME SinkTypes, NEW S \in Pages, NEW h \in Int
  PROVE  zeroFillDaily(dailyCounters(S), h) =
           [i \in 1..trendDays |->
             [Day |-> h - (i - 1), Value |-> Shown(S, h - (i - 1))]]
<1>0. trendDays \in Nat
  BY StatsTrendAssumption
<1> DEFINE rows == dailyCounters(S)
<1>1. ASSUME NEW d PROVE (IF d \in DOMAIN rows THEN rows[d] ELSE 0) = Shown(S, d)
  <2>1. d \in DOMAIN rows <=> d \in Days /\ d > today - trendDays /\ Stored(S, d) > 0
    BY DEF dailyCounters
  <2>2. d \in DOMAIN rows => rows[d] = Stored(S, d)
    BY DEF dailyCounters
  <2>3. d \in Days => (Stored(S, d) > 0 \/ Stored(S, d) = 0)
    BY StoredType
  <2> HIDE DEF rows
  <2> QED BY <2>1, <2>2, <2>3 DEF Shown
<1> HIDE DEF rows
<1>2. zeroFillDaily(rows, h) =
        [i \in 1..trendDays |-> [Day |-> h - (i - 1), Value |-> Shown(S, h - (i - 1))]]
  BY <1>1, Zenon DEF zeroFillDaily
<1> QED BY <1>2 DEF rows

LEMMA OldestFirst ==
  ASSUME SinkTypes, NEW S \in Pages, NEW h \in Int
  PROVE  chronologicalDayViews(zeroFillDaily(dailyCounters(S), h)) =
           [i \in 1..trendDays |-> Shadow(S, h, i)]
<1>0. trendDays \in Nat \ {0}
  BY StatsTrendAssumption
<1> DEFINE days == [i \in 1..trendDays |->
                     [Day |-> h - (i - 1), Value |-> Shown(S, h - (i - 1))]]
<1>1. Len(days) = trendDays
  BY <1>0
<1>2. \A i \in 1..trendDays : days[(trendDays - i) + 1] = Shadow(S, h, i)
  <2> TAKE i \in 1..trendDays
  <2>1. (trendDays - i) + 1 \in 1..trendDays /\ h - (((trendDays - i) + 1) - 1) = h - trendDays + i
    BY <1>0
  <2> QED BY <2>1 DEF Shadow
<1>3. CASE trendDays = 1
  <2>1. chronologicalDayViews(days) = days
    BY <1>1, <1>3 DEF chronologicalDayViews
  <2>2. \A i \in 1..trendDays : (trendDays - i) + 1 = i
    BY <1>3
  <2>3. \A i \in 1..trendDays : days[i] = Shadow(S, h, i)
    BY <1>2, <2>2, Zenon
  <2>4. days = [i \in 1..trendDays |-> Shadow(S, h, i)]
    <3>1. days = [i \in 1..trendDays |-> days[i]]
      OBVIOUS
    <3> HIDE DEF days
    <3> QED BY <2>3, <3>1
  <2> QED BY <2>1, <2>4, FilledUp
<1>4. CASE trendDays # 1
  <2>1. days[1].Day = h /\ days[trendDays].Day = h - (trendDays - 1)
    BY <1>0
  <2>2. ~ (Len(days) < 2 \/ days[1].Day <= days[Len(days)].Day)
    <3> HIDE DEF days
    <3> QED BY <1>0, <1>1, <1>4, <2>1
  <2>3. chronologicalDayViews(days) = Reverse(days)
    <3> HIDE DEF days
    <3> QED BY <2>2 DEF chronologicalDayViews
  <2>4. Reverse(days) = [i \in 1..trendDays |-> Shadow(S, h, i)]
    <3> HIDE DEF days
    <3> QED BY <1>1, <1>2 DEF Reverse
  <2> QED BY <2>3, <2>4, FilledUp
<1> QED BY <1>3, <1>4

(* The strip, cell by cell. *)
LEMMA StripCells ==
  ASSUME SinkTypes, NEW S \in Pages, NEW h \in Int
  PROVE  LET top == Max({Shown(S, h - trendDays + i) : i \in 1..trendDays}) IN
         Strip(S, h) = [i \in 1..trendDays |->
           LET day == h - trendDays + i IN
           [Day |-> day, Value |-> Shown(S, day),
            Volume |-> counterLevel(Shown(S, day), top),
            Dead |-> deadCounterLevel(Shown(S, day), top)]]
<1> DEFINE chrono == [i \in 1..trendDays |-> Shadow(S, h, i)]
           top    == Max({Shown(S, h - trendDays + i) : i \in 1..trendDays})
<1>1. DOMAIN chrono = 1..trendDays
  OBVIOUS
<1>2. \A i \in 1..trendDays : /\ chrono[i].Day = h - trendDays + i
                              /\ chrono[i].Value = Shown(S, h - trendDays + i)
  BY DEF Shadow
<1>3. chrono = chronologicalDayViews(zeroFillDaily(dailyCounters(S), h))
  BY OldestFirst
<1> HIDE DEF chrono
<1>4. {chrono[i].Value : i \in DOMAIN chrono} =
        {Shown(S, h - trendDays + i) : i \in 1..trendDays}
  BY <1>1, <1>2
<1>5. Strip(S, h) = [i \in 1..trendDays |->
           [Day |-> chrono[i].Day, Value |-> chrono[i].Value,
            Volume |-> counterLevel(chrono[i].Value, top),
            Dead |-> deadCounterLevel(chrono[i].Value, top)]]
  BY <1>1, <1>3, <1>4, Zenon DEF Strip, buildContributionGraph
<1> HIDE DEF top
<1>6. Strip(S, h) = [i \in 1..trendDays |->
           [Day |-> h - trendDays + i, Value |-> Shown(S, h - trendDays + i),
            Volume |-> counterLevel(Shown(S, h - trendDays + i), top),
            Dead |-> deadCounterLevel(Shown(S, h - trendDays + i), top)]]
  BY <1>2, <1>5
<1> QED BY <1>6 DEF top

(* Nothing is written to a day before it comes: without this the window of *)
(* the driver's read, open at its far end, could hold days after today.    *)
FutureEmpty == \A d \in Days, c \in Coords : d > today => table[d][c] = 0

LEMMA FutureStep ==
  ASSUME SinkTypes, SinkTypes', FutureEmpty, [Next]_vars
  PROVE  FutureEmpty'
<1>0. SUFFICES ASSUME NEW d \in Days, NEW c \in Coords, d > today'
               PROVE  table'[d][c] = 0
  BY DEF FutureEmpty, Days
<1>1. d \in Int /\ today \in Int /\ today' \in Int
  BY DaysFinite DEF SinkTypes
<1>2. today' = today \/ today' = today + 1
  BY DEF Next, vars, Mutate, recordStat, discardStats, Crash, Cascade, FlushStats, FlushTake,
         FlushFilter, FlushFilterFails, FlushUpsert, FlushUpsertFails, PruneStats, NewDay
<1>3. d > today /\ d # today
  BY <1>0, <1>1, <1>2
<1>4. table[d][c] = 0 /\ table[d] \in Counts
  BY <1>3 DEF FutureEmpty, SinkTypes
<1>5. CASE table' = table
  BY <1>4, <1>5
<1>6. ASSUME NEW f \in Calls, table' = Upserted(f) PROVE table'[d][c] = 0
  BY <1>3, <1>4, <1>6, UpsertedAdds
<1>7. ASSUME NEW p \in Procs, NEW S \in SUBSET Coords, Cascade(p, S) PROVE table'[d][c] = 0
  <2>1. table'[d] = Only(table[d], Coords \ S)
    BY <1>7 DEF Cascade
  <2> QED BY <1>4, <2>1, OnlyCounts
<1>8. CASE PruneStats
  <2>1. PICK e \in Days, x \in Coords : table' = [table EXCEPT ![e][x] = 0]
    BY <1>8 DEF PruneStats
  <2>2. table'[d] = IF d = e THEN [table[d] EXCEPT ![x] = 0] ELSE table[d]
    BY <2>1 DEF SinkTypes
  <2> QED BY <1>4, <2>2 DEF Counts
<1>9. ASSUME NEW f \in Calls, FlushStats(f) PROVE table' = table \/ table' = Upserted(f)
  BY <1>9 DEF FlushStats, FlushTake, FlushFilter, FlushFilterFails, FlushUpsert, FlushUpsertFails
<1>10. ASSUME NEW p \in Procs, NEW x \in Coords, Mutate(p, x) \/ recordStat(p, x)
       PROVE  table' = table
  BY <1>10 DEF Mutate, recordStat
<1>11. ASSUME NEW p \in Procs, discardStats(p) \/ Crash(p) PROVE table' = table
  BY <1>11 DEF discardStats, Crash
<1>12. CASE NewDay \/ UNCHANGED vars
  BY <1>5, <1>12 DEF NewDay, vars
<1> QED BY <1>5, <1>6, <1>7, <1>8, <1>9, <1>10, <1>11, <1>12 DEF Next

LEMMA RowsAreDue ==
  ASSUME SinkTypes, FutureEmpty, NEW S \in Pages, NEW d \in DOMAIN dailyCounters(S)
  PROVE  d \in Int /\ today - trendDays < d /\ d <= today
<1>1. d \in Days /\ d > today - trendDays /\ Stored(S, d) > 0
  BY DEF dailyCounters
<1>2. d \in Int /\ today \in Int /\ trendDays \in Int
  BY <1>1, DaysFinite, StatsTrendAssumption DEF SinkTypes
<1>3. d <= today
  <2> SUFFICES ASSUME d > today PROVE FALSE
    BY <1>2
  <2> DEFINE f == [c \in S |-> table[d][c]]
  <2>1. f \in [S -> {0}]
    BY <1>1, PagesFinite DEF FutureEmpty
  <2>2. SumFunction(f) \in {0}
    <3> HIDE DEF f
    <3> QED BY <2>1, PagesFinite, SumType
  <2>3. Stored(S, d) = 0
    BY <2>2 DEF Stored
  <2> QED BY <1>1, <2>3
<1> QED BY <1>1, <1>2, <1>3

(* What landed on a day of the retention is there still; the history has   *)
(* the shape of the table.                                                 *)
LandedInv ==
  /\ landed \in [Days -> Counts]
  /\ \A d \in Days, c \in Coords : d + RetentionDays >= today => table[d][c] = landed[d][c]

LEMMA LandedInit == Init => LandedInv
BY ZeroCounts DEF Init, LandedInv

(* A flushed batch adds the same to the table and to the history. *)
LEMMA LandingAdds ==
  ASSUME SinkTypes, NEW f \in Calls, NEW b \in [Days -> Counts]
  PROVE  /\ Landing(b, f) \in [Days -> Counts]
         /\ \A d \in Days, c \in Coords :
              Landing(b, f)[d][c] =
                IF d = today
                  THEN b[d][c] + Only(flush[f].pending, Batch(flush[f].order))[c]
                  ELSE b[d][c]
<1> DEFINE add == Only(flush[f].pending, Batch(flush[f].order))
           sum == Plus(b[today], add)
<1>1. add \in Counts
  BY OnlyCounts DEF SinkTypes, FlushCall
<1>2. today \in Days /\ b[today] \in Counts
  BY DEF SinkTypes
<1>3. sum \in Counts /\ \A c \in Coords : sum[c] = b[today][c] + add[c]
  <2> HIDE DEF add
  <2> QED BY <1>1, <1>2, PlusCounts
<1>4. Landing(b, f) = [b EXCEPT ![today] = sum]
  BY DEF Landing
<1> HIDE DEF sum, add
<1>5. Landing(b, f) \in [Days -> Counts]
  BY <1>3, <1>4
<1>6. ASSUME NEW d \in Days, NEW c \in Coords
      PROVE  Landing(b, f)[d][c] = IF d = today THEN b[d][c] + add[c] ELSE b[d][c]
  BY <1>2, <1>3, <1>4
<1> QED BY <1>5, <1>6 DEF add

LEMMA LandedStep ==
  ASSUME SinkTypes, SinkTypes', LandedInv, [Next]_vars
  PROVE  LandedInv'
<1>1. today' = today \/ today' = today + 1
  BY DEF Next, vars, Mutate, recordStat, discardStats, Crash, Cascade, FlushStats, FlushTake,
         FlushFilter, FlushFilterFails, FlushUpsert, FlushUpsertFails, PruneStats, NewDay
<1>2. ASSUME NEW d \in Days, d + RetentionDays >= today' PROVE d + RetentionDays >= today
  BY <1>1, <1>2, DaysFinite, StatsSinkAssumption DEF SinkTypes
<1>3. SUFFICES /\ landed' \in [Days -> Counts]
               /\ \A d \in Days, c \in Coords : d + RetentionDays >= today =>
                    table'[d][c] = landed'[d][c]
  BY <1>2 DEF LandedInv, Days
<1> DEFINE Goal == /\ landed' \in [Days -> Counts]
                   /\ \A d \in Days, c \in Coords : d + RetentionDays >= today =>
                        table'[d][c] = landed'[d][c]
<1>4. ASSUME UNCHANGED <<table, landed>> PROVE Goal
  BY <1>4 DEF LandedInv
<1>5. ASSUME NEW f \in Calls, table' = Upserted(f), landed' = Landing(landed, f)
      PROVE  Goal
  <2>1. landed \in [Days -> Counts] /\ table \in [Days -> Counts]
    BY DEF LandedInv, SinkTypes
  <2>2. landed' \in [Days -> Counts]
    BY <1>5, <2>1, LandingAdds
  <2>3. ASSUME NEW d \in Days, NEW c \in Coords, d + RetentionDays >= today
        PROVE  table'[d][c] = landed'[d][c]
    <3>1. table[d][c] = landed[d][c]
      BY <2>3 DEF LandedInv
    <3> QED BY <1>5, <2>1, <3>1, LandingAdds DEF Upserted
  <2> QED BY <2>2, <2>3
<1>6. ASSUME NEW p \in Procs, NEW S \in SUBSET Coords, Cascade(p, S) PROVE Goal
  <2>1. \A d \in Days : /\ table'[d] = Only(table[d], Coords \ S)
                         /\ landed'[d] = Only(landed[d], Coords \ S)
    BY <1>6 DEF Cascade
  <2>2. \A d \in Days : table[d] \in Counts /\ landed[d] \in Counts
    BY DEF SinkTypes, LandedInv
  <2>3. landed' \in [Days -> Counts]
    BY <1>6, <2>2, OnlyCounts DEF Cascade
  <2>4. ASSUME NEW d \in Days, NEW c \in Coords, d + RetentionDays >= today
        PROVE  table'[d][c] = landed'[d][c]
    <3>1. table[d][c] = landed[d][c]
      BY <2>4 DEF LandedInv
    <3>2. /\ table'[d][c] = Only(table[d], Coords \ S)[c]
          /\ landed'[d][c] = Only(landed[d], Coords \ S)[c]
      BY <2>1
    <3> QED BY <3>1, <3>2, Zenon DEF Only
  <2> QED BY <2>3, <2>4
<1>7. CASE PruneStats
  <2>1. PICK e \in Days, x \in Coords : /\ PastRetention(e)
                                       /\ table' = [table EXCEPT ![e][x] = 0]
                                       /\ landed' = landed
    BY <1>7 DEF PruneStats
  <2>2. ASSUME NEW d \in Days, d + RetentionDays >= today PROVE table'[d] = table[d]
    <3>1. d # e
      BY <2>1, <2>2, DaysFinite, StatsSinkAssumption DEF PastRetention, SinkTypes
    <3> QED BY <2>1, <3>1 DEF SinkTypes
  <2> QED BY <2>1, <2>2 DEF LandedInv
<1>8. ASSUME NEW f \in Calls, FlushStats(f)
      PROVE  \/ UNCHANGED <<table, landed>>
             \/ table' = Upserted(f) /\ landed' = Landing(landed, f)
  BY <1>8 DEF FlushStats, FlushTake, FlushFilter, FlushFilterFails, FlushUpsert, FlushUpsertFails
<1>9. ASSUME NEW p \in Procs, NEW x \in Coords, Mutate(p, x) \/ recordStat(p, x)
      PROVE  UNCHANGED <<table, landed>>
  BY <1>9 DEF Mutate, recordStat
<1>10. ASSUME NEW p \in Procs, discardStats(p) \/ Crash(p) PROVE UNCHANGED <<table, landed>>
  BY <1>10 DEF discardStats, Crash
<1>11. CASE NewDay \/ UNCHANGED vars
  BY <1>4, <1>11 DEF NewDay, vars
<1> HIDE DEF Goal
<1>12. Goal
  <2>1. ASSUME NEW f \in Calls, FlushStats(f) PROVE Goal
    BY <1>4, <1>5, <1>8, <2>1, Zenon
  <2>2. ASSUME NEW p \in Procs, NEW x \in Coords, Mutate(p, x) \/ recordStat(p, x) PROVE Goal
    BY <1>4, <1>9, <2>2, Zenon
  <2>3. ASSUME NEW p \in Procs, discardStats(p) \/ Crash(p) PROVE Goal
    BY <1>4, <1>10, <2>3, Zenon
  <2>4. CASE \E p \in Procs :
               \/ \E x \in Coords : Mutate(p, x) \/ recordStat(p, x)
               \/ \E S \in SUBSET Coords : Cascade(p, S)
               \/ discardStats(p)
               \/ Crash(p)
    BY <1>6, <2>2, <2>3, <2>4, Zenon
  <2>5. CASE \E f \in Calls : FlushStats(f)
    BY <2>1, <2>5, Zenon
  <2> QED BY <1>7, <1>11, <2>4, <2>5, Zenon DEF Next, Goal
<1> QED BY <1>12 DEF Goal

(* What a strip shows for a day, from what landed on it. *)
LEMMA ShownLanded ==
  ASSUME SinkTypes, FutureEmpty, LandedInv, NEW S \in Pages, NEW d \in Int
  PROVE  Shown(S, d) = IF d \notin TrendWindow THEN 0
                       ELSE IF d + RetentionDays < today THEN Stored(S, d)
                       ELSE Landed(S, d)
<1>1. today \in Int /\ trendDays \in Int /\ RetentionDays \in Int
  BY DaysFinite, StatsTrendAssumption, StatsSinkAssumption DEF SinkTypes
<1>2. CASE d \notin TrendWindow
  <2>1. CASE d \in Days /\ d > today - trendDays
    <3>1. ~(d <= today)
      BY <1>1, <1>2, <2>1 DEF TrendWindow
    <3>2. d \notin DOMAIN dailyCounters(S)
      BY <3>1, RowsAreDue
    <3>3. ~(Stored(S, d) > 0)
      BY <2>1, <3>2 DEF dailyCounters
    <3>4. Stored(S, d) = 0
      BY <2>1, <3>3, StoredType
    <3> QED BY <1>2, <2>1, <3>4 DEF Shown
  <2>2. CASE ~(d \in Days /\ d > today - trendDays)
    BY <1>2, <2>2 DEF Shown
  <2> QED BY <2>1, <2>2
<1>3. CASE d \in TrendWindow
  <2>1. d \in Days /\ d > today - trendDays
    BY <1>1, <1>3 DEF TrendWindow
  <2>2. Shown(S, d) = Stored(S, d)
    BY <2>1 DEF Shown
  <2>3. CASE d + RetentionDays < today
    BY <1>3, <2>2, <2>3
  <2>4. CASE ~(d + RetentionDays < today)
    <3>1. \A c \in S : table[d][c] = landed[d][c]
      BY <1>1, <2>1, <2>4, PagesFinite DEF LandedInv
    <3>2. [c \in S |-> table[d][c]] = [c \in S |-> landed[d][c]]
      BY <3>1
    <3>3. Stored(S, d) = Landed(S, d)
      BY <3>2 DEF Stored, Landed
    <3> QED BY <1>3, <2>2, <2>4, <3>3
  <2> QED BY <2>3, <2>4
<1> QED BY <1>2, <1>3

LEMMA TrendFollows ==
  ASSUME SinkTypes, FutureEmpty, LandedInv
  PROVE  TrendFaithful
<1>0. SUFFICES ASSUME NEW S \in Pages, NEW h \in HostDays
               PROVE
    LET strip == Strip(S, h)
        top   == Max({strip[i].Value : i \in DOMAIN strip})
    IN
    /\ Len(strip) = trendDays
    /\ \A i \in 1..trendDays : strip[i].Day = h - trendDays + i
    /\ \A i \in 1..trendDays :
         LET d == strip[i].Day IN
         strip[i].Value = IF d \notin TrendWindow THEN 0
                          ELSE IF d + RetentionDays < today THEN Stored(S, d)
                          ELSE Landed(S, d)
    /\ \A i \in 1..trendDays :
         LET v == strip[i].Value IN
         IF v = 0 THEN strip[i].Volume = 0 /\ strip[i].Dead = 0
         ELSE /\ strip[i].Volume = Shade(v, Max({top, heatmapScaleFloor}))
              /\ strip[i].Dead = Max({2, Shade(v, top)})
  BY Zenon DEF TrendFaithful
<1>1. today \in Nat /\ trendDays \in Nat \ {0} /\ h \in Int
  BY DaysFinite, StatsTrendAssumption DEF SinkTypes, HostDays
<1> DEFINE n        == trendDays
           values   == {Shown(S, h - trendDays + i) : i \in 1..trendDays}
           max      == Max(values)
           strip    == Strip(S, h)
           day(i)   == h - trendDays + i
<1>2. /\ DOMAIN strip = 1..n /\ Len(strip) = n
      /\ \A i \in 1..n :
           /\ strip[i].Day = day(i) /\ strip[i].Value = Shown(S, day(i))
           /\ strip[i].Volume = counterLevel(Shown(S, day(i)), max)
           /\ strip[i].Dead = deadCounterLevel(Shown(S, day(i)), max)
  <2> DEFINE cells == [i \in 1..n |->
               [Day |-> day(i), Value |-> Shown(S, day(i)),
                Volume |-> counterLevel(Shown(S, day(i)), max),
                Dead |-> deadCounterLevel(Shown(S, day(i)), max)]]
  <2>1. strip = cells
    BY <1>1, StripCells
  <2>2. DOMAIN cells = 1..n /\ Len(cells) = n
    BY <1>1
  <2>3. \A i \in 1..n :
           /\ cells[i].Day = day(i) /\ cells[i].Value = Shown(S, day(i))
           /\ cells[i].Volume = counterLevel(Shown(S, day(i)), max)
           /\ cells[i].Dead = deadCounterLevel(Shown(S, day(i)), max)
    OBVIOUS
  <2> HIDE DEF cells, strip, max, day
  <2> QED BY <2>1, <2>2, <2>3
<1>3. {strip[i].Value : i \in DOMAIN strip} = values
  <2> HIDE DEF strip
  <2> QED BY <1>2
<1>4. max \in Nat /\ \A i \in 1..n : Shown(S, day(i)) <= max
  <2>1. values \in SUBSET Nat /\ values # {}
    <3>1. 1 \in 1..n
      BY <1>1
    <3> QED BY <3>1, ShownType
  <2>2. IsFiniteSet(values)
    <3>1. IsFiniteSet(1..n)
      BY <1>1, FS_Interval
    <3> DEFINE f == [i \in 1..n |-> Shown(S, day(i))]
    <3>2. \A v \in values : \E i \in 1..n : f[i] = v
      OBVIOUS
    <3>3. f \in Surjection(1..n, values)
      BY <3>2 DEF Surjection
    <3> QED BY <3>1, <3>3, FS_Surjection
  <2>3. \A i \in 1..n : Shown(S, day(i)) \in values
    OBVIOUS
  <2> HIDE DEF values, day
  <2> QED BY <2>1, <2>2, <2>3, MaxOfFinite
<1>5. ASSUME NEW i \in 1..trendDays
      PROVE  LET d == strip[i].Day IN
             strip[i].Value = IF d \notin TrendWindow THEN 0
                              ELSE IF d + RetentionDays < today THEN Stored(S, d)
                              ELSE Landed(S, d)
  <2>1. strip[i].Day = day(i) /\ strip[i].Value = Shown(S, day(i)) /\ day(i) \in Int
    <3>1. day(i) \in Int
      BY <1>1
    <3> HIDE DEF strip, day
    <3> QED BY <1>2, <3>1
  <2> HIDE DEF strip, day
  <2> QED BY <2>1, ShownLanded
<1>6. ASSUME NEW i \in 1..trendDays
      PROVE  LET v == strip[i].Value IN
             IF v = 0 THEN strip[i].Volume = 0 /\ strip[i].Dead = 0
             ELSE /\ strip[i].Volume = Shade(v, Max({max, heatmapScaleFloor}))
                  /\ strip[i].Dead = Max({2, Shade(v, max)})
  <2> DEFINE v == Shown(S, day(i))
  <2>1. v \in Nat /\ v <= max
    BY <1>4, ShownType
  <2> HIDE DEF strip, max, v
  <2>2. /\ v = 0 => counterLevel(v, max) = 0 /\ deadCounterLevel(v, max) = 0
        /\ v # 0 => /\ counterLevel(v, max) = Shade(v, Max({max, heatmapScaleFloor}))
                    /\ deadCounterLevel(v, max) = Max({2, Shade(v, max)})
    BY <1>4, <2>1, LevelsAreShades
  <2>3. /\ strip[i].Value = v /\ strip[i].Volume = counterLevel(v, max)
        /\ strip[i].Dead = deadCounterLevel(v, max)
    BY <1>2 DEF v
  <2> QED BY <2>2, <2>3
<1> HIDE DEF strip, values
<1> QED BY <1>2, <1>3, <1>5, <1>6, Zenon DEF strip

(* Whatever flushes, prunes, cascades and crashes have made of the table,  *)
(* for every window, retention, floor and difference of the clocks: a      *)
(* strip has the right days and shades, shows all that landed on the days  *)
(* of the database's window that retention covers, and every other day is  *)
(* shown empty, also when a lagging host asks for days the table has.      *)
THEOREM StripsFaithful == Spec => []TrendFaithful
<1>1. Init => FutureEmpty
  BY ZeroCounts DEF Init, FutureEmpty
<1>2. SinkTypes /\ [Next]_vars => SinkTypes'
  BY TypesStep
<1>3. SinkTypes /\ SinkTypes' /\ FutureEmpty /\ [Next]_vars => FutureEmpty'
  BY FutureStep
<1>4. SinkTypes /\ SinkTypes' /\ LandedInv /\ [Next]_vars => LandedInv'
  BY LandedStep
<1>5. SinkTypes /\ FutureEmpty /\ LandedInv => TrendFaithful
  BY TrendFollows
<1> QED BY <1>1, <1>2, <1>3, <1>4, <1>5, TypesInit, LandedInit, PTL DEF Spec
=============================================================================
