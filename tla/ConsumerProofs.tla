--------------------------- MODULE ConsumerProofs ---------------------------
(***************************************************************************)
(* Theorems about Consumer, for any number of deliveries, handlers, runs,  *)
(* callers of Shutdown and attempts to finish.                             *)
(***************************************************************************)
EXTENDS Consumer, FiniteSetTheorems, TLAPS

Items == Deliveries \X Nat

PollerPCs == {"none", "top", "claim", "send", "closed"}
WorkerPCs == {"none", "idle", "handle", "finish", "exited"}

Types ==
  /\ queue \in [Deliveries -> QueueRow]
  /\ leases \in Nat
  /\ run \in 0..MaxRuns
  /\ poller \in [Runs -> [pc : PollerPCs, free : Nat, batch : SUBSET Items]]
  /\ work \in [Runs -> SUBSET Items]
  /\ worker \in [Workers -> [pc : WorkerPCs, item : Items \cup {NoItem},
                             ok : BOOLEAN, tries : Int]]
  /\ dispatched \subseteq Items

(* A poller has a batch only while it sends it. *)
BatchInSend ==
  \A r \in Runs : poller[r].pc # "send" => poller[r].batch = {}

(* Exactly the runs that were started have goroutines, and no other has    *)
(* anything in its channel.                                                *)
OnlyBegun ==
  /\ \A r \in Runs : r > run => poller[r].pc = "none" /\ work[r] = {}
  /\ \A r \in Runs : r <= run => poller[r].pc # "none"
  /\ \A w \in Workers : worker[w].pc = "none" <=> w[1] > run

(* Nobody has an item whose token the store has not given yet. *)
TokensGiven ==
  /\ \A r \in Runs : \A i \in InHand(r) : i[2] <= leases
  /\ \A i \in dispatched : i[2] <= leases

(* What the poller asks for fits the buffer, also after handlers have      *)
(* taken something out of it.                                              *)
Fits(buffer, p) ==
  /\ IsFiniteSet(buffer) /\ IsFiniteSet(p.batch)
  /\ p.pc = "claim" => Cardinality(buffer) + p.free <= MaxInFlight
  /\ Cardinality(p.batch \cup buffer) <= MaxInFlight

FitsBuffer == \A r \in Runs : Fits(work[r], poller[r])

(* A handler's item is dispatched, and it has one while it handles it. *)
HandledDispatched ==
  \A w \in Workers :
    /\ worker[w].item # NoItem => worker[w].item \in dispatched
    /\ worker[w].pc \in {"handle", "finish"} => worker[w].item # NoItem

(* A handler leaves only when the channel is closed and empty. *)
LeftBehind ==
  \A w \in Workers : worker[w].pc = "exited" =>
    poller[w[1]].pc = "closed" /\ work[w[1]] = {}

(* Who acks has seen its handler return nil. *)
SuccessNoted ==
  \A w \in Workers : worker[w].pc = "finish" /\ worker[w].ok =>
    worker[w].item \in succeeded

IInv == /\ Types /\ BatchInSend /\ OnlyBegun /\ TokensGiven /\ FitsBuffer
        /\ DispatchedOnce /\ HandledDispatched /\ LeftBehind /\ SuccessNoted

(* The empty tuple is no item. *)
LEMMA NoItemIsNone == NoItem \notin Items
  BY DEF NoItem, Items

(* An item is a delivery and a token. *)
LEMMA ItemParts ==
  ASSUME NEW i \in Items
  PROVE  i[1] \in Deliveries /\ i[2] \in Nat /\ i = <<i[1], i[2]>>
  BY DEF Items

(* Every operation on the queue keeps its rows rows, and takes no token    *)
(* back.                                                                   *)
LEMMA LeaseTypes ==
  ASSUME queue \in [Deliveries -> QueueRow], leases \in Nat, NEW S, Lease(S)
  PROVE  queue' \in [Deliveries -> QueueRow] /\ leases' = leases + 1
<1>1. \A d \in Deliveries : LeaseRow(queue[d], leases + 1) \in QueueRow
  <2> TAKE d \in Deliveries
  <2> DEFINE n == queue[d].attempts + 1
  <2>1. queue[d] \in QueueRow /\ n \in Nat /\ leases + 1 \in Nat
    BY DEF QueueRow
  <2>2. LeaseRow(queue[d], leases + 1) \in
          {[queue[d] EXCEPT !.phase = "dead", !.attempts = n],
           [queue[d] EXCEPT !.phase = "in_flight", !.attempts = n, !.token = leases + 1]}
    BY DEF LeaseRow
  <2> HIDE DEF n
  <2>3. [queue[d] EXCEPT !.phase = "dead", !.attempts = n] \in QueueRow
    BY <2>1 DEF QueueRow, Phases
  <2>4. [queue[d] EXCEPT !.phase = "in_flight", !.attempts = n, !.token = leases + 1]
          \in QueueRow
    BY <2>1 DEF QueueRow, Phases
  <2> QED BY <2>2, <2>3, <2>4
<1> QED BY <1>1 DEF Lease

LEMMA FinishTypes ==
  ASSUME queue \in [Deliveries -> QueueRow], NEW d, NEW k, Settle(d, k) \/ Release(d, k)
  PROVE  queue' \in [Deliveries -> QueueRow] /\ leases' = leases
<1>1. CASE Settle(d, k)
  BY <1>1 DEF Settle, Absent, QueueRow, Phases
<1>2. CASE Release(d, k)
  BY <1>2 DEF Release, QueueRow, Phases
<1> QED BY <1>1, <1>2

(* A smaller buffer and a smaller batch fit too, when nothing more is      *)
(* asked for.                                                              *)
LEMMA LessFits ==
  ASSUME NEW W, NEW p, Fits(W, p), NEW V \in SUBSET W, NEW q,
         q.batch \subseteq p.batch,
         q.pc = "claim" => p.pc = "claim" /\ q.free = p.free,
         p.free \in Nat
  PROVE  Fits(V, q)
<1>1. IsFiniteSet(W) /\ IsFiniteSet(p.batch) /\ IsFiniteSet(V) /\ IsFiniteSet(q.batch)
  BY FS_Subset DEF Fits
<1>2. IsFiniteSet(p.batch \cup W)
  BY <1>1, FS_Union
<1>3. /\ Cardinality(V) <= Cardinality(W)
      /\ Cardinality(V) \in Nat /\ Cardinality(W) \in Nat
  BY <1>1, FS_Subset, FS_CardinalityType
<1>4. q.batch \cup V \subseteq p.batch \cup W
  OBVIOUS
<1>5. /\ IsFiniteSet(q.batch \cup V)
      /\ Cardinality(q.batch \cup V) <= Cardinality(p.batch \cup W)
  BY <1>2, <1>4, FS_Subset
<1>6. Cardinality(q.batch \cup V) \in Nat /\ Cardinality(p.batch \cup W) \in Nat
  BY <1>2, <1>5, FS_CardinalityType
<1>7. MaxInFlight \in Nat
  BY ConsumerAssumption
<1> QED
  BY <1>1, <1>3, <1>5, <1>6, <1>7 DEF Fits

LEMMA InitInv == ASSUME Init PROVE IInv
<1> USE ConsumerAssumption DEF Init, QueueInit, Poller, Worker, Absent
<1>1. Types
  BY DEF Types, QueueRow, Phases, PollerPCs, WorkerPCs
<1>2. BatchInSend /\ OnlyBegun /\ TokensGiven
  BY DEF BatchInSend, OnlyBegun, TokensGiven, InHand, Runs, Workers
<1>3. FitsBuffer
  <2>1. \A r \in Runs : work[r] = {} /\ poller[r].batch = {} /\ poller[r].pc = "none"
    OBVIOUS
  <2>2. {} \cup {} = {}
    OBVIOUS
  <2>3. MaxInFlight \in Nat
    OBVIOUS
  <2> QED BY ONLY <2>1, <2>2, <2>3, FS_EmptySet, SMTT(30) DEF FitsBuffer, Fits
<1>4. DispatchedOnce /\ HandledDispatched /\ LeftBehind /\ SuccessNoted
  BY DEF DispatchedOnce, HandledDispatched, LeftBehind, SuccessNoted, InHand
<1> QED
  BY <1>1, <1>2, <1>3, <1>4 DEF IInv

LEMMA PollStopKeeps ==
  ASSUME IInv, NEW r \in Runs, PollStop(r)
  PROVE  IInv'
<1> USE ConsumerAssumption, NoItemIsNone DEF IInv, queueVars
<1>1. Types'
  BY DEF PollStop, Poller, Worker, IdleWorker, Types, QueueRow, Phases, PollerPCs, WorkerPCs
<1>2. BatchInSend'
  BY DEF PollStop, Poller, Worker, IdleWorker, Types, BatchInSend
<1>3. OnlyBegun'
  BY DEF PollStop, Poller, Worker, IdleWorker, Types, OnlyBegun
<1>4. TokensGiven'
  BY DEF PollStop, Poller, Worker, IdleWorker, Types, TokensGiven, InHand
<1>5. FitsBuffer'
  <2>1. /\ poller'[r].batch \subseteq poller[r].batch /\ work'[r] \subseteq work[r]
        /\ poller'[r].pc = "claim" => poller'[r] = poller[r]
        /\ poller[r].free \in Nat
    BY DEF PollStop, Poller, Types, Workers
  <2>2. \A q \in Runs \ {r} : poller'[q] = poller[q] /\ work'[q] = work[q]
    BY DEF PollStop, Types
  <2>3. Fits(work'[r], poller'[r])
    BY <2>1, LessFits DEF FitsBuffer, Workers
  <2> QED BY <2>2, <2>3 DEF FitsBuffer
<1>6. DispatchedOnce'
  BY DEF PollStop, Poller, Worker, IdleWorker, Types, DispatchedOnce, InHand
<1>7. HandledDispatched'
  BY DEF PollStop, Poller, Worker, IdleWorker, Types, HandledDispatched
<1>8. LeftBehind'
  BY DEF PollStop, Poller, Worker, IdleWorker, Types, LeftBehind
<1>9. SuccessNoted'
  BY DEF PollStop, Poller, Worker, IdleWorker, Types, SuccessNoted
<1> QED
  BY <1>1, <1>2, <1>3, <1>4, <1>5, <1>6, <1>7, <1>8, <1>9

LEMMA PollFreeKeeps ==
  ASSUME IInv, NEW r \in Runs, PollFree(r)
  PROVE  IInv'
<1> USE ConsumerAssumption, NoItemIsNone DEF IInv, queueVars
<1>1. Types'
  <2>1. Free(r) \in Nat
    <3>1. IsFiniteSet(work[r])
      BY DEF FitsBuffer, Fits
    <3>2. Cardinality(work[r]) \in Nat
      BY <3>1, FS_CardinalityType
    <3> QED BY <3>2 DEF Free, PollFree
  <2> HIDE DEF Free
  <2> QED BY <2>1 DEF PollFree, Poller, Types, QueueRow, Phases, PollerPCs, WorkerPCs
<1>2. BatchInSend'
  BY DEF PollFree, Poller, Worker, IdleWorker, Types, BatchInSend
<1>3. OnlyBegun'
  BY DEF PollFree, Poller, Worker, IdleWorker, Types, OnlyBegun
<1>4. TokensGiven'
  BY DEF PollFree, Poller, Worker, IdleWorker, Types, TokensGiven, InHand
<1>5. FitsBuffer'
  <2>1. poller'[r] = Poller("claim", Free(r), {}) /\ work' = work
    BY DEF PollFree, Types
  <2>2. \A q \in Runs \ {r} : poller'[q] = poller[q]
    BY DEF PollFree, Types
  <2>3. IsFiniteSet(work[r]) /\ Cardinality(work[r]) \in Nat
    BY FS_CardinalityType DEF FitsBuffer, Fits
  <2>4. /\ poller[r].batch = {} /\ Cardinality(work[r]) <= MaxInFlight
    <3>1. poller[r].batch = {} /\ poller[r].batch \cup work[r] = work[r]
      BY DEF PollFree, BatchInSend
    <3> QED BY <3>1 DEF FitsBuffer, Fits
  <2>5. {} \cup work[r] = work[r] /\ MaxInFlight \in Nat
    OBVIOUS
  <2>6. Fits(work[r], Poller("claim", Free(r), {}))
    BY ONLY <2>3, <2>4, <2>5, FS_EmptySet DEF Fits, Poller, Free
  <2> QED BY <2>1, <2>2, <2>6 DEF FitsBuffer
<1>6. DispatchedOnce'
  BY DEF PollFree, Poller, Worker, IdleWorker, Types, DispatchedOnce, InHand
<1>7. HandledDispatched'
  BY DEF PollFree, Poller, Worker, IdleWorker, Types, HandledDispatched
<1>8. LeftBehind'
  BY DEF PollFree, Poller, Worker, IdleWorker, Types, LeftBehind
<1>9. SuccessNoted'
  BY DEF PollFree, Poller, Worker, IdleWorker, Types, SuccessNoted
<1> QED
  BY <1>1, <1>2, <1>3, <1>4, <1>5, <1>6, <1>7, <1>8, <1>9

LEMMA PollClaimKeeps ==
  ASSUME IInv, NEW r \in Runs, PollClaim(r)
  PROVE  IInv'
<1> USE ConsumerAssumption, NoItemIsNone DEF IInv, queueVars
<1>s. PICK S \in SUBSET In("pending") :
        /\ Cardinality(S) <= poller[r].free
        /\ Lease(S)
        /\ LET got == {d \in S : queue'[d].phase = "in_flight"} \X {leases'} IN
           poller' = [poller EXCEPT ![r] =
                        Poller(IF got = {} THEN "top" ELSE "send", 0, got)]
  BY DEF PollClaim
<1> DEFINE got == {d \in S : queue'[d].phase = "in_flight"} \X {leases'}
<1>a. /\ poller[r].pc = "claim" /\ Cardinality(S) <= poller[r].free
      /\ poller' = [poller EXCEPT ![r] = Poller(IF got = {} THEN "top" ELSE "send", 0, got)]
      /\ leases' = leases + 1
      /\ UNCHANGED <<run, work, worker, dispatched, succeeded>>
  BY <1>s DEF PollClaim, Lease
<1>0. queue' \in [Deliveries -> QueueRow] /\ leases' \in Nat /\ leases' >= leases
  BY <1>s, LeaseTypes DEF Types
<1>1. Types'
  <2>1. got \subseteq Items
    BY <1>0 DEF Items, In
  <2> HIDE DEF got
  <2> QED BY <1>0, <1>a, <2>1 DEF Poller, Types, PollerPCs
<1>2. BatchInSend'
  BY <1>a DEF Poller, Types, BatchInSend
<1>3. OnlyBegun'
  BY <1>a DEF Poller, Types, OnlyBegun
<1>4. TokensGiven'
  <2>1. \A i \in got : i[2] <= leases'
    BY <1>0
  <2>2. \A q \in Runs : InHand(q)' \subseteq InHand(q) \cup got
    BY <1>a DEF Types, InHand, Poller
  <2>3. \A i \in Items : i[2] <= leases => i[2] <= leases'
    BY <1>0, ItemParts DEF Types
  <2>4. \A q \in Runs : InHand(q) \subseteq Items
    BY DEF Types, InHand
  <2> QED BY <2>1, <2>2, <2>3, <2>4, <1>a DEF TokensGiven, Types
<1>5. FitsBuffer'
  <2> DEFINE D == {d \in S : queue'[d].phase = "in_flight"}
  <2>1. IsFiniteSet(S) /\ D \subseteq S
    BY FS_Subset DEF In
  <2>2. IsFiniteSet(D) /\ Cardinality(D) <= Cardinality(S) /\ Cardinality(D) \in Nat
        /\ Cardinality(S) \in Nat
    BY <2>1, FS_Subset, FS_CardinalityType
  <2> HIDE DEF D
  <2>3. IsFiniteSet({leases'}) /\ Cardinality({leases'}) = 1
    BY FS_Singleton
  <2>4. IsFiniteSet(D \X {leases'}) /\ Cardinality(D \X {leases'}) = Cardinality(D) * 1
    BY <2>2, <2>3, FS_Product
  <2>5. IsFiniteSet(got) /\ Cardinality(got) = Cardinality(D)
    BY <2>2, <2>4 DEF D
  <2>6. /\ IsFiniteSet(work[r]) /\ Cardinality(work[r]) \in Nat
        /\ Cardinality(work[r]) + poller[r].free <= MaxInFlight
    BY <1>a, FS_CardinalityType DEF FitsBuffer, Fits
  <2>7. Cardinality(got \cup work[r]) <= Cardinality(got) + Cardinality(work[r])
    <3>1. /\ Cardinality(got \cup work[r]) =
               Cardinality(got) + Cardinality(work[r]) - Cardinality(got \cap work[r])
          /\ IsFiniteSet(got \cap work[r])
      BY <2>5, <2>6, FS_Union, FS_Intersection
    <3>2. Cardinality(got \cap work[r]) \in Nat
      BY <3>1, FS_CardinalityType
    <3> QED BY <3>1, <3>2, <2>2, <2>5, <2>6
  <2>8. IsFiniteSet(got \cup work[r]) /\ Cardinality(got \cup work[r]) \in Nat
    BY <2>5, <2>6, FS_Union, FS_CardinalityType
  <2>9. poller[r].free \in Nat /\ MaxInFlight \in Nat
    BY DEF Types
  <2>10. Cardinality(got \cup work[r]) <= MaxInFlight
    BY ONLY <2>2, <2>5, <2>6, <2>7, <2>8, <2>9, <1>a
  <2> HIDE DEF got
  <2>11. Fits(work'[r], poller'[r])
    BY <1>a, <2>5, <2>6, <2>10 DEF Fits, Poller, Types
  <2> QED BY <1>a, <2>11 DEF FitsBuffer, Types
<1>6. DispatchedOnce'
  <2>1. \A i \in got : i[2] = leases + 1
    BY <1>a
  <2> HIDE DEF got
  <2>2. leases \in Nat
    BY DEF Types
  <2>3. \A q \in Runs : InHand(q) \cap got = {}
    BY <2>1, <2>2 DEF TokensGiven
  <2>4. dispatched \cap got = {}
    BY <2>1, <2>2 DEF TokensGiven
  <2>5. \A q \in Runs \ {r} : InHand(q)' = InHand(q)
    BY <1>a DEF InHand, Types
  <2>6. poller'[r].batch = got /\ InHand(r)' = got \cup work[r]
    BY <1>a DEF InHand, Types, Poller
  <2>7. \A q \in Runs : poller'[q].batch \cap work'[q] = {}
    BY <1>a, <2>3, <2>6 DEF DispatchedOnce, InHand, Types
  <2>8. \A q \in Runs : InHand(q)' \cap dispatched' = {}
    BY <1>a, <2>4, <2>5, <2>6 DEF DispatchedOnce, InHand
  <2>9. \A q \in Runs : \A o \in Runs \ {q} : InHand(q)' \cap InHand(o)' = {}
    BY <2>3, <2>5, <2>6 DEF DispatchedOnce, InHand
  <2> QED BY <1>a, <2>7, <2>8, <2>9 DEF DispatchedOnce
<1>7. HandledDispatched'
  BY <1>a DEF HandledDispatched
<1>8. LeftBehind'
  BY <1>a DEF LeftBehind, Types, Poller
<1>9. SuccessNoted'
  BY <1>a DEF SuccessNoted
<1> QED
  BY <1>1, <1>2, <1>3, <1>4, <1>5, <1>6, <1>7, <1>8, <1>9

LEMMA PollNothingKeeps ==
  ASSUME IInv, NEW r \in Runs, PollNothing(r)
  PROVE  IInv'
<1> USE ConsumerAssumption, NoItemIsNone DEF IInv, queueVars
<1>0. queue' \in [Deliveries -> QueueRow] /\ leases' \in Nat /\ leases' >= leases
  <2>1. ASSUME NEW S, Lease(S) PROVE queue' \in [Deliveries -> QueueRow] /\ leases' = leases + 1
    BY <2>1, LeaseTypes DEF Types
  <2> QED BY <2>1 DEF PollNothing, Types
<1>1. Types'
  BY <1>0 DEF PollNothing, Poller, Types, PollerPCs
<1>2. BatchInSend'
  BY DEF PollNothing, Poller, Worker, IdleWorker, Types, BatchInSend
<1>3. OnlyBegun'
  BY DEF PollNothing, Poller, Worker, IdleWorker, Types, OnlyBegun
<1>4. TokensGiven'
  <2>1. \A q \in Runs : InHand(q)' \subseteq InHand(q) /\ InHand(q) \subseteq Items
    BY DEF PollNothing, Types, InHand, Poller
  <2>2. \A i \in Items : i[2] <= leases => i[2] <= leases'
    BY <1>0, ItemParts DEF Types
  <2> QED BY <2>1, <2>2 DEF PollNothing, TokensGiven, Types
<1>5. FitsBuffer'
  <2>1. /\ poller'[r].batch \subseteq poller[r].batch /\ work'[r] \subseteq work[r]
        /\ poller'[r].pc = "claim" => poller'[r] = poller[r]
        /\ poller[r].free \in Nat
    BY DEF PollNothing, Poller, Types, Workers
  <2>2. \A q \in Runs \ {r} : poller'[q] = poller[q] /\ work'[q] = work[q]
    BY DEF PollNothing, Types
  <2>3. Fits(work'[r], poller'[r])
    BY <2>1, LessFits DEF FitsBuffer, Workers
  <2> QED BY <2>2, <2>3 DEF FitsBuffer
<1>6. DispatchedOnce'
  BY DEF PollNothing, Poller, Worker, IdleWorker, Types, DispatchedOnce, InHand
<1>7. HandledDispatched'
  BY DEF PollNothing, Poller, Worker, IdleWorker, Types, HandledDispatched
<1>8. LeftBehind'
  BY DEF PollNothing, Poller, Worker, IdleWorker, Types, LeftBehind
<1>9. SuccessNoted'
  BY DEF PollNothing, Poller, Worker, IdleWorker, Types, SuccessNoted
<1> QED
  BY <1>1, <1>2, <1>3, <1>4, <1>5, <1>6, <1>7, <1>8, <1>9

LEMMA PollSendKeeps ==
  ASSUME IInv, NEW r \in Runs, PollSend(r)
  PROVE  IInv'
<1> USE ConsumerAssumption, NoItemIsNone DEF IInv, queueVars
<1>s. PICK i \in poller[r].batch :
        /\ work' = [work EXCEPT ![r] = @ \cup {i}]
        /\ LET b == Rest(poller[r].batch, i) IN
           poller' = [poller EXCEPT ![r] = Poller(IF b = {} THEN "top" ELSE "send", 0, b)]
  BY DEF PollSend
<1> DEFINE b == poller[r].batch \ {i}
<1>a. /\ poller[r].pc = "send"
      /\ work' = [work EXCEPT ![r] = work[r] \cup {i}]
      /\ poller' = [poller EXCEPT ![r] = Poller(IF b = {} THEN "top" ELSE "send", 0, b)]
      /\ UNCHANGED <<queueVars, run, worker, dispatched, succeeded>>
  BY <1>s DEF PollSend, Rest
<1>b. /\ poller'[r].batch = b /\ work'[r] = work[r] \cup {i}
      /\ \A q \in Runs \ {r} : poller'[q] = poller[q] /\ work'[q] = work[q]
  BY <1>a DEF Types, Poller
<1>c. \A q \in Runs : InHand(q)' = InHand(q)
  BY <1>b DEF InHand
<1>1. Types'
  BY <1>a DEF Poller, Types, QueueRow, Phases, PollerPCs, WorkerPCs
<1>2. BatchInSend'
  BY <1>a DEF Poller, Types, BatchInSend
<1>3. OnlyBegun'
  BY <1>a DEF Poller, Types, OnlyBegun
<1>4. TokensGiven'
  BY <1>a, <1>c DEF TokensGiven
<1>5. FitsBuffer'
  <2>1. IsFiniteSet(work[r]) /\ IsFiniteSet(poller[r].batch)
    BY DEF FitsBuffer, Fits
  <2>2. IsFiniteSet(work'[r]) /\ IsFiniteSet(poller'[r].batch)
    <3>1. IsFiniteSet(work[r] \cup {i})
      BY <2>1, FS_AddElement
    <3>2. IsFiniteSet(poller[r].batch \ {i})
      BY <2>1, FS_RemoveElement
    <3> QED BY <1>b, <3>1, <3>2
  <2>3. poller'[r].batch \cup work'[r] = poller[r].batch \cup work[r]
    BY <1>b
  <2>4. poller'[r].pc # "claim"
    BY <1>a DEF Types, Poller
  <2>5. Fits(work'[r], poller'[r])
    BY <2>2, <2>3, <2>4 DEF FitsBuffer, Fits
  <2> QED BY <1>b, <2>5 DEF FitsBuffer
<1>6. DispatchedOnce'
  <2>1. \A q \in Runs : poller'[q].batch \cap work'[q] = {}
    BY <1>b DEF DispatchedOnce
  <2> QED BY <2>1, <1>a, <1>c DEF DispatchedOnce
<1>7. HandledDispatched'
  BY <1>a DEF HandledDispatched
<1>8. LeftBehind'
  BY <1>a, <1>b DEF LeftBehind, Types, Workers
<1>9. SuccessNoted'
  BY <1>a DEF SuccessNoted
<1> QED
  BY <1>1, <1>2, <1>3, <1>4, <1>5, <1>6, <1>7, <1>8, <1>9

LEMMA PollDropKeeps ==
  ASSUME IInv, NEW r \in Runs, PollDrop(r)
  PROVE  IInv'
<1> USE ConsumerAssumption, NoItemIsNone DEF IInv, queueVars
<1>1. Types'
  BY DEF PollDrop, Poller, Worker, IdleWorker, Types, QueueRow, Phases, PollerPCs, WorkerPCs
<1>2. BatchInSend'
  BY DEF PollDrop, Poller, Worker, IdleWorker, Types, BatchInSend
<1>3. OnlyBegun'
  BY DEF PollDrop, Poller, Worker, IdleWorker, Types, OnlyBegun
<1>4. TokensGiven'
  BY DEF PollDrop, Poller, Worker, IdleWorker, Types, TokensGiven, InHand
<1>5. FitsBuffer'
  <2>1. /\ poller'[r].batch \subseteq poller[r].batch /\ work'[r] \subseteq work[r]
        /\ poller'[r].pc = "claim" => poller'[r] = poller[r]
        /\ poller[r].free \in Nat
    BY DEF PollDrop, Poller, Types, Workers
  <2>2. \A q \in Runs \ {r} : poller'[q] = poller[q] /\ work'[q] = work[q]
    BY DEF PollDrop, Types
  <2>3. Fits(work'[r], poller'[r])
    BY <2>1, LessFits DEF FitsBuffer, Workers
  <2> QED BY <2>2, <2>3 DEF FitsBuffer
<1>6. DispatchedOnce'
  BY DEF PollDrop, Poller, Worker, IdleWorker, Types, DispatchedOnce, InHand
<1>7. HandledDispatched'
  BY DEF PollDrop, Poller, Worker, IdleWorker, Types, HandledDispatched
<1>8. LeftBehind'
  BY DEF PollDrop, Poller, Worker, IdleWorker, Types, LeftBehind
<1>9. SuccessNoted'
  BY DEF PollDrop, Poller, Worker, IdleWorker, Types, SuccessNoted
<1> QED
  BY <1>1, <1>2, <1>3, <1>4, <1>5, <1>6, <1>7, <1>8, <1>9

LEMMA TakeKeeps ==
  ASSUME IInv, NEW w \in Workers, Take(w)
  PROVE  IInv'
<1> USE ConsumerAssumption, NoItemIsNone DEF IInv, queueVars
<1>s. PICK i \in work[w[1]] :
        /\ work' = [work EXCEPT ![w[1]] = @ \ {i}]
        /\ worker' = [worker EXCEPT ![w] = Worker("handle", i, FALSE, 0)]
        /\ dispatched' = dispatched \cup {i}
  BY DEF Take
<1>r. w[1] \in Runs
  BY DEF Workers
<1>a. /\ worker[w].pc = "idle" /\ i \in Items
      /\ UNCHANGED <<queueVars, run, poller, succeeded>>
      /\ work'[w[1]] = work[w[1]] \ {i}
      /\ \A q \in Runs \ {w[1]} : work'[q] = work[q]
      /\ worker'[w] = Worker("handle", i, FALSE, 0)
      /\ \A v \in Workers \ {w} : worker'[v] = worker[v]
  BY <1>s, <1>r DEF Take, Types
<1>b. /\ InHand(w[1])' = InHand(w[1]) \ {i}
      /\ \A q \in Runs \ {w[1]} : InHand(q)' = InHand(q)
  BY <1>a, <1>r DEF InHand, DispatchedOnce
<1>c. i \in InHand(w[1]) /\ i \notin dispatched
  BY <1>r DEF InHand, DispatchedOnce
<1>1. Types'
  BY <1>s, <1>a, <1>r DEF Worker, Types, QueueRow, Phases, PollerPCs, WorkerPCs
<1>2. BatchInSend'
  BY <1>a DEF BatchInSend
<1>3. OnlyBegun'
  BY <1>a, <1>r DEF Worker, OnlyBegun
<1>4. TokensGiven'
  <2>1. \A q \in Runs : InHand(q)' \subseteq InHand(q)
    BY <1>b, <1>r
  <2> QED BY <1>s, <1>a, <1>c, <1>r, <2>1 DEF TokensGiven
<1>5. FitsBuffer'
  <2>1. work'[w[1]] \subseteq work[w[1]] /\ poller'[w[1]] = poller[w[1]] /\ poller[w[1]].free \in Nat
    BY <1>a, <1>r DEF Types
  <2>2. Fits(work'[w[1]], poller'[w[1]])
    BY <2>1, <1>r, LessFits DEF FitsBuffer
  <2> QED BY <1>a, <2>2 DEF FitsBuffer
<1>6. DispatchedOnce'
  <2>1. \A q \in Runs : poller'[q].batch \cap work'[q] = {}
    BY <1>a, <1>r DEF DispatchedOnce
  <2>2. \A q \in Runs : InHand(q)' \subseteq InHand(q) /\ i \notin InHand(q)'
    BY <1>b, <1>c, <1>r DEF DispatchedOnce
  <2>3. \A q \in Runs : InHand(q)' \cap dispatched' = {}
    BY <1>s, <2>2 DEF DispatchedOnce
  <2>4. \A q \in Runs : \A o \in Runs \ {q} : InHand(q)' \cap InHand(o)' = {}
    BY <2>2 DEF DispatchedOnce
  <2>5. \A v \in Workers \ {w} : worker'[v].item # i
    BY <1>a, <1>c DEF HandledDispatched
  <2>6. worker'[w].item = i
    BY <1>a DEF Worker
  <2>7. \A u, v \in Workers :
          u # v /\ worker'[u].item # NoItem => worker'[u].item # worker'[v].item
    <3> TAKE u, v \in Workers
    <3> HAVE u # v /\ worker'[u].item # NoItem
    <3>1. CASE u = w
      BY <3>1, <2>5, <2>6
    <3>2. CASE v = w
      BY <3>2, <2>5, <2>6
    <3>3. CASE u # w /\ v # w
      BY <3>3, <1>a DEF DispatchedOnce
    <3> QED BY <3>1, <3>2, <3>3
  <2> QED BY <2>1, <2>3, <2>4, <2>7 DEF DispatchedOnce
<1>7. HandledDispatched'
  BY <1>s, <1>a DEF HandledDispatched, Worker
<1>8. LeftBehind'
  BY <1>a, <1>r DEF LeftBehind, Worker, Workers
<1>9. SuccessNoted'
  BY <1>a DEF SuccessNoted, Worker
<1> QED
  BY <1>1, <1>2, <1>3, <1>4, <1>5, <1>6, <1>7, <1>8, <1>9

LEMMA LeaveKeeps ==
  ASSUME IInv, NEW w \in Workers, Leave(w)
  PROVE  IInv'
<1> USE ConsumerAssumption, NoItemIsNone DEF IInv, queueVars
<1>1. Types'
  BY DEF Leave, Poller, Worker, IdleWorker, Types, QueueRow, Phases, PollerPCs, WorkerPCs
<1>2. BatchInSend'
  BY DEF Leave, Poller, Worker, IdleWorker, Types, BatchInSend
<1>3. OnlyBegun'
  BY DEF Leave, Poller, Worker, IdleWorker, Types, OnlyBegun
<1>4. TokensGiven'
  BY DEF Leave, Poller, Worker, IdleWorker, Types, TokensGiven, InHand
<1>5. FitsBuffer'
  BY DEF Leave, FitsBuffer
<1>6. DispatchedOnce'
  BY DEF Leave, Poller, Worker, IdleWorker, Types, DispatchedOnce, InHand
<1>7. HandledDispatched'
  BY DEF Leave, Poller, Worker, IdleWorker, Types, HandledDispatched
<1>8. LeftBehind'
  BY DEF Leave, Poller, Worker, IdleWorker, Types, LeftBehind
<1>9. SuccessNoted'
  BY DEF Leave, Poller, Worker, IdleWorker, Types, SuccessNoted
<1> QED
  BY <1>1, <1>2, <1>3, <1>4, <1>5, <1>6, <1>7, <1>8, <1>9

LEMMA HandlerReturnsKeeps ==
  ASSUME IInv, NEW w \in Workers, HandlerReturns(w)
  PROVE  IInv'
<1> USE ConsumerAssumption, NoItemIsNone DEF IInv, queueVars
<1>1. Types'
  BY DEF HandlerReturns, Poller, Worker, IdleWorker, Types, QueueRow, Phases, PollerPCs, WorkerPCs
<1>2. BatchInSend'
  BY DEF HandlerReturns, Poller, Worker, IdleWorker, Types, BatchInSend
<1>3. OnlyBegun'
  BY DEF HandlerReturns, Poller, Worker, IdleWorker, Types, OnlyBegun
<1>4. TokensGiven'
  BY DEF HandlerReturns, Poller, Worker, IdleWorker, Types, TokensGiven, InHand
<1>5. FitsBuffer'
  BY DEF HandlerReturns, FitsBuffer
<1>6. DispatchedOnce'
  BY DEF HandlerReturns, Poller, Worker, IdleWorker, Types, DispatchedOnce, InHand
<1>7. HandledDispatched'
  BY DEF HandlerReturns, Poller, Worker, IdleWorker, Types, HandledDispatched
<1>8. LeftBehind'
  BY DEF HandlerReturns, Poller, Worker, IdleWorker, Types, LeftBehind
<1>9. SuccessNoted'
  BY DEF HandlerReturns, Poller, Worker, IdleWorker, Types, SuccessNoted
<1> QED
  BY <1>1, <1>2, <1>3, <1>4, <1>5, <1>6, <1>7, <1>8, <1>9

LEMMA FinishKeeps ==
  ASSUME IInv, NEW w \in Workers, Finish(w)
  PROVE  IInv'
<1> USE ConsumerAssumption, NoItemIsNone DEF IInv, queueVars
<1>c. worker[w].item \in Items
  BY DEF Finish, HandledDispatched, Types
<1>0. queue' \in [Deliveries -> QueueRow] /\ leases' = leases
  <2>1. \E d, k : FinishCommits(w) => Settle(d, k) \/ Release(d, k)
    BY DEF FinishCommits
  <2>3. CASE FinishCommits(w)
    BY <2>1, <2>3, FinishTypes DEF Types
  <2>4. CASE UNCHANGED queueVars
    BY <2>4 DEF Types
  <2> QED BY <2>3, <2>4 DEF Finish
<1>1. Types'
  <2>1. IdleWorker \in [pc : WorkerPCs, item : Items \cup {NoItem}, ok : BOOLEAN, tries : Int]
    BY DEF IdleWorker, Worker, WorkerPCs
  <2> HIDE DEF IdleWorker
  <2>2. worker' \in [Workers -> [pc : WorkerPCs, item : Items \cup {NoItem}, ok : BOOLEAN, tries : Int]]
    BY <2>1 DEF Finish, Types
  <2> QED BY <1>0, <2>2 DEF Finish, Types
<1>2. BatchInSend'
  BY DEF Finish, Poller, Worker, IdleWorker, Types, BatchInSend
<1>3. OnlyBegun'
  BY DEF Finish, Poller, Worker, IdleWorker, Types, OnlyBegun
<1>4. TokensGiven'
  BY <1>0 DEF Finish, TokensGiven, InHand
<1>5. FitsBuffer'
  BY DEF Finish, FitsBuffer
<1>6. DispatchedOnce'
  BY DEF Finish, Poller, Worker, IdleWorker, Types, DispatchedOnce, InHand
<1>7. HandledDispatched'
  BY DEF Finish, Poller, Worker, IdleWorker, Types, HandledDispatched
<1>8. LeftBehind'
  BY DEF Finish, Poller, Worker, IdleWorker, Types, LeftBehind
<1>9. SuccessNoted'
  BY DEF Finish, Poller, Worker, IdleWorker, Types, SuccessNoted
<1> QED
  BY <1>1, <1>2, <1>3, <1>4, <1>5, <1>6, <1>7, <1>8, <1>9

LEMMA FinishFailsKeeps ==
  ASSUME IInv, NEW w \in Workers, FinishFails(w)
  PROVE  IInv'
<1> USE ConsumerAssumption, NoItemIsNone DEF IInv, queueVars
<1>c. worker[w].item \in Items
  BY DEF FinishFails, HandledDispatched, Types
<1>0. queue' \in [Deliveries -> QueueRow] /\ leases' = leases
  <2>1. \E d, k : FinishCommits(w) => Settle(d, k) \/ Release(d, k)
    BY DEF FinishCommits
  <2>3. CASE FinishCommits(w)
    BY <2>1, <2>3, FinishTypes DEF Types
  <2>4. CASE UNCHANGED queueVars
    BY <2>4 DEF Types
  <2> QED BY <2>3, <2>4 DEF FinishFails
<1>1. Types'
  <2>1. IdleWorker \in [pc : WorkerPCs, item : Items \cup {NoItem}, ok : BOOLEAN, tries : Int]
    BY DEF IdleWorker, Worker, WorkerPCs
  <2> HIDE DEF IdleWorker
  <2>2. worker' \in [Workers -> [pc : WorkerPCs, item : Items \cup {NoItem}, ok : BOOLEAN, tries : Int]]
    <3>1. worker \in [Workers -> [pc : WorkerPCs, item : Items \cup {NoItem}, ok : BOOLEAN, tries : Int]]
      BY DEF Types
    <3>2. CASE worker' = [worker EXCEPT ![w] = IdleWorker]
      BY ONLY <2>1, <3>1, <3>2
    <3>3. CASE worker' = [worker EXCEPT ![w].tries = @ - 1]
      <4>1. [worker[w] EXCEPT !.tries = @ - 1]
              \in [pc : WorkerPCs, item : Items \cup {NoItem}, ok : BOOLEAN, tries : Int]
        BY ONLY <3>1, w \in Workers
      <4> QED BY ONLY <3>1, <3>3, <4>1
    <3> QED BY <3>2, <3>3 DEF FinishFails
  <2> QED BY <1>0, <2>2 DEF FinishFails, Types
<1>2. BatchInSend'
  BY DEF FinishFails, Poller, Worker, IdleWorker, Types, BatchInSend
<1>3. OnlyBegun'
  BY DEF FinishFails, Poller, Worker, IdleWorker, Types, OnlyBegun
<1>4. TokensGiven'
  BY <1>0 DEF FinishFails, TokensGiven, InHand
<1>5. FitsBuffer'
  BY DEF FinishFails, FitsBuffer
<1>6. DispatchedOnce'
  BY SMTT(30) DEF FinishFails, Poller, Worker, IdleWorker, Types, DispatchedOnce, InHand
<1>7. HandledDispatched'
  BY DEF FinishFails, Poller, Worker, IdleWorker, Types, HandledDispatched
<1>8. LeftBehind'
  BY DEF FinishFails, Poller, Worker, IdleWorker, Types, LeftBehind
<1>9. SuccessNoted'
  BY DEF FinishFails, Poller, Worker, IdleWorker, Types, SuccessNoted
<1> QED
  BY <1>1, <1>2, <1>3, <1>4, <1>5, <1>6, <1>7, <1>8, <1>9

LEMMA StartKeeps ==
  ASSUME IInv, Start
  PROVE  IInv'
<1> USE ConsumerAssumption, NoItemIsNone DEF IInv, queueVars
<1>1. Types'
  <2>1. run + 1 \in Runs /\ run' = run + 1
    BY DEF Start, Runs, Types
  <2> QED BY <2>1 DEF Start, Poller, Worker, IdleWorker, Types, PollerPCs, WorkerPCs, Runs
<1>2. BatchInSend'
  BY DEF Start, Poller, Worker, IdleWorker, Types, BatchInSend
<1>3. OnlyBegun'
  BY SMTT(30) DEF Start, Poller, Worker, IdleWorker, Types, OnlyBegun, Runs, Workers
<1>4. TokensGiven'
  BY DEF Start, Poller, Worker, IdleWorker, Types, TokensGiven, InHand
<1>5. FitsBuffer'
  <2>0. run + 1 \in Runs
    BY DEF Start, Runs, Types
  <2>1. /\ poller'[(run + 1)].batch \subseteq poller[(run + 1)].batch /\ work'[(run + 1)] \subseteq work[(run + 1)]
        /\ poller'[(run + 1)].pc = "claim" => poller'[(run + 1)] = poller[(run + 1)]
        /\ poller[(run + 1)].free \in Nat
    BY <2>0 DEF Start, Poller, Types
  <2>2. \A q \in Runs \ {run + 1} : poller'[q] = poller[q] /\ work'[q] = work[q]
    BY DEF Start, Types
  <2>3. Fits(work'[(run + 1)], poller'[(run + 1)])
    BY <2>0, <2>1, LessFits DEF FitsBuffer
  <2> QED BY <2>2, <2>3 DEF FitsBuffer
<1>6. DispatchedOnce'
  BY DEF Start, Poller, Worker, IdleWorker, Types, DispatchedOnce, InHand
<1>7. HandledDispatched'
  BY DEF Start, Poller, Worker, IdleWorker, Types, HandledDispatched
<1>8. LeftBehind'
  BY DEF Start, Poller, Worker, IdleWorker, Types, LeftBehind
<1>9. SuccessNoted'
  BY DEF Start, Poller, Worker, IdleWorker, Types, SuccessNoted
<1> QED
  BY <1>1, <1>2, <1>3, <1>4, <1>5, <1>6, <1>7, <1>8, <1>9

LEMMA CrashKeeps ==
  ASSUME IInv, Crash
  PROVE  IInv'
<1> USE ConsumerAssumption, NoItemIsNone DEF IInv, queueVars
<1>1. Types'
  BY DEF Crash, Poller, Worker, IdleWorker, Types, QueueRow, Phases, PollerPCs, WorkerPCs
<1>2. BatchInSend'
  BY DEF Crash, Poller, Worker, IdleWorker, Types, BatchInSend
<1>3. OnlyBegun'
  BY DEF Crash, Poller, Worker, Types, OnlyBegun, Runs, Workers
<1>4. TokensGiven'
  BY DEF Crash, Poller, Worker, IdleWorker, Types, TokensGiven, InHand
<1>5. FitsBuffer'
  <2>1. \A q \in Runs : work'[q] = {} /\ poller'[q].batch = {} /\ poller'[q].pc # "claim"
    BY DEF Crash, Poller
  <2>2. {} \cup {} = {} /\ MaxInFlight \in Nat
    OBVIOUS
  <2>3. \A q \in Runs : Fits(work'[q], poller'[q])
    <3> TAKE q \in Runs
    <3>1. IsFiniteSet({}) /\ Cardinality({}) = 0 /\ 0 <= MaxInFlight
      BY <2>2, FS_EmptySet
    <3>2. IsFiniteSet(work'[q]) /\ IsFiniteSet(poller'[q].batch)
      BY <2>1, <3>1
    <3>3. Cardinality(poller'[q].batch \cup work'[q]) <= MaxInFlight
      BY <2>1, <2>2, <3>1
    <3> QED BY <2>1, <3>2, <3>3 DEF Fits
  <2> QED BY <2>3 DEF FitsBuffer
<1>6. DispatchedOnce'
  BY DEF Crash, Poller, Worker, IdleWorker, Types, DispatchedOnce, InHand
<1>7. HandledDispatched'
  BY DEF Crash, Poller, Worker, IdleWorker, Types, HandledDispatched
<1>8. LeftBehind'
  BY DEF Crash, Poller, Worker, Types, OnlyBegun, LeftBehind, Runs, Workers
<1>9. SuccessNoted'
  BY DEF Crash, Poller, Worker, IdleWorker, Types, SuccessNoted
<1> QED
  BY <1>1, <1>2, <1>3, <1>4, <1>5, <1>6, <1>7, <1>8, <1>9

(* Publishers and the reaper change the queue and nothing else. *)
LEMMA OutsideKeeps ==
  ASSUME IInv, NEW d \in Deliveries, Arrive(d) \/ Reap(d)
  PROVE  IInv'
<1> USE DEF IInv
<1>1. UNCHANGED localVars
  BY DEF Arrive, Reap
<1>2. queue' \in [Deliveries -> QueueRow] /\ leases' = leases
  <2>1. CASE Arrive(d)
    BY <2>1, LeaseQueueAssumption DEF Arrive, Enqueue, Pending, Absent, QueueRow, Phases, Types
  <2>2. CASE Reap(d)
    BY <2>2, ZenonT(30) DEF Reap, Lapse, QueueRow, Phases, Types
  <2> QED BY <2>1, <2>2
<1>3. Types' /\ BatchInSend' /\ OnlyBegun' /\ TokensGiven'
  BY <1>1, <1>2 DEF localVars, Types, BatchInSend, OnlyBegun, TokensGiven, InHand
<1>4. FitsBuffer' /\ DispatchedOnce'
  BY <1>1 DEF localVars, FitsBuffer, DispatchedOnce, InHand
<1>5. HandledDispatched' /\ LeftBehind' /\ SuccessNoted'
  BY <1>1 DEF localVars, HandledDispatched, LeftBehind, SuccessNoted
<1> QED
  BY <1>3, <1>4, <1>5

(* What Shutdown does, apart from cancelling, no goroutine sees; what it   *)
(* cancels no part of the invariant mentions.                              *)
LEMMA QuietKeeps ==
  ASSUME IInv, UNCHANGED <<queue, leases, run, poller, work, worker, dispatched, succeeded>>
  PROVE  IInv'
<1> USE DEF IInv
<1>1. Types' /\ BatchInSend' /\ OnlyBegun' /\ TokensGiven'
  BY DEF Types, BatchInSend, OnlyBegun, TokensGiven, InHand
<1>2. FitsBuffer' /\ DispatchedOnce'
  BY DEF FitsBuffer, DispatchedOnce, InHand
<1>3. HandledDispatched' /\ LeftBehind' /\ SuccessNoted'
  BY DEF HandledDispatched, LeftBehind, SuccessNoted
<1> QED
  BY <1>1, <1>2, <1>3

LEMMA NextInv ==
  ASSUME IInv, [Next]_vars
  PROVE  IInv'
<1>1. CASE UNCHANGED vars
  BY <1>1, QuietKeeps DEF vars, localVars
<1>2. ASSUME NEW d \in Deliveries, Arrive(d) \/ Reap(d) PROVE IInv'
  BY <1>2, OutsideKeeps
<1>3. ASSUME NEW r \in Runs, pollLoop(r) PROVE IInv'
  BY <1>3, PollStopKeeps, PollFreeKeeps, PollClaimKeeps, PollNothingKeeps, PollSendKeeps,
     PollDropKeeps DEF pollLoop
<1>4. ASSUME NEW w \in Workers, handleLoop(w) PROVE IInv'
  BY <1>4, TakeKeeps, LeaveKeeps, HandlerReturnsKeeps, FinishKeeps, FinishFailsKeeps
     DEF handleLoop
<1>5. CASE Start \/ Crash
  BY <1>5, StartKeeps, CrashKeeps
<1>6. CASE CancelContext
  BY <1>6, QuietKeeps DEF CancelContext, queueVars
<1>7. ASSUME NEW s \in Stoppers,
             Shutdown(s) \/ ShutdownNoop(s) \/ ShutdownDone(s) \/ ShutdownTimeout(s)
      PROVE  IInv'
  BY <1>7, QuietKeeps
     DEF Shutdown, ShutdownNoop, ShutdownDone, ShutdownTimeout, queueVars
<1> QED
  BY <1>1, <1>2, <1>3, <1>4, <1>5, <1>6, <1>7 DEF Next

(* The inductive invariant holds in every state a consumer reaches. *)
LEMMA InvHolds == Spec => []IInv
<1>1. Init => IInv
  BY InitInv
<1>2. IInv /\ [Next]_vars => IInv'
  BY NextInv
<1> QED
  BY <1>1, <1>2, PTL DEF Spec

(* One lease is handled once: the batch of a poller, its channel and the   *)
(* handlers never share an item, within one run and between overlapping    *)
(* runs of one consumer.                                                   *)
THEOREM HandledOnce == Spec => []DispatchedOnce
<1>1. IInv => DispatchedOnce
  BY DEF IInv
<1> QED
  BY <1>1, InvHolds, PTL

(* A claim never asks for more than the buffer can take, although the      *)
(* handlers empty it and other runs claim meanwhile: a send never waits.   *)
THEOREM SendsFit == Spec => []SendNeverBlocks
<1>1. IInv => SendNeverBlocks
  BY DEF IInv, FitsBuffer, Fits, SendNeverBlocks, InHand
<1> QED
  BY <1>1, InvHolds, PTL

(* A run that is over has left nothing in its channel. *)
THEOREM RunsDrain == Spec => []ChannelDrained
<1>1. IInv => ChannelDrained
  <2> SUFFICES ASSUME IInv, NEW r \in Runs, Exited(r) PROVE work[r] = {}
    BY DEF ChannelDrained
  <2>1. <<r, 1>> \in Workers /\ <<r, 1>>[1] = r
    BY ConsumerAssumption DEF Workers
  <2>2. worker[<<r, 1>>].pc \in {"none", "exited"}
    BY <2>1 DEF Exited
  <2>3. CASE worker[<<r, 1>>].pc = "none"
    BY <2>1, <2>3 DEF IInv, OnlyBegun
  <2>4. CASE worker[<<r, 1>>].pc = "exited"
    BY <2>1, <2>4 DEF IInv, LeftBehind
  <2> QED BY <2>2, <2>3, <2>4
<1> QED
  BY <1>1, InvHolds, PTL

(* A delivery leaves the queue only after a handler returned nil for it,   *)
(* under the very token it was acked with.                                 *)
THEOREM NothingLostToErrors == Spec => GoneOnlyBySuccess
<1> DEFINE Lost(d) == queue[d].phase # "gone" /\ queue'[d].phase = "gone"
           Explained == \A d \in Deliveries : Lost(d) => <<d, queue[d].token>> \in succeeded
<1>1. IInv /\ [Next]_vars => [Explained]_vars
  <2> SUFFICES ASSUME IInv, Next PROVE Explained
    OBVIOUS
  <2>1. ASSUME NEW d \in Deliveries, Arrive(d) PROVE Explained
    BY <2>1 DEF Arrive, Enqueue, Pending, IInv, Types
  <2>2. ASSUME NEW d \in Deliveries, Reap(d) PROVE Explained
    BY <2>2 DEF Reap, Lapse, IInv, Types, QueueRow
  <2>3. ASSUME NEW S, Lease(S) PROVE Explained
    BY <2>3 DEF Lease, LeaseRow, IInv, Types, QueueRow
  <2>4. ASSUME UNCHANGED queue PROVE Explained
    BY <2>4
  <2>5. ASSUME NEW w \in Workers, worker[w].pc = "finish", FinishCommits(w) PROVE Explained
    <3> DEFINE i == worker[w].item
    <3>1. i \in Items
      BY <2>5 DEF IInv, HandledDispatched, Types
    <3>2. i[1] \in Deliveries /\ i = <<i[1], i[2]>>
      BY <3>1, ItemParts
    <3>3. CASE worker[w].ok
      <4>1. i \in succeeded
        BY <2>5, <3>3 DEF IInv, SuccessNoted
      <4>2. Settle(i[1], i[2])
        BY <2>5, <3>3 DEF FinishCommits
      <4>3. \A d \in Deliveries : Lost(d) => d = i[1] /\ queue[d].token = i[2]
        BY <4>2, <3>2 DEF Settle, Holds, IInv, Types
      <4> QED BY <4>1, <4>3, <3>2
    <3>4. CASE ~worker[w].ok
      <4>1. Release(i[1], i[2])
        BY <2>5, <3>4 DEF FinishCommits
      <4> QED BY <4>1, <3>2 DEF Release, IInv, Types, QueueRow
    <3> QED BY <3>3, <3>4
  <2>6. ASSUME NEW r \in Runs, pollLoop(r) PROVE Explained
    <3>1. (\E S : Lease(S)) \/ UNCHANGED queue
      BY <2>6 DEF pollLoop, PollStop, PollFree, PollClaim, PollNothing, PollSend, PollDrop, queueVars
    <3> QED BY <3>1, <2>3, <2>4
  <2>7. ASSUME NEW w \in Workers, handleLoop(w) PROVE Explained
    <3>1. (worker[w].pc = "finish" /\ FinishCommits(w)) \/ UNCHANGED queue
      BY <2>7 DEF handleLoop, Take, Leave, HandlerReturns, Finish, FinishFails, queueVars
    <3> QED BY <3>1, <2>4, <2>5
  <2>8. CASE Start \/ CancelContext \/ Crash
    BY <2>8, <2>4 DEF Start, CancelContext, Crash, queueVars
  <2>9. ASSUME NEW s \in Stoppers,
               Shutdown(s) \/ ShutdownNoop(s) \/ ShutdownDone(s) \/ ShutdownTimeout(s)
        PROVE  Explained
    BY <2>9, <2>4 DEF Shutdown, ShutdownNoop, ShutdownDone, ShutdownTimeout, queueVars
  <2> QED
    BY <2>1, <2>2, <2>6, <2>7, <2>8, <2>9 DEF Next
<1> QED
  BY <1>1, InvHolds, PTL DEF Spec, GoneOnlyBySuccess
=============================================================================
