----------------------------- MODULE LeaseQueue -----------------------------
(***************************************************************************)
(* What store.Store promises about one delivery, whichever driver is       *)
(* behind it: it is pending, leased under one token, or dead; every lease  *)
(* has a new token; only the holder of the current token settles it; and   *)
(* once it is gone it never comes back.  No tables, clocks, transactions   *)
(* or batches.  SqliteStore and RowLockStore implement this specification, *)
(* and Consumer runs on top of it.                                         *)
(***************************************************************************)
EXTENDS Integers

CONSTANTS Deliveries,   \* ids of deliveries
          Budgets       \* values of max_attempts

ASSUME LeaseQueueAssumption == Budgets \subseteq Nat \ {0}

VARIABLES queue,   \* delivery -> its row
          leases   \* number of leases given so far; the newest token

queueVars == <<queue, leases>>

Phases == {"new", "pending", "in_flight", "dead", "gone"}

QueueRow == [phase : Phases, attempts : Nat, budget : Nat, token : Nat]

Absent(phase) == [phase |-> phase, attempts |-> 0, budget |-> 0, token |-> 0]

Pending(b) == [phase |-> "pending", attempts |-> 0, budget |-> b, token |-> 0]

In(phase) == {d \in Deliveries : queue[d].phase = phase}

Stored == In("pending") \cup In("in_flight") \cup In("dead")

Holds(d, k) == queue[d].phase = "in_flight" /\ queue[d].token = k

(* The attempt that exceeds the budget buries the row instead. *)
LeaseRow(r, k) ==
  IF r.attempts + 1 > r.budget
    THEN [r EXCEPT !.phase = "dead", !.attempts = @ + 1]
    ELSE [r EXCEPT !.phase = "in_flight", !.attempts = @ + 1, !.token = k]

QueueInit ==
  /\ queue = [d \in Deliveries |-> Absent("new")]
  /\ leases = 0

(* A publish: S are the deliveries it inserts, and no later publish uses   *)
(* the ids in Skipped.                                                     *)
Enqueue(S, Skipped, b) ==
  /\ S \cup Skipped \subseteq In("new")
  /\ queue' = [d \in Deliveries |-> IF d \in S THEN Pending(b)
                                    ELSE IF d \in Skipped THEN Absent("gone")
                                    ELSE queue[d]]
  /\ UNCHANGED leases

(* A claim of the pending rows S. *)
Lease(S) ==
  /\ S # {}
  /\ S \subseteq In("pending")
  /\ leases' = leases + 1
  /\ queue' = [d \in Deliveries |-> IF d \in S THEN LeaseRow(queue[d], leases + 1)
                                               ELSE queue[d]]

(* Ack and Requeue by the holder of token k. *)
Settle(d, k) ==
  /\ Holds(d, k)
  /\ queue' = [queue EXCEPT ![d] = Absent("gone")]
  /\ UNCHANGED leases

Release(d, k) ==
  /\ Holds(d, k)
  /\ queue' = [queue EXCEPT ![d].phase = "pending", ![d].token = 0]
  /\ UNCHANGED leases

(* The reaper returns leased rows. *)
Lapse(S) ==
  /\ S \subseteq In("in_flight")
  /\ queue' = [d \in Deliveries |->
                 IF d \in S THEN [queue[d] EXCEPT !.phase = "pending", !.token = 0]
                            ELSE queue[d]]
  /\ UNCHANGED leases

(* A dead letter gets a new life. *)
Revive(d) ==
  /\ queue[d].phase = "dead"
  /\ queue' = [queue EXCEPT ![d].phase = "pending", ![d].attempts = 0]
  /\ UNCHANGED leases

(* Purge, dead-letter delete and the cascades. *)
Remove(S) ==
  /\ S \subseteq Stored
  /\ queue' = [d \in Deliveries |-> IF d \in S THEN Absent("gone") ELSE queue[d]]
  /\ UNCHANGED leases

QueueNext ==
  \/ \E S \in SUBSET In("new"), b \in Budgets :
       \E Skipped \in SUBSET (In("new") \ S) : Enqueue(S, Skipped, b)
  \/ \E S \in SUBSET In("pending") : Lease(S)
  \/ \E S \in SUBSET In("in_flight") : Lapse(S)
  \/ \E S \in SUBSET Stored : Remove(S)
  \/ \E d \in Deliveries :
       \/ \E k \in 1..leases : Settle(d, k) \/ Release(d, k)
       \/ Revive(d)

QueueSpec == QueueInit /\ [][QueueNext]_queueVars
=============================================================================
