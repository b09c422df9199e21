---------------------------- MODULE SqliteQueue -----------------------------
(***************************************************************************)
(* The SQLite driver implements LeaseQueue: the rows of its delivery table *)
(* are the queue, a row that its message's publish could have made but     *)
(* that is not there is gone.                                              *)
(***************************************************************************)
EXTENDS SqliteStore

PhaseOfMissing(d) == IF MessageOf(d) <= lastID.message THEN "gone" ELSE "new"

QueueRowOf(d) ==
  IF d \in DOMAIN deliveries
    THEN [phase    |-> deliveries[d].status,
          attempts |-> deliveries[d].attempts,
          budget   |-> deliveries[d].max_attempts,
          token    |-> deliveries[d].lease_token]
    ELSE [phase |-> PhaseOfMissing(d), attempts |-> 0, budget |-> 0, token |-> 0]

queueOfTable == [d \in DeliveryIDs |-> QueueRowOf(d)]

Queue == INSTANCE LeaseQueue
           WITH Deliveries <- DeliveryIDs,
                Budgets    <- {MaxAttemptsOf(o) : o \in Opts},
                queue      <- queueOfTable,
                leases     <- lastID.lease

(* Every step of the driver, seen through the delivery table only, is a    *)
(* step of the lease queue: leases have new tokens and the right attempt   *)
(* count, only current holders settle, and nothing gone returns.           *)
ImplementsQueue == Queue!QueueSpec
=============================================================================
