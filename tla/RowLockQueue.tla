---------------------------- MODULE RowLockQueue ----------------------------
(***************************************************************************)
(* The MySQL and PostgreSQL drivers implement LeaseQueue.  A delivery of a *)
(* message that an open publish has inserted is still new: it becomes      *)
(* pending with the commit, or gone with the rollback.                     *)
(***************************************************************************)
EXTENDS RowLockStore

OpenMessages == UNION {tx[p].msgs : p \in Publishers}

PhaseOfMissing(d) ==
  IF MessageOf(d) <= lastID.message /\ MessageOf(d) \notin OpenMessages
    THEN "gone" ELSE "new"

QueueRowOf(d) ==
  IF d \in DOMAIN deliveries
    THEN [phase    |-> deliveries[d].status,
          attempts |-> deliveries[d].attempts,
          budget   |-> deliveries[d].max_attempts,
          token    |-> deliveries[d].lease_token]
    ELSE [phase |-> PhaseOfMissing(d), attempts |-> 0, budget |-> 0, token |-> 0]

queueOfTable == [d \in DeliveryIDs |-> QueueRowOf(d)]

Queue == INSTANCE LeaseQueue
           WITH Deliveries <- DeliveryIDs,
                Budgets    <- {MaxAttemptsOf(o) : o \in Opts},
                queue      <- queueOfTable,
                leases     <- lastID.lease

(* Every step of the two drivers, seen through the committed delivery      *)
(* table only, is a step of the lease queue, the same specification that   *)
(* the SQLite driver implements and the Consumer runs on.                  *)
ImplementsQueue == Queue!QueueSpec
=============================================================================
