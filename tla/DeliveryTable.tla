--------------------------- MODULE DeliveryTable ----------------------------
(***************************************************************************)
(* Rows of novaque_deliveries and the WHERE clauses and SET lists that the *)
(* drivers share.  No state: the store modules hold the tables.            *)
(*                                                                         *)
(* One publish inserts one delivery per channel in a single INSERT ..      *)
(* SELECT, and AUTOINCREMENT ids are never reused, so a delivery is        *)
(* identified here by the pair <<message_id, channel_id>>; inside one      *)
(* channel the order of delivery ids is the order of message ids.          *)
(*                                                                         *)
(* SQL NULL is 0: lease tokens and lease_until values are positive.  A     *)
(* lease token is 128 random bits per row, modelled as the number of the   *)
(* lease statement that wrote it; every use of a token names its row too,  *)
(* so (row, number) is as distinct as the random token.                    *)
(***************************************************************************)
EXTENDS Integers, FiniteSets

NULL == 0

Status == {"pending", "in_flight", "dead"}

Delivery == [status       : Status,
             available_at : Nat,
             expires_at   : Nat,
             attempts     : Nat,
             max_attempts : Nat \ {0},
             lease_token  : Nat,
             lease_until  : Nat]

MessageOf(d) == d[1]
ChannelOf(d) == d[2]

(* The row publish inserts for each channel of the topic. *)
NewRow(availableAt, expiresAt, maxAttempts) ==
  [status |-> "pending", available_at |-> availableAt, expires_at |-> expiresAt,
   attempts |-> 0, max_attempts |-> maxAttempts,
   lease_token |-> NULL, lease_until |-> NULL]

(* Claim eligibility, the predicate of the poll; ChannelBacklog counts the *)
(* same rows as Ready.                                                     *)
Ready(r, now) ==
  r.status = "pending" /\ r.available_at <= now /\ r.expires_at > now

AnyLease(r, now) == r.status = "in_flight"

UnsetLease(r, now) == r.status = "in_flight" /\ r.lease_until = NULL

(* The rows ReapExpiredLeases resets. *)
LeaseLapsed(r, now) ==
  r.status = "in_flight" /\ r.lease_until # NULL /\ r.lease_until < now

PurgeablePending(r, now) == r.expires_at < now /\ r.status = "pending"

(* The rows PurgeExpired deletes: past their TTL and under no valid lease. *)
Purgeable(r, now) ==
  /\ r.expires_at < now
  /\ \/ r.status \in {"pending", "dead"}
     \/ r.status = "in_flight" /\ (r.lease_until = NULL \/ r.lease_until < now)

LeasedOneShort(r, token, until) ==
  IF r.attempts + 1 >= r.max_attempts
    THEN [r EXCEPT !.status = "dead", !.attempts = @ + 1,
                   !.lease_token = NULL, !.lease_until = NULL]
    ELSE [r EXCEPT !.status = "in_flight", !.attempts = @ + 1,
                   !.lease_token = token, !.lease_until = until]

(* The lease of one row: one more attempt, and a row that has used up its  *)
(* attempts goes to the dead letters in the same transaction.              *)
Leased(r, token, until) ==
  IF r.attempts + 1 > r.max_attempts
    THEN [r EXCEPT !.status = "dead", !.attempts = @ + 1,
                   !.lease_token = NULL, !.lease_until = NULL]
    ELSE [r EXCEPT !.status = "in_flight", !.attempts = @ + 1,
                   !.lease_token = token, !.lease_until = until]

ReleasedTokenKept(r, availableAt) ==
  [r EXCEPT !.status = "pending", !.available_at = availableAt, !.lease_until = NULL]

(* Back to pending with the lease cleared: Requeue and ReapExpiredLeases. *)
Released(r, availableAt) ==
  [r EXCEPT !.status = "pending", !.available_at = availableAt,
            !.lease_token = NULL, !.lease_until = NULL]

RevivedSpent(r, now, ttlSec) ==
  [r EXCEPT !.status = "pending", !.available_at = now,
            !.lease_token = NULL, !.lease_until = NULL,
            !.expires_at = now + ttlSec]

(* RequeueDead: a fresh life with a fresh TTL. *)
Revived(r, now, ttlSec) ==
  [r EXCEPT !.status = "pending", !.available_at = now, !.attempts = 0,
            !.lease_token = NULL, !.lease_until = NULL,
            !.expires_at = now + ttlSec]

(* ORDER BY .. LIMIT n over the rows S: the sets of rows the statement may *)
(* return.  Rows the ORDER BY does not separate come in any order.         *)
Batches(S, Before(_, _), n) ==
  {B \in SUBSET S :
     /\ Cardinality(B) = IF Cardinality(S) <= n THEN Cardinality(S) ELSE n
     /\ \A b \in B, s \in S \ B : ~Before(s, b)}

(* A table, a function on the ids of its rows, without the rows ids. *)
Without(table, ids) == [x \in DOMAIN table \ ids |-> table[x]]
=============================================================================
