------------------------ MODULE DeliveryTableProofs -------------------------
(***************************************************************************)
(* Facts about publish times and delivery rows that the proofs about both  *)
(* store modules use.                                                      *)
(***************************************************************************)
EXTENDS PublishDelay, DeliveryTable, TLAPS

(* What publish writes is a second, and a positive number of attempts. *)
LEMMA PublishTimes ==
  ASSUME NEW opts \in PublishOpts, NEW t \in Nat
  PROVE  /\ ExpiresAt(opts, t) \in Nat
         /\ AvailableAt(opts, t) \in Nat
         /\ MaxAttemptsOf(opts) \in Nat \ {0}
<1> USE PublishDelayAssumption DEF PublishOpts, Second
<1>1. \A d \in Int : DurationSec(d) \in Nat /\ DelaySec(d) \in Nat
  BY DEF DurationSec, DelaySec
<1>2. ExpiresAt(opts, t) \in Nat
  BY <1>1 DEF ExpiresAt
<1>3. AvailableAt(opts, t) \in Nat
  BY <1>1 DEF AvailableAt
<1>4. MaxAttemptsOf(opts) \in Nat \ {0}
  BY DEF MaxAttemptsOf
<1> QED BY <1>2, <1>3, <1>4

(* Every SET list maps rows to rows. *)
LEMMA RowTypes ==
  ASSUME NEW r \in Delivery, NEW token \in Nat, NEW time \in Nat, NEW ttl \in Nat
  PROVE  /\ Leased(r, token, time) \in Delivery
         /\ Released(r, time) \in Delivery
         /\ Revived(r, time, ttl) \in Delivery
<1>1. Leased(r, token, time) \in Delivery
  <2> DEFINE n == r.attempts + 1
  <2>1. n \in Nat
    BY DEF Delivery
  <2>2. Leased(r, token, time) \in
          {[r EXCEPT !.status = "dead", !.attempts = n,
                     !.lease_token = NULL, !.lease_until = NULL],
           [r EXCEPT !.status = "in_flight", !.attempts = n,
                     !.lease_token = token, !.lease_until = time]}
    BY DEF Leased
  <2> HIDE DEF n
  <2>3. [r EXCEPT !.status = "dead", !.attempts = n,
                  !.lease_token = NULL, !.lease_until = NULL] \in Delivery
    BY <2>1 DEF Delivery, Status, NULL
  <2>4. [r EXCEPT !.status = "in_flight", !.attempts = n,
                  !.lease_token = token, !.lease_until = time] \in Delivery
    BY <2>1 DEF Delivery, Status, NULL
  <2> QED BY <2>2, <2>3, <2>4
<1>2. Released(r, time) \in Delivery
  BY DEF Delivery, Released, Status, NULL
<1>3. Revived(r, time, ttl) \in Delivery
  <2> DEFINE e == time + ttl
  <2>1. e \in Nat
    OBVIOUS
  <2> HIDE DEF e
  <2>2. [r EXCEPT !.status = "pending", !.available_at = time, !.attempts = 0,
                  !.lease_token = NULL, !.lease_until = NULL, !.expires_at = e]
          \in Delivery
    BY <2>1 DEF Delivery, Status, NULL
  <2> QED BY <2>2 DEF Revived, e
<1> QED BY <1>1, <1>2, <1>3

(* DELETE keeps the rows it does not name as they were. *)
LEMMA WithoutType ==
  ASSUME NEW T, NEW D, NEW f \in [D -> T], NEW S
  PROVE  /\ Without(f, S) \in [DOMAIN Without(f, S) -> T]
         /\ DOMAIN Without(f, S) = D \ S
         /\ \A x \in D \ S : Without(f, S)[x] = f[x]
  BY DEF Without

(* A batch is a part of the rows it was selected from. *)
LEMMA BatchSubset ==
  ASSUME NEW S, NEW Before(_, _), NEW n, NEW B \in Batches(S, Before, n)
  PROVE  B \subseteq S
  BY DEF Batches

----------------------------------------------------------------------------
(* Rows as the lease queue sees them. *)

(* What the refinement mappings show of a stored row. *)
Shown(r) == [phase    |-> r.status,
             attempts |-> r.attempts,
             budget   |-> r.max_attempts,
             token    |-> r.lease_token]

Image == [phase : Status, attempts : Nat, budget : Nat, token : Nat]

(* What the SET lists of claim, release and requeue-dead do to a row is    *)
(* what the queue's actions do to its image.                               *)
LEMMA ShownLeased ==
  ASSUME NEW r \in Delivery, r.lease_token = 0, NEW token \in Nat, NEW time \in Nat
  PROVE  Shown(Leased(r, token, time)) =
           IF r.attempts + 1 > r.max_attempts
             THEN [Shown(r) EXCEPT !.phase = "dead", !.attempts = r.attempts + 1]
             ELSE [Shown(r) EXCEPT !.phase = "in_flight", !.attempts = r.attempts + 1,
                                   !.token = token]
<1> DEFINE n == r.attempts + 1
           s == Leased(r, token, time)
<1>1. n \in Nat /\ r.attempts \in Nat /\ r.max_attempts \in Nat
  BY DEF Delivery
<1>2. /\ s.attempts = n /\ s.max_attempts = r.max_attempts
      /\ n > r.max_attempts => s.status = "dead" /\ s.lease_token = 0
      /\ ~(n > r.max_attempts) => s.status = "in_flight" /\ s.lease_token = token
  BY DEF Leased, Delivery, NULL
<1>3. Shown(r) \in Image /\ Shown(r).budget = r.max_attempts /\ Shown(r).token = 0
  BY DEF Delivery, Status, Shown, Image
<1> HIDE DEF n, s
<1>4. CASE n > r.max_attempts
  <2> DEFINE q == [Shown(r) EXCEPT !.phase = "dead", !.attempts = n]
  <2>1. /\ q \in Image /\ q.phase = "dead" /\ q.token = 0
        /\ q.attempts = n /\ q.budget = r.max_attempts
    BY <1>1, <1>3 DEF Image, Status
  <2>2. /\ Shown(s) \in Image /\ Shown(s).phase = "dead" /\ Shown(s).token = 0
        /\ Shown(s).attempts = n /\ Shown(s).budget = r.max_attempts
    BY <1>1, <1>2, <1>4 DEF Shown, Image, Status
  <2> HIDE DEF q
  <2>3. Shown(s) = q
    BY <2>1, <2>2 DEF Image
  <2> QED BY <1>4, <2>3 DEF n, s, q
<1>5. CASE ~(n > r.max_attempts)
  <2> DEFINE q == [Shown(r) EXCEPT !.phase = "in_flight", !.attempts = n, !.token = token]
  <2>1. /\ q \in Image /\ q.phase = "in_flight" /\ q.token = token
        /\ q.attempts = n /\ q.budget = r.max_attempts
    BY <1>1, <1>3 DEF Image, Status
  <2>2. /\ Shown(s) \in Image /\ Shown(s).phase = "in_flight" /\ Shown(s).token = token
        /\ Shown(s).attempts = n /\ Shown(s).budget = r.max_attempts
    BY <1>1, <1>2, <1>5 DEF Shown, Image, Status
  <2> HIDE DEF q
  <2>3. Shown(s) = q
    BY <2>1, <2>2 DEF Image
  <2> QED BY <1>5, <2>3 DEF n, s, q
<1> QED BY <1>4, <1>5

LEMMA ShownReleased ==
  ASSUME NEW r \in Delivery, NEW time \in Nat
  PROVE  Shown(Released(r, time)) = [Shown(r) EXCEPT !.phase = "pending", !.token = 0]
<1> DEFINE s == Released(r, time)
           q == [Shown(r) EXCEPT !.phase = "pending", !.token = 0]
<1>1. /\ s.status = "pending" /\ s.lease_token = 0
      /\ s.attempts = r.attempts /\ s.max_attempts = r.max_attempts
      /\ r.attempts \in Nat /\ r.max_attempts \in Nat
  BY DEF Released, Delivery, NULL
<1>2. Shown(r) \in Image
  BY DEF Delivery, Status, Shown, Image
<1>3. Shown(r).attempts = r.attempts /\ Shown(r).budget = r.max_attempts
  BY DEF Shown
<1>4. /\ q \in Image /\ q.phase = "pending" /\ q.token = 0
      /\ q.attempts = r.attempts /\ q.budget = r.max_attempts
  BY <1>2, <1>3 DEF Image, Status
<1> HIDE DEF s, q
<1>5. /\ Shown(s) \in Image /\ Shown(s).phase = "pending" /\ Shown(s).token = 0
      /\ Shown(s).attempts = r.attempts /\ Shown(s).budget = r.max_attempts
  BY <1>1 DEF Shown, Image, Status
<1>6. Shown(s) = q
  BY <1>4, <1>5 DEF Image
<1> QED BY <1>6 DEF s, q

LEMMA ShownRevived ==
  ASSUME NEW r \in Delivery, r.lease_token = 0, NEW time \in Nat, NEW ttl \in Nat
  PROVE  Shown(Revived(r, time, ttl)) =
           [Shown(r) EXCEPT !.phase = "pending", !.attempts = 0]
<1> DEFINE s == Revived(r, time, ttl)
           q == [Shown(r) EXCEPT !.phase = "pending", !.attempts = 0]
<1>1. /\ s.status = "pending" /\ s.lease_token = 0
      /\ s.attempts = 0 /\ s.max_attempts = r.max_attempts /\ r.max_attempts \in Nat
  BY DEF Revived, Delivery, NULL
<1>2. Shown(r) \in Image
  BY DEF Delivery, Status, Shown, Image
<1>3. Shown(r).token = 0 /\ Shown(r).budget = r.max_attempts
  BY DEF Shown
<1>4. /\ q \in Image /\ q.phase = "pending" /\ q.token = 0
      /\ q.attempts = 0 /\ q.budget = r.max_attempts
  BY <1>2, <1>3 DEF Image, Status
<1> HIDE DEF s, q
<1>5. /\ Shown(s) \in Image /\ Shown(s).phase = "pending" /\ Shown(s).token = 0
      /\ Shown(s).attempts = 0 /\ Shown(s).budget = r.max_attempts
  BY <1>1 DEF Shown, Image, Status
<1>6. Shown(s) = q
  BY <1>4, <1>5 DEF Image
<1> QED BY <1>6 DEF s, q
=============================================================================
