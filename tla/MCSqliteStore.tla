--------------------------- MODULE MCSqliteStore ----------------------------
(***************************************************************************)
(* Instances of SqliteStore for TLC.                                       *)
(***************************************************************************)
EXTENDS SqliteQueue, TLC

(* Claimers are interchangeable; only safety is checked under it. *)
ClaimerSymmetry == Permutations(Claimers)
PurgerSymmetry == Permutations(Purgers)

Opt(delay, ttl, at, attempts) ==
  [Delay |-> delay, TTL |-> ttl, ExpiresAt |-> at, MaxAttempts |-> attempts]

(* One attempt and a two second TTL; publishes with a second's delay. *)
QueueOpts == {Opt(0, 2500, 0, 1), Opt(1000, 2000, 0, 1)}

(* One attempt; an absolute expiry that may already be past. *)
AdminOpts == {Opt(0, 1000, 0, 1), Opt(500, 0, 1, 1)}

(* Two lives for the liveness instance: one within its clock, one beyond. *)
RecoveryOpts == {Opt(0, 1000, 0, 1), Opt(0, 9000, 0, 2)}

NowOnly == {0}
=============================================================================
