----------------------------- MODULE MCRowLock ------------------------------
(***************************************************************************)
(* Instances of RowLockStore for TLC.                                      *)
(***************************************************************************)
EXTENDS RowLockQueue, TLC

(* Claimers are interchangeable. *)
SessionSymmetry == Permutations(Claimers)

(* One attempt, or two by default; a life that ends within the clock, and  *)
(* one that does not.                                                      *)
RowLockOpts == {[Delay |-> 0, TTL |-> 1000, ExpiresAt |-> 0, MaxAttempts |-> 1],
                [Delay |-> 0, TTL |-> 4000, ExpiresAt |-> 0, MaxAttempts |-> 0]}

NowOnly == {0}
=============================================================================
