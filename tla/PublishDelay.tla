---------------------------- MODULE PublishDelay ----------------------------
(***************************************************************************)
(* The time arithmetic of a publish: store/delay.go, and the choice of     *)
(* expires_at, available_at and max_attempts that every driver's publish   *)
(* makes from the caller's PublishOpts and the database clock.             *)
(*                                                                         *)
(* A Go time.Duration is an integer number of milliseconds here; what the  *)
(* code does with one (divide by a second, truncating, then clamp) is kept.*)
(* A PublishOpts is a record [Delay, TTL, ExpiresAt, MaxAttempts]; the     *)
(* zero time.Time is ExpiresAt = 0.                                        *)
(***************************************************************************)
EXTENDS Integers

CONSTANTS MaxDelay,            \* store.MaxDelay, in milliseconds
          DefaultPublishTTL,   \* store.DefaultPublishTTL, in milliseconds
          DefaultMaxAttempts   \* the drivers' fallback for MaxAttempts <= 0

ASSUME PublishDelayAssumption ==
          /\ MaxDelay \in Nat
          /\ DefaultPublishTTL \in Nat
          /\ DefaultMaxAttempts \in Nat \ {0}

Second == 1000

PublishOpts == [Delay : Int, TTL : Int, ExpiresAt : Nat, MaxAttempts : Int]

DurationSec(d) == IF d \div Second < 1 THEN 1 ELSE d \div Second

DelaySec(d) == IF d <= 0 THEN 0 ELSE d \div Second

(* The retention horizon ValidatePublishDelay compares the delay with. *)
ValidatedExpiry(opts, nowUnix) ==
  IF opts.TTL > 0
    THEN nowUnix + DurationSec(opts.TTL)
    ELSE IF opts.ExpiresAt # 0
           THEN opts.ExpiresAt
           ELSE nowUnix + DurationSec(DefaultPublishTTL)

(* Mutant: a delay that ends exactly at the expiry is let through. *)
DelayUpToExpiry(opts, nowUnix) ==
  IF opts.Delay < 0 THEN "ErrDelayNegative"
  ELSE IF opts.Delay > MaxDelay THEN "ErrDelayTooLong"
  ELSE IF nowUnix + DelaySec(opts.Delay) > ValidatedExpiry(opts, nowUnix)
         THEN "ErrDelayExceedsTTL" ELSE "ok"

ValidatePublishDelay(opts, nowUnix) ==
  CASE opts.Delay < 0           -> "ErrDelayNegative"
    [] opts.Delay > MaxDelay    -> "ErrDelayTooLong"
    [] /\ opts.Delay \in 0..MaxDelay
       /\ DelaySec(opts.Delay) # 0
       /\ nowUnix + DelaySec(opts.Delay) >= ValidatedExpiry(opts, nowUnix)
                                -> "ErrDelayExceedsTTL"
    [] OTHER                    -> "ok"

(* The expires_at publish writes on the message and, copied from it, on    *)
(* every delivery.                                                         *)
ExpiresAt(opts, nowUnix) ==
  LET ttlSec == IF opts.TTL > 0 THEN DurationSec(opts.TTL)
                                ELSE DurationSec(DefaultPublishTTL)
  IN  IF opts.TTL <= 0 /\ opts.ExpiresAt # 0 THEN opts.ExpiresAt
                                             ELSE nowUnix + ttlSec

AvailableAt(opts, nowUnix) == nowUnix + DelaySec(opts.Delay)

MaxAttemptsOf(opts) ==
  IF opts.MaxAttempts <= 0 THEN DefaultMaxAttempts ELSE opts.MaxAttempts
=============================================================================
