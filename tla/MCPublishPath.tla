--------------------------- MODULE MCPublishPath ----------------------------
(***************************************************************************)
(* PublishPath on every combination of durations around its boundaries:    *)
(* negative, zero, below a second, a fraction over a second, the exact     *)
(* second, MaxDelay and just above it.                                     *)
(***************************************************************************)
EXTENDS PublishPath

Durations == {-1000, 0, 1, 999, 1000, 1999, 2000, 3000, 3001}

MCUserOpts == [Delay : Durations, TTL : Durations, ExpiresAt : {0}, MaxAttempts : {-1, 0, 2}]
MCStoreOpts == [Delay : Durations, TTL : Durations, ExpiresAt : 0..4, MaxAttempts : {0, 1}]
MCClock == 1..4
=============================================================================
