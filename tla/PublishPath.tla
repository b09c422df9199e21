----------------------------- MODULE PublishPath ----------------------------
(***************************************************************************)
(* One message on its way through the two checks of a publish: Client.     *)
(* Publish fills in the defaults and validates with the host's clock, the  *)
(* driver validates again with the database's and computes the columns it  *)
(* inserts.  The two clocks agree on nothing and both move between the     *)
(* checks.  Direct users of the store interface skip the client's half.    *)
(***************************************************************************)
EXTENDS PublishDelay

CONSTANTS UserOpts,     \* PublishOpts passed to Client.Publish
          StoreOpts,    \* PublishOpts passed straight to the store
          DefaultTTL,   \* Options.DefaultTTL, Options.DefaultMaxAttempts
          ClientMaxAttempts,
          Clock         \* values either clock may show

ASSUME PublishPathAssumption ==
  /\ UserOpts \subseteq {o \in PublishOpts : o.ExpiresAt = 0}
  /\ StoreOpts \subseteq PublishOpts
  /\ DefaultTTL \in Nat \ {0}
  /\ ClientMaxAttempts \in Nat \ {0}
  /\ Clock \subseteq Nat

VARIABLES pc, opts, viaClient, row
pathVars == <<pc, opts, viaClient, row>>

NoRow == [available_at |-> 0, expires_at |-> 0, max_attempts |-> 0, at |-> 0]

(* The options Client.Publish passes on. *)
Filled(o) ==
  [Delay       |-> o.Delay,
   TTL         |-> IF o.TTL <= 0 THEN DefaultTTL ELSE o.TTL,
   ExpiresAt   |-> 0,
   MaxAttempts |-> IF o.MaxAttempts <= 0 THEN ClientMaxAttempts ELSE o.MaxAttempts]

PathInit ==
  /\ row = NoRow
  /\ \/ pc = "client" /\ viaClient = TRUE /\ opts \in UserOpts
     \/ pc = "driver" /\ viaClient = FALSE /\ opts \in StoreOpts

(* Mutant: the check looks at the caller's options, before the defaults. *)
CheckedBeforeDefaults(hostNow) ==
  /\ pc = "client"
  /\ opts' = Filled(opts)
  /\ pc' = IF ValidatePublishDelay(opts, hostNow) = "ok"
             THEN "driver" ELSE "refused by client"
  /\ UNCHANGED <<viaClient, row>>

ClientPublish(hostNow) ==
  /\ pc = "client"
  /\ opts' = Filled(opts)
  /\ pc' = IF ValidatePublishDelay(Filled(opts), hostNow) = "ok"
             THEN "driver" ELSE "refused by client"
  /\ UNCHANGED <<viaClient, row>>

(* at is the clock the driver read. *)
DriverPublish(nowUnix) ==
  /\ pc = "driver"
  /\ IF ValidatePublishDelay(opts, nowUnix) = "ok"
       THEN /\ pc' = "stored"
            /\ row' = [available_at |-> AvailableAt(opts, nowUnix),
                       expires_at   |-> ExpiresAt(opts, nowUnix),
                       max_attempts |-> MaxAttemptsOf(opts),
                       at           |-> nowUnix]
       ELSE pc' = "refused by driver" /\ row' = row
  /\ UNCHANGED <<opts, viaClient>>

Done == pc \notin {"client", "driver"} /\ UNCHANGED pathVars

PathNext == (\E t \in Clock : ClientPublish(t) \/ DriverPublish(t)) \/ Done

PathSpec == PathInit /\ [][PathNext]_pathVars

(* What the client let through the driver lets through too, whatever the   *)
(* skew between the two clocks: the client sends a TTL, and the check then *)
(* compares offsets only.                                                  *)
ClientCheckSuffices == viaClient => pc # "refused by driver"

(* A stored delivery with a delay becomes available before it expires, and *)
(* one published through the client is never born expired: there is always *)
(* a second in which it can be claimed.                                    *)
StoredHasWindow ==
  pc = "stored" =>
    /\ row.available_at > row.at \/ viaClient => row.available_at < row.expires_at
    /\ row.max_attempts >= 1
=============================================================================
