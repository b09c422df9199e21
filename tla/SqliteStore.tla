---------------------------- MODULE SqliteStore -----------------------------
(***************************************************************************)
(* driver/sqlite: the queue's tables and every operation that writes them, *)
(* run by any number of processes and goroutines over one database file.   *)
(*                                                                         *)
(* SQLite gives snapshot transactions with a single writer.  A statement   *)
(* outside a transaction, and a transaction from its first write to its    *)
(* commit, is therefore one step; what is not one step in the code is not  *)
(* one step here:                                                          *)
(*   - Claim polls (a read snapshot), then leases (the first write); any   *)
(*     commit in between makes the lease fail SQLITE_BUSY_SNAPSHOT, and    *)
(*     the whole transaction is tried again, claimMaxAttempts times;       *)
(*   - PurgeExpired is four statements with no transaction around them;    *)
(*   - Publish and RequeueDead read the clock in an earlier statement than *)
(*     the one that commits, so their "now" may be old (ClockReads).       *)
(*                                                                         *)
(* unixepoch() is the variable now; it only moves forward.  Statements     *)
(* that match no row (a rejected Ack, ErrDeadGone, ErrTopicGone on the     *)
(* topic's foreign key, a second DeleteTopic) change nothing and are       *)
(* stuttering steps: their conditions are the guards of the actions.       *)
(***************************************************************************)
EXTENDS PublishDelay, DeliveryTable

CONSTANTS
  TopicNames, ChannelNames,   \* names users publish and subscribe to
  Claimers,                   \* goroutines that call Claim
  Purgers,                    \* goroutines that call PurgeExpired
  Opts,                       \* the PublishOpts that publishers use
  RequeueAt,                  \* availableAt arguments of Requeue; 0: zero time
  LeaseSec,                   \* DurationSec(leaseFor) of every Claim
  ClaimLimit, ReapLimit, PurgeLimit,   \* LIMIT of the three batches
  FreshTTLSec,                \* DurationSec(freshTTL) of RequeueDead
  claimMaxAttempts,           \* transactions one Claim may try
  \* Bounds of the checked instance.
  MaxNow,                     \* last second of the clock
  MaxTopicID, MaxChannelID, MaxMessageID, MaxLeases,
  MaxStall                    \* seconds between a clock read and its commit

ASSUME SqliteStoreAssumption ==
  /\ Opts \subseteq PublishOpts
  /\ RequeueAt \subseteq Nat
  /\ {LeaseSec, ClaimLimit, ReapLimit, PurgeLimit, FreshTTLSec, claimMaxAttempts}
       \subseteq Nat \ {0}
  /\ {MaxNow, MaxTopicID, MaxChannelID, MaxMessageID, MaxLeases, MaxStall}
       \subseteq Nat

VARIABLES
  now,           \* unixepoch(), in seconds
  topics,        \* novaque_topics: id -> name
  channels,      \* novaque_channels: id -> [topic_id, name]
  messages,      \* novaque_messages: id -> [topic_id, expires_at]
  deliveries,    \* novaque_deliveries: <<message, channel>> -> Delivery
  lastID,        \* sqlite_sequence, and the number of lease statements run
  counters,      \* event counters recorded for <<topic, channel>>
  claim,         \* the Claim call each claimer is in
  fresh,         \* claimers whose open snapshot is still the latest
  purge,         \* the PurgeExpired call each purger is in
  issued,        \* <<delivery, token>> pairs returned by Claim
  acked,         \* <<delivery, token>> pairs whose Ack succeeded
  requeued       \* <<delivery, token>> pairs whose Requeue succeeded

tables == <<topics, channels, messages, deliveries>>
vars == <<now, topics, channels, messages, deliveries, lastID, counters,
          claim, fresh, purge, issued, acked, requeued>>

TopicIDs   == 1..MaxTopicID
ChannelIDs == 1..MaxChannelID
MessageIDs == 1..MaxMessageID
DeliveryIDs == MessageIDs \X ChannelIDs
Tokens     == 1..MaxLeases
StatKinds  == {"publish", "claim", "ack", "requeue", "dead", "purged"}

(* Stats coordinates; channel 0 is the sentinel of zero-channel publishes. *)
StatCoords == TopicIDs \X (ChannelIDs \cup {0})

CounterTables == [StatCoords -> [StatKinds -> Nat]]

(* Program points of a Claim call: idle outside, retry between two         *)
(* transactions, polled between the poll and the lease.                    *)
ClaimCalls == [pc : {"idle", "retry", "polled"}, channel : 0..MaxChannelID,
               ids : SUBSET DeliveryIDs, attempt : 0..(claimMaxAttempts - 1)]

(* Of a PurgeExpired call: the statement that comes next. *)
PurgeCalls == [pc : {"idle", "delete", "orphans", "delete_orphans"},
               ids : SUBSET DeliveryIDs, msgs : SUBSET MessageIDs]

NoClaim == [pc |-> "idle", channel |-> 0, ids |-> {}, attempt |-> 0]
NoPurge == [pc |-> "idle", ids |-> {}, msgs |-> {}]

----------------------------------------------------------------------------
(* Reading the tables. *)

TopicOf(c) == channels[c].topic_id
ChannelsOf(t) == {c \in DOMAIN channels : channels[c].topic_id = t}
MessagesOf(t) == {m \in DOMAIN messages : messages[m].topic_id = t}
DeliveriesOf(c) == {d \in DOMAIN deliveries : ChannelOf(d) = c}

CascadeOff(ms) == {}

(* Deliveries removed by ON DELETE CASCADE with the messages ms. *)
Cascaded(ms) == {d \in DOMAIN deliveries : MessageOf(d) \in ms}

ReadyIn(c) == {d \in DeliveriesOf(c) : Ready(deliveries[d], now)}

ExpiredMessages == {m \in DOMAIN messages : messages[m].expires_at < now}

Orphans == {m \in DOMAIN messages : /\ messages[m].expires_at < now
                                    /\ Cascaded({m}) = {}}

(* What a SELECT unixepoch() made at most MaxStall seconds ago returned. *)
ClockReads == {t \in 0..now : now - t <= MaxStall}

(* ORDER BY available_at, id; ORDER BY lease_until; ORDER BY expires_at. *)
PollOrder(d, e) ==
  \/ deliveries[d].available_at < deliveries[e].available_at
  \/ /\ deliveries[d].available_at = deliveries[e].available_at
     /\ MessageOf(d) < MessageOf(e)
ReapOrder(d, e) == deliveries[d].lease_until < deliveries[e].lease_until
PurgeOrder(d, e) == deliveries[d].expires_at < deliveries[e].expires_at
OrphanOrder(m, n) == messages[m].expires_at < messages[n].expires_at

(* Set-based UPDATE: row d of ids becomes New(d). *)
Updated(ids, New(_)) ==
  [d \in DOMAIN deliveries |-> IF d \in ids THEN New(d) ELSE deliveries[d]]

(* recordStat for each of the deliveries ids, at the topic their channel   *)
(* belongs to.                                                             *)
recordStat(cnt, kind, ids) ==
  [k \in StatCoords |->
     [cnt[k] EXCEPT ![kind] =
        @ + Cardinality({d \in ids : <<TopicOf(ChannelOf(d)), ChannelOf(d)>> = k})]]

(* A committed write: every open snapshot falls behind. *)
Commit == fresh' = {}

----------------------------------------------------------------------------
(* Time and topology. *)

Tick ==
  /\ now < MaxNow
  /\ now' = now + 1
  /\ UNCHANGED <<topics, channels, messages, deliveries, lastID, counters,
                 claim, fresh, purge, issued, acked, requeued>>

(* EnsureTopic: INSERT OR IGNORE on the unique name. *)
EnsureTopic(name) ==
  /\ lastID.topic < MaxTopicID
  /\ \A t \in DOMAIN topics : topics[t] # name
  /\ LET id == lastID.topic + 1 IN
     /\ lastID' = [lastID EXCEPT !.topic = id]
     /\ topics' = [t \in DOMAIN topics \cup {id} |->
                     IF t = id THEN name ELSE topics[t]]
  /\ Commit
  /\ UNCHANGED <<now, channels, messages, deliveries, counters, claim, purge,
                 issued, acked, requeued>>

(* EnsureChannel, after it resolved the topic to id t (its own EnsureTopic *)
(* is the action above): INSERT OR IGNORE on (topic_id, name), refused by  *)
(* the foreign key when the topic is gone by now.                          *)
EnsureChannel(t, name) ==
  /\ lastID.channel < MaxChannelID
  /\ t \in DOMAIN topics
  /\ \A c \in ChannelsOf(t) : channels[c].name # name
  /\ LET id == lastID.channel + 1 IN
     /\ lastID' = [lastID EXCEPT !.channel = id]
     /\ channels' = [c \in DOMAIN channels \cup {id} |->
                       IF c = id THEN [topic_id |-> t, name |-> name]
                                 ELSE channels[c]]
  /\ Commit
  /\ UNCHANGED <<now, topics, messages, deliveries, counters, claim, purge,
                 issued, acked, requeued>>

(* Publish under topic id t, with nowUnix the clock it read first: insert  *)
(* the message, fan out to every channel of the topic, count one publish   *)
(* per channel or one on the sentinel.                                     *)
Publish(t, opts, nowUnix) ==
  /\ lastID.message < MaxMessageID
  /\ ValidatePublishDelay(opts, nowUnix) = "ok"
  /\ t \in DOMAIN topics
  /\ LET id     == lastID.message + 1
         expiry == ExpiresAt(opts, nowUnix)
         new    == {id} \X ChannelsOf(t)
         row    == NewRow(AvailableAt(opts, nowUnix), expiry, MaxAttemptsOf(opts))
     IN
     /\ lastID' = [lastID EXCEPT !.message = id]
     /\ messages' = [m \in DOMAIN messages \cup {id} |->
                       IF m = id THEN [topic_id |-> t, expires_at |-> expiry]
                                 ELSE messages[m]]
     /\ deliveries' = [d \in DOMAIN deliveries \cup new |->
                         IF d \in new THEN row ELSE deliveries[d]]
     /\ counters' = IF new = {}
                      THEN [counters EXCEPT ![<<t, 0>>]["publish"] = @ + 1]
                      ELSE recordStat(counters, "publish", new)
  /\ Commit
  /\ UNCHANGED <<now, topics, channels, claim, purge, issued, acked, requeued>>

----------------------------------------------------------------------------
(* Claim. *)

(* The poll of runClaimTx on channel c, in a first transaction or in a     *)
(* retry for the same channel.  An empty result ends the call.             *)
ClaimPoll(p, c) ==
  /\ \/ claim[p].pc = "idle"
     \/ claim[p].pc = "retry" /\ claim[p].channel = c
  /\ \E ids \in Batches(ReadyIn(c), PollOrder, ClaimLimit) :
       IF ids = {}
         THEN /\ claim' = [claim EXCEPT ![p] = NoClaim]
              /\ fresh' = fresh \ {p}
         ELSE /\ claim' = [claim EXCEPT ![p].pc = "polled",
                                        ![p].channel = c, ![p].ids = ids]
              /\ fresh' = fresh \cup {p}
  /\ UNCHANGED <<now, topics, channels, messages, deliveries, lastID,
                 counters, purge, issued, acked, requeued>>

LeasableByStatus(ids) ==
  {d \in ids \cap DOMAIN deliveries : deliveries[d].status = "pending"}

(* The rows the lease UPDATE matches: its WHERE repeats the whole poll. *)
Leasable(ids) == {d \in ids \cap DOMAIN deliveries : Ready(deliveries[d], now)}

(* The lease UPDATE, the body load that sends worn-out rows to the dead    *)
(* letters, the commit and its counters.  The UPDATE tests status and both *)
(* times again, so it may lease fewer rows than the poll saw, or none.     *)
ClaimLease(p) ==
  /\ claim[p].pc = "polled"
  /\ p \in fresh
  /\ lastID.lease < MaxLeases
  /\ LET token  == lastID.lease + 1
         leased == Leasable(claim[p].ids)
         New(d) == Leased(deliveries[d], token, now + LeaseSec)
         dead   == {d \in leased : New(d).status = "dead"}
     IN
     IF leased = {}
       THEN /\ fresh' = fresh \ {p}
            /\ UNCHANGED <<deliveries, lastID, counters, issued>>
       ELSE /\ Commit
            /\ lastID' = [lastID EXCEPT !.lease = token]
            /\ deliveries' = Updated(leased, New)
            /\ counters' = recordStat(recordStat(counters, "claim", leased),
                                      "dead", dead)
            /\ issued' = issued \cup ((leased \ dead) \X {token})
  /\ claim' = [claim EXCEPT ![p] = NoClaim]
  /\ UNCHANGED <<now, topics, channels, messages, purge, acked, requeued>>

OneRetryTooMany(attempt) == attempt + 1 <= claimMaxAttempts

MayRetry(attempt) == attempt + 1 < claimMaxAttempts

(* SQLITE_BUSY or SQLITE_BUSY_SNAPSHOT from the lease: certain once the    *)
(* snapshot is behind, possible at any time.  The transaction is retried   *)
(* until claimMaxAttempts of them have failed.                             *)
ClaimBusy(p) ==
  /\ claim[p].pc = "polled"
  /\ claim' = [claim EXCEPT ![p] =
       IF MayRetry(claim[p].attempt)
         THEN [pc |-> "retry", channel |-> claim[p].channel, ids |-> {},
               attempt |-> claim[p].attempt + 1]
         ELSE NoClaim]
  /\ fresh' = fresh \ {p}
  /\ UNCHANGED <<now, topics, channels, messages, deliveries, lastID,
                 counters, purge, issued, acked, requeued>>

(* Any other error, a cancelled context, a crash: the transaction rolls    *)
(* back.                                                                   *)
ClaimAbort(p) ==
  /\ claim[p].pc # "idle"
  /\ claim' = [claim EXCEPT ![p] = NoClaim]
  /\ fresh' = fresh \ {p}
  /\ UNCHANGED <<now, topics, channels, messages, deliveries, lastID,
                 counters, purge, issued, acked, requeued>>

----------------------------------------------------------------------------
(* Finishing a claimed delivery.  Whoever was handed <<d, token>> may call *)
(* Ack or Requeue at any later time, any number of times.                  *)

InFlightWhoever(d, token) ==
  d \in DOMAIN deliveries /\ deliveries[d].status = "in_flight"

(* The WHERE clause of Ack and Requeue. *)
HoldsLease(d, token) ==
  /\ d \in DOMAIN deliveries
  /\ deliveries[d].lease_token = token
  /\ deliveries[d].status = "in_flight"

Ack(d, token) ==
  /\ <<d, token>> \in issued
  /\ HoldsLease(d, token)
  /\ deliveries' = Without(deliveries, {d})
  /\ counters' = recordStat(counters, "ack", {d})
  /\ acked' = acked \cup {<<d, token>>}
  /\ Commit
  /\ UNCHANGED <<now, topics, channels, messages, lastID, claim, purge, issued,
                 requeued>>

Requeue(d, token, availableAt) ==
  /\ <<d, token>> \in issued
  /\ HoldsLease(d, token)
  /\ LET at == IF availableAt = 0 THEN now ELSE availableAt
     IN  deliveries' = [deliveries EXCEPT ![d] = Released(@, at)]
  /\ counters' = recordStat(counters, "requeue", {d})
  /\ requeued' = requeued \cup {<<d, token>>}
  /\ Commit
  /\ UNCHANGED <<now, topics, channels, messages, lastID, claim, purge,
                 issued, acked>>

----------------------------------------------------------------------------
(* Maintenance. *)

LapsedLeases == {d \in DOMAIN deliveries : LeaseLapsed(deliveries[d], now)}

ReapExpiredLeases ==
  /\ LapsedLeases # {}
  /\ \E ids \in Batches(LapsedLeases, ReapOrder, ReapLimit) :
       deliveries' = Updated(ids, LAMBDA d : Released(deliveries[d], now))
  /\ Commit
  /\ UNCHANGED <<now, topics, channels, messages, lastID, counters, claim,
                 purge, issued, acked, requeued>>

Doomed == {d \in DOMAIN deliveries : Purgeable(deliveries[d], now)}

PurgeSelect(q) ==
  /\ purge[q].pc = "idle"
  /\ \E ids \in Batches(Doomed, PurgeOrder, PurgeLimit) :
       purge' = [purge EXCEPT ![q].pc = IF ids = {} THEN "orphans" ELSE "delete",
                              ![q].ids = ids]
  /\ UNCHANGED <<now, topics, channels, messages, deliveries, lastID,
                 counters, claim, fresh, issued, acked, requeued>>

StillThere(ids) == ids \cap DOMAIN deliveries

(* The selected rows that are purgeable still. *)
StillDoomed(ids) == ids \cap Doomed

(* DELETE .. RETURNING of the selected rows that are still purgeable; a    *)
(* purge is counted for each row it returns.                               *)
PurgeDelete(q) ==
  /\ purge[q].pc = "delete"
  /\ LET gone == StillDoomed(purge[q].ids) IN
     /\ deliveries' = Without(deliveries, gone)
     /\ counters' = recordStat(counters, "purged", gone)
     /\ fresh' = IF gone = {} THEN fresh ELSE {}
  /\ purge' = [purge EXCEPT ![q].pc = "orphans", ![q].ids = {}]
  /\ UNCHANGED <<now, topics, channels, messages, lastID, claim, issued, acked,
                 requeued>>

PurgeSelectOrphans(q) ==
  /\ purge[q].pc = "orphans"
  /\ \E ms \in Batches(Orphans, OrphanOrder, PurgeLimit) :
       purge' = [purge EXCEPT ![q] =
                   IF ms = {} THEN NoPurge
                              ELSE [pc |-> "delete_orphans", ids |-> {}, msgs |-> ms]]
  /\ UNCHANGED <<now, topics, channels, messages, deliveries, lastID,
                 counters, claim, fresh, issued, acked, requeued>>

(* DELETE FROM novaque_messages WHERE id IN (..), with no condition but    *)
(* the ids; the foreign key cascades to deliveries.                        *)
PurgeDeleteOrphans(q) ==
  /\ purge[q].pc = "delete_orphans"
  /\ LET gone == purge[q].msgs \cap DOMAIN messages IN
     /\ messages' = Without(messages, gone)
     /\ deliveries' = Without(deliveries, Cascaded(gone))
     /\ fresh' = IF gone = {} THEN fresh ELSE {}
  /\ purge' = [purge EXCEPT ![q] = NoPurge]
  /\ UNCHANGED <<now, topics, channels, lastID, counters, claim, issued, acked,
                 requeued>>

(* An error, a cancelled context or a crash between two statements. *)
PurgeAbort(q) ==
  /\ purge[q].pc # "idle"
  /\ purge' = [purge EXCEPT ![q] = NoPurge]
  /\ UNCHANGED <<now, topics, channels, messages, deliveries, lastID,
                 counters, claim, fresh, issued, acked, requeued>>

----------------------------------------------------------------------------
(* The admin surface. *)

(* The delivery's UPDATE ran at nowUnix, the message's at commit time. *)
RequeueDead(d, c, nowUnix) ==
  /\ d \in DOMAIN deliveries
  /\ ChannelOf(d) = c
  /\ deliveries[d].status = "dead"
  /\ deliveries' = [deliveries EXCEPT ![d] = Revived(@, nowUnix, FreshTTLSec)]
  /\ messages' = [messages EXCEPT ![MessageOf(d)].expires_at = now + FreshTTLSec]
  /\ counters' = recordStat(counters, "requeue", {d})
  /\ Commit
  /\ UNCHANGED <<now, topics, channels, lastID, claim, purge, issued, acked,
                 requeued>>

DeleteDead(d, c) ==
  /\ d \in DOMAIN deliveries
  /\ ChannelOf(d) = c
  /\ deliveries[d].status = "dead"
  /\ deliveries' = Without(deliveries, {d})
  /\ counters' = recordStat(counters, "purged", {d})
  /\ Commit
  /\ UNCHANGED <<now, topics, channels, messages, lastID, claim, purge,
                 issued, acked, requeued>>

(* Stats rows deleted by a cascade and, after its commit, the buffered     *)
(* deltas discarded.                                                       *)
DiscardStats(coords) ==
  [k \in StatCoords |-> IF k \in coords THEN [s \in StatKinds |-> 0] ELSE counters[k]]

(* messages (deliveries by cascade), channels, stats, topic; the channels' *)
(* foreign key refuses the cascade if a delivery of one survives.          *)
DeleteTopic(t) ==
  /\ t \in DOMAIN topics
  /\ deliveries' = Without(deliveries, Cascaded(MessagesOf(t)))
  /\ \A d \in DOMAIN deliveries' : ChannelOf(d) \notin ChannelsOf(t)
  /\ messages' = Without(messages, MessagesOf(t))
  /\ channels' = Without(channels, ChannelsOf(t))
  /\ topics' = Without(topics, {t})
  /\ counters' = DiscardStats({k \in StatCoords : k[1] = t})
  /\ Commit
  /\ UNCHANGED <<now, lastID, claim, purge, issued, acked, requeued>>

(* deliveries, stats, channel; the messages stay for the other channels. *)
DeleteChannel(c) ==
  /\ c \in DOMAIN channels
  /\ deliveries' = Without(deliveries, DeliveriesOf(c))
  /\ channels' = Without(channels, {c})
  /\ counters' = DiscardStats({k \in StatCoords : k[2] = c})
  /\ Commit
  /\ UNCHANGED <<now, topics, messages, lastID, claim, purge, issued, acked,
                 requeued>>

----------------------------------------------------------------------------
Init ==
  /\ now = 0
  /\ topics = [t \in {} |-> 0]
  /\ channels = [c \in {} |-> 0]
  /\ messages = [m \in {} |-> 0]
  /\ deliveries = [d \in {} |-> 0]
  /\ lastID = [topic |-> 0, channel |-> 0, message |-> 0, lease |-> 0]
  /\ counters = [k \in StatCoords |-> [s \in StatKinds |-> 0]]
  /\ claim = [p \in Claimers |-> NoClaim]
  /\ fresh = {}
  /\ purge = [q \in Purgers |-> NoPurge]
  /\ issued = {}
  /\ acked = {}
  /\ requeued = {}

Topology ==
  \/ \E name \in TopicNames : EnsureTopic(name)
  \/ \E t \in TopicIDs, name \in ChannelNames : EnsureChannel(t, name)

Publishing ==
  \E t \in TopicIDs, opts \in Opts, nowUnix \in ClockReads : Publish(t, opts, nowUnix)

(* Consumers poll the channel id they resolved once, deleted or not. *)
Consuming ==
  \/ \E p \in Claimers :
       \/ \E c \in 1..lastID.channel : ClaimPoll(p, c)
       \/ ClaimLease(p)
       \/ ClaimBusy(p)
       \/ ClaimAbort(p)
  \/ \E i \in issued : Ack(i[1], i[2])
  \/ \E i \in issued, at \in RequeueAt : Requeue(i[1], i[2], at)

Purging(q) ==
  PurgeSelect(q) \/ PurgeDelete(q) \/ PurgeSelectOrphans(q) \/ PurgeDeleteOrphans(q)

Maintenance ==
  \/ ReapExpiredLeases
  \/ \E q \in Purgers : Purging(q) \/ PurgeAbort(q)

Admin ==
  \/ \E d \in DeliveryIDs, c \in ChannelIDs :
       \/ \E nowUnix \in ClockReads : RequeueDead(d, c, nowUnix)
       \/ DeleteDead(d, c)
  \/ \E t \in TopicIDs : DeleteTopic(t)
  \/ \E c \in ChannelIDs : DeleteChannel(c)

Next == Tick \/ Topology \/ Publishing \/ Consuming \/ Maintenance \/ Admin

Spec == Init /\ [][Next]_vars

(* What the maintenance loops promise while a process runs: loopReap calls *)
(* ReapExpiredLeases and loopPurge PurgeExpired at every tick of their     *)
(* tickers, forever; an error is logged and the next tick tries again, and *)
(* errors do not strike a statement every time it is reached.  No fairness *)
(* for publishers, claimers, lease holders or admins.                      *)
MaintenanceFairness ==
  /\ WF_vars(Tick)
  /\ WF_vars(ReapExpiredLeases)
  /\ \A q \in Purgers : /\ WF_vars(PurgeSelect(q))
                        /\ SF_vars(PurgeDelete(q))
                        /\ SF_vars(PurgeSelectOrphans(q))
                        /\ SF_vars(PurgeDeleteOrphans(q))

FairSpec == Spec /\ MaintenanceFairness

----------------------------------------------------------------------------
(* Properties. *)

(* Every variable keeps its type: the rows of the four tables as schema.sql *)
(* declares them, the calls of Claim and PurgeExpired in one of their      *)
(* program points.                                                         *)
TypeOK ==
  /\ now \in 0..MaxNow
  /\ DOMAIN topics \subseteq TopicIDs
  /\ topics \in [DOMAIN topics -> TopicNames]
  /\ DOMAIN channels \subseteq ChannelIDs
  /\ channels \in [DOMAIN channels -> [topic_id : TopicIDs, name : ChannelNames]]
  /\ DOMAIN messages \subseteq MessageIDs
  /\ messages \in [DOMAIN messages -> [topic_id : TopicIDs, expires_at : Nat]]
  /\ DOMAIN deliveries \subseteq DeliveryIDs
  /\ deliveries \in [DOMAIN deliveries -> Delivery]
  /\ lastID \in [topic : 0..MaxTopicID, channel : 0..MaxChannelID,
                 message : 0..MaxMessageID, lease : 0..MaxLeases]
  /\ counters \in CounterTables
  /\ claim \in [Claimers -> ClaimCalls]
  /\ fresh \subseteq Claimers
  /\ purge \in [Purgers -> PurgeCalls]
  /\ issued \subseteq DeliveryIDs \X Tokens
  /\ acked \subseteq issued
  /\ requeued \subseteq issued

LeaseColumns(r) == /\ (r.status = "in_flight") <=> (r.lease_token # NULL)
                   /\ (r.status = "in_flight") <=> (r.lease_until # NULL)

(* Exactly the in_flight rows carry a lease, and its token is the newest   *)
(* one Claim ever returned for the row: a holder that lost its lease to    *)
(* the reaper can never match again, however late its Ack arrives.         *)
LeaseFencing ==
  \A d \in DOMAIN deliveries :
    /\ LeaseColumns(deliveries[d])
    /\ deliveries[d].status = "in_flight" =>
         /\ <<d, deliveries[d].lease_token>> \in issued
         /\ \A i \in issued : i[1] = d => i[2] <= deliveries[d].lease_token

(* An Ack that succeeded is the row's last word: it came from the last     *)
(* holder, the row is gone, and nothing (reaper, requeue, dead-letter      *)
(* requeue, a stale claim) brings it back.                                 *)
AckIsFinal ==
  \A a \in acked :
    /\ a[1] \notin DOMAIN deliveries
    /\ MessageOf(a[1]) <= lastID.message
    /\ \A i \in issued : i[1] = a[1] => i[2] <= a[2]

AttemptsInBounds(r) ==
  \/ r.status = "pending"   /\ r.attempts <= r.max_attempts
  \/ r.status = "in_flight" /\ r.attempts \in 1..r.max_attempts
  \/ r.status = "dead"      /\ r.attempts = r.max_attempts + 1

(* A handler sees a delivery at most max_attempts times between two        *)
(* dead-letter requeues: the claim after that is the one that buries it.   *)
PoisonBound == \A d \in DOMAIN deliveries : AttemptsInBounds(deliveries[d])

(* Every delivery has its message and its channel, both of one live topic, *)
(* so the joins of Claim's body load and of stats attribution never lose a *)
(* row and DeleteTopic's child-first order never meets a foreign key.      *)
Integrity ==
  /\ \A c \in DOMAIN channels : TopicOf(c) \in DOMAIN topics
  /\ \A m \in DOMAIN messages : messages[m].topic_id \in DOMAIN topics
  /\ \A d \in DOMAIN deliveries :
       /\ MessageOf(d) \in DOMAIN messages
       /\ ChannelOf(d) \in DOMAIN channels
       /\ TopicOf(ChannelOf(d)) = messages[MessageOf(d)].topic_id

(* Between PurgeExpired's SELECT of orphan messages and its DELETE by id,  *)
(* no step of anyone gives a selected message a delivery back, so the      *)
(* DELETE, which repeats no condition, cascades to nothing.                *)
OrphansStayOrphans ==
  \A q \in Purgers : Cascaded(purge[q].msgs) = {}

(* publish = live rows + ack + purged, for every live channel: no delivery *)
(* leaves uncounted and none is counted twice, although PurgeExpired       *)
(* selects and deletes in two statements that anything can come between.   *)
StatsConserved ==
  \A c \in DOMAIN channels : LET n == counters[<<TopicOf(c), c>>] IN
    n["publish"] = Cardinality(DeliveriesOf(c)) + n["ack"] + n["purged"]

(* A delivery under a valid lease leaves that lease only through an Ack or *)
(* a Requeue under that lease's own token, or with its channel: the        *)
(* reaper, the purger, other claimers and holders of older tokens, however *)
(* late their Ack or Requeue comes, leave it alone.                        *)
ValidLeaseHeld ==
  [][\A d \in DOMAIN deliveries :
       LET r == deliveries[d] IN
       r.status = "in_flight" /\ r.lease_until >= now =>
         \/ d \in DOMAIN deliveries' /\ deliveries'[d] = r
         \/ <<d, r.lease_token>> \in (acked' \cup requeued')
         \/ ChannelOf(d) \notin DOMAIN channels']_vars

(* A delivery leaves the table only when it was acked, deleted from the    *)
(* dead letters, out of its TTL, or removed with its channel.  A row that  *)
(* an admin requeues between the purge's SELECT and its DELETE survives.   *)
NoEarlyLoss ==
  [][\A d \in DOMAIN deliveries \ DOMAIN deliveries' :
       \/ <<d, deliveries[d].lease_token>> \in acked'
       \/ deliveries[d].status = "dead"
       \/ deliveries[d].expires_at < now
       \/ ChannelOf(d) \notin DOMAIN channels']_vars

(* No delivery is leased, nor buried, outside its window: not before       *)
(* available_at, not from expires_at on, even when the clock passes        *)
(* expires_at between the poll and the lease.                              *)
LeaseInWindow ==
  [][\A d \in DOMAIN deliveries \cap DOMAIN deliveries' :
       deliveries'[d].attempts > deliveries[d].attempts =>
         /\ deliveries[d].status = "pending"
         /\ deliveries[d].available_at <= now
         /\ now < deliveries[d].expires_at]_vars

(* A lease whose holder died, or never settles it, does not last: the      *)
(* reaper (or the purger, or a cascade) takes the row from every token     *)
(* whose lease ends before the clock does.                                 *)
AbandonedLeaseEnds ==
  \A d \in DeliveryIDs, k \in Tokens :
    (HoldsLease(d, k) /\ deliveries[d].lease_until < MaxNow) ~> ~HoldsLease(d, k)

(* The clock will pass the message's expiry and, for each delivery, the    *)
(* last second a lease on it can be valid.                                 *)
ExpiresInTime(m) ==
  /\ m \in DOMAIN messages
  /\ messages[m].expires_at < MaxNow
  /\ \A d \in Cascaded({m}) : deliveries[d].expires_at + LeaseSec <= MaxNow

(* Nothing past its TTL stays: every message is removed in the end, with   *)
(* all its deliveries, whatever their status and whoever holds them,       *)
(* unless an admin gives it a new life.                                    *)
ExpiredMessagesRetire ==
  \A m \in MessageIDs : ExpiresInTime(m) ~> ~ExpiresInTime(m)
=============================================================================
