---------------------------- MODULE RowLockStore ----------------------------
(***************************************************************************)
(* driver/mysql and driver/postgres: the queue's tables on a server with   *)
(* row locks, run by any number of sessions at READ COMMITTED.  The two    *)
(* drivers differ in a few statements, which the variable dialect selects. *)
(*                                                                         *)
(* A transaction's writes become visible at its commit; until then its     *)
(* rows are locked, exclusively or, for the parents that foreign keys      *)
(* refer to, shared.  A statement that meets a lock waits: its action is   *)
(* not enabled.  A plain read sees what is committed when it starts.       *)
(*                                                                         *)
(* One action is one statement, the last one of a transaction together     *)
(* with the commit.  The rows of one statement are locked together.  A     *)
(* PostgreSQL UPDATE or DELETE over a subquery is two steps: the subquery  *)
(* reads without locks, and the rows are locked and tested afterwards.     *)
(* Timeouts, deadlock victims, cancelled contexts and crashes are Abort.   *)
(*                                                                         *)
(* Statements that match no row are stuttering steps.  Event counters are  *)
(* recorded after the commit, in the sink that StatsSink models.           *)
(***************************************************************************)
EXTENDS PublishDelay, DeliveryTable

CONSTANTS
  TopicNames, ChannelNames,
  Publishers, Claimers, Maintainers, Admins,   \* sessions, by the call they are in
  Opts, RequeueAt, LeaseSec, ClaimLimit, ReapLimit, PurgeLimit, FreshTTLSec,
  \* Bounds of the checked instance.
  MaxNow, MaxTopicID, MaxChannelID, MaxMessageID, MaxLeases

ASSUME RowLockStoreAssumption ==
  /\ Opts \subseteq PublishOpts
  /\ RequeueAt \subseteq Nat
  /\ {LeaseSec, ClaimLimit, ReapLimit, PurgeLimit, FreshTTLSec} \subseteq Nat \ {0}
  /\ {MaxNow, MaxTopicID, MaxChannelID, MaxMessageID, MaxLeases} \subseteq Nat
  /\ Publishers \cap (Claimers \cup Maintainers \cup Admins) = {}
  /\ Claimers \cap (Maintainers \cup Admins) = {}
  /\ Maintainers \cap Admins = {}

VARIABLES
  dialect,       \* "mysql" or "postgres"
  now,           \* UNIX_TIMESTAMP(), clock_timestamp()
  topics,        \* committed rows, as in SqliteStore
  channels,
  messages,
  deliveries,
  lastID,        \* AUTO_INCREMENT and sequences: never rolled back
  tx,            \* the call each session is in
  issued,        \* <<delivery, token>> pairs returned by Claim
  settled        \* <<delivery, token>> pairs whose Ack or Requeue succeeded

tables == <<topics, channels, messages, deliveries>>
vars == <<dialect, now, topics, channels, messages, deliveries, lastID, tx,
          issued, settled>>

Sessions    == Publishers \cup Claimers \cup Maintainers \cup Admins
TopicIDs    == 1..MaxTopicID
ChannelIDs  == 1..MaxChannelID
MessageIDs  == 1..MaxMessageID
DeliveryIDs == MessageIDs \X ChannelIDs

(* pc is the statement that comes next.  on is the topic of a publish or a *)
(* topic cascade, the channel of a channel cascade; ids, msgs and chans    *)
(* are the rows selected or locked so far; row is the delivery row that a  *)
(* publish or RequeueDead writes, until the lease_until of each row leased *)
(* so far.                                                                 *)
Idle == [pc |-> "idle", on |-> 0, ids |-> {}, msgs |-> {}, chans |-> {},
         row |-> NewRow(0, 0, DefaultMaxAttempts), until |-> [d \in {} |-> 0]]

----------------------------------------------------------------------------
(* Reading the tables. *)

ChannelsOf(t) == {c \in DOMAIN channels : channels[c].topic_id = t}
MessagesOf(t) == {m \in DOMAIN messages : messages[m].topic_id = t}
DeliveriesOf(c) == {d \in DOMAIN deliveries : ChannelOf(d) = c}
Cascaded(ms) == {d \in DOMAIN deliveries : MessageOf(d) \in ms}
ReadyIn(c) == {d \in DeliveriesOf(c) : Ready(deliveries[d], now)}
LapsedLeases == {d \in DOMAIN deliveries : LeaseLapsed(deliveries[d], now)}
Doomed == {d \in DOMAIN deliveries : Purgeable(deliveries[d], now)}
Orphans == {m \in DOMAIN messages : /\ messages[m].expires_at < now
                                    /\ Cascaded({m}) = {}}

PollOrder(d, e) ==
  \/ deliveries[d].available_at < deliveries[e].available_at
  \/ /\ deliveries[d].available_at = deliveries[e].available_at
     /\ MessageOf(d) < MessageOf(e)
ReapOrder(d, e) == deliveries[d].lease_until < deliveries[e].lease_until
PurgeOrder(d, e) == deliveries[d].expires_at < deliveries[e].expires_at
OrphanOrder(m, n) == messages[m].expires_at < messages[n].expires_at

(* Rows that some open transaction holds exclusively.  Claim, RequeueDead  *)
(* and the cascades span several statements; the sets that the maintenance *)
(* calls carry between theirs are not locked.                              *)
LockedDeliveries == UNION {tx[s].ids : s \in Claimers \cup Admins}
LockedMessages   == UNION {tx[a].msgs : a \in Admins}
LockedChannels   == UNION {tx[a].chans : a \in Admins}

(* Parents that open publishes hold shared: the topic from the message's   *)
(* insert on, the channels from the fan-out's.                             *)
SharedTopics   == {tx[p].on : p \in Publishers} \ {0}
SharedChannels == UNION {tx[p].chans : p \in {q \in Publishers : tx[q].pc = "commit"}}

(* Messages of t that open publishes have inserted. *)
UncommittedMessages(t) ==
  UNION {tx[p].msgs : p \in {q \in Publishers : tx[q].on = t}}

Updated(ids, New(_)) ==
  [d \in DOMAIN deliveries |-> IF d \in ids THEN New(d) ELSE deliveries[d]]

Free(ids) == ids \cap LockedDeliveries = {}

----------------------------------------------------------------------------
(* Time and topology. *)

Tick ==
  /\ now < MaxNow
  /\ now' = now + 1
  /\ UNCHANGED <<dialect, topics, channels, messages, deliveries, lastID, tx,
                 issued, settled>>

(* A rollback at any point of a transaction or between two statements. *)
Abort(s) ==
  /\ tx[s].pc # "idle"
  /\ tx' = [tx EXCEPT ![s] = Idle]
  /\ UNCHANGED <<dialect, now, topics, channels, messages, deliveries, lastID,
                 issued, settled>>

(* INSERT IGNORE, or INSERT .. ON CONFLICT DO UPDATE, on the unique name. *)
EnsureTopic(name) ==
  /\ lastID.topic < MaxTopicID
  /\ \A t \in DOMAIN topics : topics[t] # name
  /\ LET id == lastID.topic + 1 IN
     /\ lastID' = [lastID EXCEPT !.topic = id]
     /\ topics' = [t \in DOMAIN topics \cup {id} |->
                     IF t = id THEN name ELSE topics[t]]
  /\ UNCHANGED <<dialect, now, channels, messages, deliveries, tx, issued, settled>>

(* The topic t was resolved before; if it is gone by now MySQL's IGNORE    *)
(* drops the row, and PostgreSQL fails.                                    *)
EnsureChannel(t, name) ==
  /\ lastID.channel < MaxChannelID
  /\ t \in DOMAIN topics
  /\ \A c \in ChannelsOf(t) : channels[c].name # name
  /\ LET id == lastID.channel + 1 IN
     /\ lastID' = [lastID EXCEPT !.channel = id]
     /\ channels' = [c \in DOMAIN channels \cup {id} |->
                       IF c = id THEN [topic_id |-> t, name |-> name]
                                 ELSE channels[c]]
  /\ UNCHANGED <<dialect, now, topics, messages, deliveries, tx, issued, settled>>

----------------------------------------------------------------------------
(* Publish. *)

(* The clock read, the validation and the message's INSERT, whose id is    *)
(* used up whatever becomes of the transaction.  The topic's foreign key   *)
(* fails when t is gone: ErrTopicGone.                                     *)
PublishMessage(p, t, opts) ==
  /\ tx[p].pc = "idle"
  /\ lastID.message < MaxMessageID
  /\ ValidatePublishDelay(opts, now) = "ok"
  /\ LET id == lastID.message + 1 IN
     /\ lastID' = [lastID EXCEPT !.message = id]
     /\ tx' = IF t \notin DOMAIN topics THEN tx
              ELSE [tx EXCEPT ![p] =
                     [Idle EXCEPT !.pc = "fanout", !.on = t, !.msgs = {id},
                        !.row = NewRow(AvailableAt(opts, now), ExpiresAt(opts, now),
                                       MaxAttemptsOf(opts))]]
  /\ UNCHANGED <<dialect, now, topics, channels, messages, deliveries, issued, settled>>

(* The SELECT of INSERT .. SELECT: the channels committed at its start,    *)
(* those included that a cascade has deleted and not committed.            *)
PublishFanout(p) ==
  /\ tx[p].pc = "fanout"
  /\ tx' = [tx EXCEPT ![p].pc = "insert", ![p].chans = ChannelsOf(tx[p].on)]
  /\ UNCHANGED <<dialect, now, topics, channels, messages, deliveries, lastID,
                 issued, settled>>

ParentsUnchecked(cs) == TRUE

ParentsExist(cs) == cs \subseteq DOMAIN channels

(* The INSERT waits for a cascade that holds one of the channels, then     *)
(* locks them shared.  A channel that is gone by now fails its foreign key *)
(* and mapTopicGone reports ErrTopicGone, although the topic may exist.    *)
PublishInsert(p) ==
  /\ tx[p].pc = "insert"
  /\ tx[p].chans \cap LockedChannels = {}
  /\ tx' = [tx EXCEPT ![p] = IF ParentsExist(tx[p].chans)
                               THEN [tx[p] EXCEPT !.pc = "commit"] ELSE Idle]
  /\ UNCHANGED <<dialect, now, topics, channels, messages, deliveries, lastID,
                 issued, settled>>

PublishCommit(p) ==
  /\ p \in Publishers
  /\ tx[p].pc = "commit"
  /\ LET new == tx[p].msgs \X tx[p].chans IN
     /\ messages' = [m \in DOMAIN messages \cup tx[p].msgs |->
                       IF m \in tx[p].msgs
                         THEN [topic_id |-> tx[p].on, expires_at |-> tx[p].row.expires_at]
                         ELSE messages[m]]
     /\ deliveries' = [d \in DOMAIN deliveries \cup new |->
                         IF d \in new THEN tx[p].row ELSE deliveries[d]]
  /\ tx' = [tx EXCEPT ![p] = Idle]
  /\ UNCHANGED <<dialect, now, topics, channels, lastID, issued, settled>>

----------------------------------------------------------------------------
(* Claim. *)

NothingLocked(ids) == ids

(* FOR UPDATE SKIP LOCKED *)
SkipLocked(ids) == ids \ LockedDeliveries

(* SELECT .. FOR UPDATE SKIP LOCKED; an empty result ends the call. *)
ClaimPoll(p, c) ==
  /\ tx[p].pc = "idle"
  /\ \E ids \in Batches(SkipLocked(ReadyIn(c)), PollOrder, ClaimLimit) :
       /\ ids # {}
       /\ tx' = [tx EXCEPT ![p].pc = "lease", ![p].ids = ids]
  /\ UNCHANGED <<dialect, now, topics, channels, messages, deliveries, lastID,
                 issued, settled>>

StillPending(ids) ==
  {d \in ids \cap DOMAIN deliveries : deliveries[d].status = "pending"}

(* The rows the next lease UPDATE names: MySQL leases the polled rows one  *)
(* statement each, in poll order, PostgreSQL all of them in one.           *)
LeaseTargets(p) ==
  LET rest == tx[p].ids \ DOMAIN tx[p].until
  IN  IF dialect = "mysql" THEN Batches(rest, PollOrder, 1) ELSE {rest}

(* The lease UPDATE tests the status again, not the times.  A row it does  *)
(* not match is dropped from the claim.                                    *)
ClaimLease(p) ==
  /\ tx[p].pc = "lease"
  /\ \E S \in LeaseTargets(p) :
       LET hit  == StillPending(S)
           ids  == (tx[p].ids \ S) \cup hit
           until == [d \in DOMAIN tx[p].until \cup hit |->
                      IF d \in hit THEN now + LeaseSec ELSE tx[p].until[d]]
       IN tx' = [tx EXCEPT ![p].ids = ids, ![p].until = until,
                           ![p].pc = IF ids = DOMAIN until THEN "commit" ELSE "lease"]
  /\ UNCHANGED <<dialect, now, topics, channels, messages, deliveries, lastID,
                 issued, settled>>

(* The rows the body load's joins return. *)
Joined(ids) ==
  {d \in ids \cap DOMAIN deliveries : /\ MessageOf(d) \in DOMAIN messages
                                      /\ ChannelOf(d) \in DOMAIN channels}

(* The body load, the bury of worn-out rows and the commit.  Claim returns *)
(* the rows that the load returned and that are not dead now.              *)
ClaimCommit(p) ==
  /\ p \in Claimers
  /\ tx[p].pc = "commit"
  /\ IF tx[p].ids = {}
       THEN UNCHANGED <<deliveries, lastID, issued>>
       ELSE LET token  == lastID.lease + 1
                New(d) == Leased(deliveries[d], token, tx[p].until[d])
                alive  == {d \in Joined(tx[p].ids) : New(d).status = "in_flight"}
            IN /\ lastID.lease < MaxLeases
               /\ lastID' = [lastID EXCEPT !.lease = token]
               /\ deliveries' = Updated(tx[p].ids, New)
               /\ issued' = issued \cup (alive \X {token})
  /\ tx' = [tx EXCEPT ![p] = Idle]
  /\ UNCHANGED <<dialect, now, topics, channels, messages, settled>>

----------------------------------------------------------------------------
(* Finishing a claimed delivery: single statements. *)

HoldsLease(d, token) ==
  /\ d \in DOMAIN deliveries
  /\ deliveries[d].lease_token = token
  /\ deliveries[d].status = "in_flight"

Ack(d, token) ==
  /\ Free({d})
  /\ HoldsLease(d, token)
  /\ deliveries' = Without(deliveries, {d})
  /\ settled' = settled \cup {<<d, token>>}
  /\ UNCHANGED <<dialect, now, topics, channels, messages, lastID, tx, issued>>

Requeue(d, token, availableAt) ==
  /\ Free({d})
  /\ HoldsLease(d, token)
  /\ LET at == IF availableAt = 0 THEN now ELSE availableAt
     IN  deliveries' = [deliveries EXCEPT ![d] = Released(@, at)]
  /\ settled' = settled \cup {<<d, token>>}
  /\ UNCHANGED <<dialect, now, topics, channels, messages, lastID, tx, issued>>

----------------------------------------------------------------------------
(* Maintenance. *)

(* MySQL: one UPDATE .. ORDER BY .. LIMIT. *)
ReapExpiredLeases ==
  /\ dialect = "mysql"
  /\ LapsedLeases # {}
  /\ \E ids \in Batches(LapsedLeases, ReapOrder, ReapLimit) :
       /\ Free(ids)
       /\ deliveries' = Updated(ids, LAMBDA d : Released(deliveries[d], now))
  /\ UNCHANGED <<dialect, now, topics, channels, messages, lastID, tx, issued, settled>>

(* PostgreSQL: the IN subquery, and the rows matched by id.  The outer     *)
(* WHERE is tested on the row version that is locked (EvalPlanQual).       *)
ReapSelect(q) ==
  /\ dialect = "postgres"
  /\ tx[q].pc = "idle"
  /\ \E ids \in Batches(LapsedLeases, ReapOrder, ReapLimit) :
       /\ ids # {}
       /\ tx' = [tx EXCEPT ![q].pc = "reap", ![q].ids = ids]
  /\ UNCHANGED <<dialect, now, topics, channels, messages, deliveries, lastID,
                 issued, settled>>

StillInFlight(ids) ==
  {d \in ids \cap DOMAIN deliveries : deliveries[d].status = "in_flight"}

StillLapsed(ids) == ids \cap LapsedLeases

ReapUpdate(q) ==
  /\ tx[q].pc = "reap"
  /\ LET ids == StillLapsed(tx[q].ids) IN
     /\ Free(ids)
     /\ deliveries' = Updated(ids, LAMBDA d : Released(deliveries[d], now))
  /\ tx' = [tx EXCEPT ![q] = Idle]
  /\ UNCHANGED <<dialect, now, topics, channels, messages, lastID, issued, settled>>

PurgeSelect(q) ==
  /\ tx[q].pc = "idle"
  /\ \E ids \in Batches(Doomed, PurgeOrder, PurgeLimit) :
       tx' = [tx EXCEPT ![q].pc = IF ids = {} THEN "orphans" ELSE "purge",
                        ![q].ids = ids]
  /\ UNCHANGED <<dialect, now, topics, channels, messages, deliveries, lastID,
                 issued, settled>>

StillThere(ids) == ids \cap DOMAIN deliveries

StillDoomed(ids) == ids \cap Doomed

PurgeDelete(q) ==
  /\ tx[q].pc = "purge"
  /\ LET gone == StillDoomed(tx[q].ids) IN
     /\ Free(gone)
     /\ deliveries' = Without(deliveries, gone)
  /\ tx' = [tx EXCEPT ![q].pc = "orphans", ![q].ids = {}]
  /\ UNCHANGED <<dialect, now, topics, channels, messages, lastID, issued, settled>>

(* DELETE of the messages ms and, by ON DELETE CASCADE, of their           *)
(* deliveries; it ends PurgeExpired.                                       *)
DeleteMessages(q, ms) ==
  /\ ms \cap LockedMessages = {}
  /\ Free(Cascaded(ms))
  /\ messages' = Without(messages, ms)
  /\ deliveries' = Without(deliveries, Cascaded(ms))
  /\ tx' = [tx EXCEPT ![q] = Idle]
  /\ UNCHANGED <<dialect, now, topics, channels, lastID, issued, settled>>

(* MySQL finds and deletes the orphans under the statement's own locks. *)
OrphanPass(q) ==
  /\ dialect = "mysql"
  /\ tx[q].pc = "orphans"
  /\ \E ms \in Batches(Orphans, OrphanOrder, PurgeLimit) : DeleteMessages(q, ms)

(* PostgreSQL: the subquery, and the DELETE of its ids, which repeats none *)
(* of its conditions.                                                      *)
OrphanSelect(q) ==
  /\ dialect = "postgres"
  /\ tx[q].pc = "orphans"
  /\ \E ms \in Batches(Orphans, OrphanOrder, PurgeLimit) :
       tx' = [tx EXCEPT ![q] = IF ms = {} THEN Idle
                               ELSE [Idle EXCEPT !.pc = "delete_orphans", !.msgs = ms]]
  /\ UNCHANGED <<dialect, now, topics, channels, messages, deliveries, lastID,
                 issued, settled>>

OrphanDelete(q) ==
  /\ tx[q].pc = "delete_orphans"
  /\ DeleteMessages(q, tx[q].msgs \cap DOMAIN messages)

----------------------------------------------------------------------------
(* The admin surface. *)

RequeueDead(a, d, c) ==
  /\ tx[a].pc = "idle"
  /\ Free({d})
  /\ d \in DeliveriesOf(c)
  /\ deliveries[d].status = "dead"
  /\ tx' = [tx EXCEPT ![a].pc = "message", ![a].ids = {d},
                      ![a].row = Revived(deliveries[d], now, FreshTTLSec)]
  /\ UNCHANGED <<dialect, now, topics, channels, messages, deliveries, lastID,
                 issued, settled>>

(* The UPDATE of the message's expiry, and the commit. *)
RequeueDeadMessage(a) ==
  /\ tx[a].pc = "message"
  /\ \E d \in tx[a].ids :
       /\ MessageOf(d) \notin LockedMessages
       /\ deliveries' = [deliveries EXCEPT ![d] = tx[a].row]
       /\ messages' = [messages EXCEPT ![MessageOf(d)].expires_at = now + FreshTTLSec]
  /\ tx' = [tx EXCEPT ![a] = Idle]
  /\ UNCHANGED <<dialect, now, topics, channels, lastID, issued, settled>>

DeleteDead(d, c) ==
  /\ Free({d})
  /\ d \in DeliveriesOf(c)
  /\ deliveries[d].status = "dead"
  /\ deliveries' = Without(deliveries, {d})
  /\ UNCHANGED <<dialect, now, topics, channels, messages, lastID, tx, issued, settled>>

(* DELETE of the topic's messages, and by the foreign key of their         *)
(* deliveries.  MySQL waits for messages that are inserted and not         *)
(* committed, PostgreSQL does not see them.                                *)
DeleteTopic(a, t) ==
  /\ tx[a].pc = "idle"
  /\ t \in DOMAIN topics
  /\ MessagesOf(t) \cap LockedMessages = {}
  /\ Free(Cascaded(MessagesOf(t)))
  /\ dialect = "mysql" => UncommittedMessages(t) = {}
  /\ tx' = [tx EXCEPT ![a].pc = "channels", ![a].on = t, ![a].msgs = MessagesOf(t),
                      ![a].ids = Cascaded(MessagesOf(t))]
  /\ UNCHANGED <<dialect, now, topics, channels, messages, deliveries, lastID,
                 issued, settled>>

ChildrenUnchecked(children, own) == TRUE

(* A foreign key lets a parent go when all its children are rows that this *)
(* transaction has deleted; otherwise the cascade fails and rolls back.    *)
NoOtherChildren(children, own) == children \subseteq own

DeleteTopicChannels(a) ==
  /\ tx[a].pc = "channels"
  /\ LET cs == ChannelsOf(tx[a].on) IN
     /\ cs \cap (LockedChannels \cup SharedChannels) = {}
     /\ tx' = [tx EXCEPT ![a] =
                 IF NoOtherChildren(UNION {DeliveriesOf(c) : c \in cs}, tx[a].ids)
                   THEN [tx[a] EXCEPT !.pc = "topic", !.chans = cs] ELSE Idle]
  /\ UNCHANGED <<dialect, now, topics, channels, messages, deliveries, lastID,
                 issued, settled>>

DeleteTopicRow(a) ==
  /\ tx[a].pc = "topic"
  /\ tx[a].on \notin SharedTopics
  /\ IF /\ NoOtherChildren(ChannelsOf(tx[a].on), tx[a].chans)
        /\ NoOtherChildren(MessagesOf(tx[a].on), tx[a].msgs)
       THEN /\ topics' = Without(topics, {tx[a].on})
            /\ channels' = Without(channels, tx[a].chans)
            /\ messages' = Without(messages, tx[a].msgs)
            /\ deliveries' = Without(deliveries, tx[a].ids)
       ELSE UNCHANGED tables
  /\ tx' = [tx EXCEPT ![a] = Idle]
  /\ UNCHANGED <<dialect, now, lastID, issued, settled>>

DeleteChannel(a, c) ==
  /\ tx[a].pc = "idle"
  /\ c \in DOMAIN channels
  /\ Free(DeliveriesOf(c))
  /\ tx' = [tx EXCEPT ![a].pc = "channel", ![a].on = c, ![a].ids = DeliveriesOf(c)]
  /\ UNCHANGED <<dialect, now, topics, channels, messages, deliveries, lastID,
                 issued, settled>>

DeleteChannelRow(a) ==
  /\ tx[a].pc = "channel"
  /\ tx[a].on \notin LockedChannels \cup SharedChannels
  /\ IF NoOtherChildren(DeliveriesOf(tx[a].on), tx[a].ids)
       THEN /\ channels' = Without(channels, {tx[a].on})
            /\ deliveries' = Without(deliveries, tx[a].ids)
       ELSE UNCHANGED <<channels, deliveries>>
  /\ tx' = [tx EXCEPT ![a] = Idle]
  /\ UNCHANGED <<dialect, now, topics, messages, lastID, issued, settled>>

----------------------------------------------------------------------------
Init ==
  /\ dialect \in {"mysql", "postgres"}
  /\ now = 0
  /\ topics = [t \in {} |-> 0]
  /\ channels = [c \in {} |-> 0]
  /\ messages = [m \in {} |-> 0]
  /\ deliveries = [d \in {} |-> 0]
  /\ lastID = [topic |-> 0, channel |-> 0, message |-> 0, lease |-> 0]
  /\ tx = [s \in Sessions |-> Idle]
  /\ issued = {}
  /\ settled = {}

Topology ==
  \/ \E name \in TopicNames : EnsureTopic(name)
  \/ \E t \in TopicIDs, name \in ChannelNames : EnsureChannel(t, name)

Publishing(p) ==
  \/ \E t \in 1..lastID.topic, opts \in Opts : PublishMessage(p, t, opts)
  \/ PublishFanout(p)
  \/ PublishInsert(p)
  \/ PublishCommit(p)

Consuming ==
  \/ \E p \in Claimers :
       \/ \E c \in 1..lastID.channel : ClaimPoll(p, c)
       \/ ClaimLease(p)
       \/ ClaimCommit(p)
  \/ \E i \in issued : Ack(i[1], i[2])
  \/ \E i \in issued, at \in RequeueAt : Requeue(i[1], i[2], at)

Maintenance ==
  \/ ReapExpiredLeases
  \/ \E q \in Maintainers :
       \/ ReapSelect(q) \/ ReapUpdate(q)
       \/ PurgeSelect(q) \/ PurgeDelete(q)
       \/ OrphanPass(q) \/ OrphanSelect(q) \/ OrphanDelete(q)

Admin(a) ==
  \/ \E d \in DeliveryIDs, c \in ChannelIDs : RequeueDead(a, d, c) \/ DeleteDead(d, c)
  \/ RequeueDeadMessage(a)
  \/ \E t \in TopicIDs : DeleteTopic(a, t)
  \/ DeleteTopicChannels(a)
  \/ DeleteTopicRow(a)
  \/ \E c \in ChannelIDs : DeleteChannel(a, c)
  \/ DeleteChannelRow(a)

Next ==
  \/ Tick
  \/ Topology
  \/ \E p \in Publishers : Publishing(p)
  \/ Consuming
  \/ Maintenance
  \/ \E a \in Admins : Admin(a)
  \/ \E s \in Sessions : Abort(s)

Spec == Init /\ [][Next]_vars

----------------------------------------------------------------------------
(* Properties. *)

(* What a claimer polled it can lease and load: until it commits, no       *)
(* cascade, purge, dead-letter action or other claimer changes its rows,   *)
(* their messages or their channels.  So no row is leased that Claim does  *)
(* not return, none is handed to two claimers, and none is lost from the   *)
(* joins of the body load.                                                 *)
PolledStaysClaimable ==
  \A p \in Claimers : \A d \in tx[p].ids :
    /\ d \in Joined(tx[p].ids)
    /\ deliveries[d].status = "pending"
    /\ \A q \in Claimers \ {p} : d \notin tx[q].ids

(* Every delivery has its message and its channel, both of one live topic, *)
(* although publishes, topic cascades and channel cascades overlap and     *)
(* each reads the other tables before it writes.                           *)
Integrity ==
  /\ \A c \in DOMAIN channels : channels[c].topic_id \in DOMAIN topics
  /\ \A m \in DOMAIN messages : messages[m].topic_id \in DOMAIN topics
  /\ \A d \in DOMAIN deliveries :
       /\ MessageOf(d) \in DOMAIN messages
       /\ ChannelOf(d) \in DOMAIN channels
       /\ channels[ChannelOf(d)].topic_id = messages[MessageOf(d)].topic_id

(* A delivery under a valid lease leaves that lease only through its       *)
(* holder's Ack or Requeue, or with its channel.  A row that was requeued  *)
(* and claimed again after PostgreSQL's reaper selected it keeps its new   *)
(* lease.                                                                  *)
ValidLeaseHeld ==
  [][\A d \in DOMAIN deliveries :
       LET r == deliveries[d] IN
       r.status = "in_flight" /\ r.lease_until >= now =>
         \/ d \in DOMAIN deliveries' /\ deliveries'[d] = r
         \/ <<d, r.lease_token>> \in settled'
         \/ ChannelOf(d) \notin DOMAIN channels']_vars

(* A delivery leaves the table only when its holder settled it, when it was  *)
(* dead or past its TTL, or with its channel: no message's cascade and no  *)
(* stale purge batch takes a live one.                                     *)
NoEarlyLoss ==
  [][\A d \in DOMAIN deliveries \ DOMAIN deliveries' :
       \/ <<d, deliveries[d].lease_token>> \in settled'
       \/ deliveries[d].status = "dead"
       \/ deliveries[d].expires_at < now
       \/ ChannelOf(d) \notin DOMAIN channels']_vars
=============================================================================
