------------------------- MODULE RowLockStoreProofs -------------------------
(***************************************************************************)
(* Theorems about RowLockStore, for both dialects and every value of the   *)
(* constants: the row locks of overlapping calls protect what each call    *)
(* read before it writes.                                                  *)
(***************************************************************************)
EXTENDS RowLockQueue, DeliveryTableProofs

Budgets == {MaxAttemptsOf(o) : o \in Opts}

Untils == UNION {[D -> Nat \ {0}] : D \in SUBSET DeliveryIDs}

PublisherPCs  == {"idle", "fanout", "insert", "commit"}
ClaimerPCs    == {"idle", "lease", "commit"}
MaintainerPCs == {"idle", "reap", "purge", "orphans", "delete_orphans"}
AdminPCs      == {"idle", "message", "channels", "topic", "channel"}

Calls == [pc : PublisherPCs \cup ClaimerPCs \cup MaintainerPCs \cup AdminPCs,
          on : Nat, ids : SUBSET DeliveryIDs, msgs : SUBSET MessageIDs,
          chans : SUBSET ChannelIDs, row : Delivery, until : Untils]

(* Every variable has its type. *)
Types ==
  /\ dialect \in {"mysql", "postgres"}
  /\ now \in Nat
  /\ DOMAIN topics \subseteq TopicIDs
  /\ topics \in [DOMAIN topics -> TopicNames]
  /\ DOMAIN channels \subseteq ChannelIDs
  /\ channels \in [DOMAIN channels -> [topic_id : TopicIDs, name : ChannelNames]]
  /\ DOMAIN messages \subseteq MessageIDs
  /\ messages \in [DOMAIN messages -> [topic_id : TopicIDs, expires_at : Nat]]
  /\ DOMAIN deliveries \subseteq DeliveryIDs
  /\ deliveries \in [DOMAIN deliveries -> Delivery]
  /\ lastID \in [topic : 0..MaxTopicID, channel : 0..MaxChannelID,
                 message : 0..MaxMessageID, lease : Nat]
  /\ tx \in [Sessions -> Calls]
  /\ issued \subseteq DeliveryIDs \X (Nat \ {0})

(* Nothing carries an id or a token that was not handed out yet. *)
IDsHandedOut ==
  /\ \A c \in DOMAIN channels : c <= lastID.channel
  /\ \A m \in DOMAIN messages : m <= lastID.message
  /\ \A i \in issued : i[2] <= lastID.lease

LeaseColumns(r) == /\ (r.status = "in_flight") <=> (r.lease_token # NULL)
                   /\ (r.status = "in_flight") <=> (r.lease_until # NULL)

RowsLeased == \A d \in DOMAIN deliveries : LeaseColumns(deliveries[d])

(* An open publish holds its topic, its message has a new id, and from the *)
(* insert of the fan-out on its channels stay.                             *)
PublisherOK(p) ==
  /\ tx[p].pc \in PublisherPCs
  /\ tx[p].pc = "idle" => tx[p] = Idle
  /\ \A m \in tx[p].msgs : m <= lastID.message /\ m \notin DOMAIN messages
  /\ tx[p].pc # "idle" =>
       /\ tx[p].on \in DOMAIN topics
       /\ \E a, e \in Nat, b \in Budgets : tx[p].row = NewRow(a, e, b)
  /\ \A c \in tx[p].chans : c <= lastID.channel
  /\ \A c \in tx[p].chans \cap DOMAIN channels : channels[c].topic_id = tx[p].on
  /\ tx[p].pc = "commit" => tx[p].chans \subseteq DOMAIN channels

(* A claimer's rows are there, and pending. *)
ClaimerOK(p) ==
  /\ tx[p].pc \in ClaimerPCs
  /\ tx[p].pc = "idle" => tx[p] = Idle
  /\ \A d \in tx[p].ids : d \in DOMAIN deliveries /\ deliveries[d].status = "pending"
  /\ DOMAIN tx[p].until \subseteq tx[p].ids
  /\ tx[p].pc = "commit" => DOMAIN tx[p].until = tx[p].ids

(* What a maintainer selected as orphans has no delivery. *)
MaintainerOK(q) ==
  /\ tx[q].pc \in MaintainerPCs
  /\ tx[q].pc = "idle" => tx[q] = Idle
  /\ \A m \in tx[q].msgs : m <= lastID.message /\ m \notin OpenMessages
  /\ Cascaded(tx[q].msgs) = {}

(* What an admin's call has locked is there as the call read it. *)
AdminOK(a) ==
  /\ tx[a].pc \in AdminPCs
  /\ tx[a].pc = "idle" => tx[a] = Idle
  /\ tx[a].ids \subseteq DOMAIN deliveries
  /\ tx[a].pc = "message" =>
       \A d \in tx[a].ids :
         /\ deliveries[d].status = "dead"
         /\ \E t \in Nat : tx[a].row = Revived(deliveries[d], t, FreshTTLSec)
  /\ tx[a].pc \in {"channels", "topic"} =>
       tx[a].msgs \subseteq MessagesOf(tx[a].on) /\ Cascaded(tx[a].msgs) = tx[a].ids
  /\ tx[a].pc \notin {"channels", "topic"} => tx[a].msgs = {}
  /\ tx[a].pc = "channel" => tx[a].ids \subseteq DeliveriesOf(tx[a].on)
  /\ tx[a].pc # "topic" => tx[a].chans = {}
  /\ \A c \in tx[a].chans : c <= lastID.channel /\ DeliveriesOf(c) \subseteq tx[a].ids

CallsOK ==
  /\ \A p \in Publishers : PublisherOK(p)
  /\ \A p \in Claimers : ClaimerOK(p)
  /\ \A q \in Maintainers : MaintainerOK(q)
  /\ \A a \in Admins : AdminOK(a)

(* No two calls lock the same row, and no cascade locks a channel that a   *)
(* publish is about to commit deliveries for.                              *)
Locks ==
  /\ \A s, u \in Claimers \cup Admins : s # u => tx[s].ids \cap tx[u].ids = {}
  /\ \A a, b \in Admins : a # b => tx[a].msgs \cap tx[b].msgs = {}
  /\ \A p, r \in Publishers : p # r => tx[p].msgs \cap tx[r].msgs = {}
  /\ \A p \in Publishers, a \in Admins :
       tx[p].pc = "commit" => tx[p].chans \cap tx[a].chans = {}

IInv == Types /\ IDsHandedOut /\ RowsLeased /\ Integrity /\ CallsOK /\ Locks

----------------------------------------------------------------------------
(* Sessions and calls. *)

LEMMA SessionRoles ==
  /\ Publishers \subseteq Sessions /\ Claimers \subseteq Sessions
  /\ Maintainers \subseteq Sessions /\ Admins \subseteq Sessions
  /\ \A s \in Sessions : \/ s \in Publishers \/ s \in Claimers
                         \/ s \in Maintainers \/ s \in Admins
  /\ \A s \in Publishers : s \notin Claimers /\ s \notin Maintainers /\ s \notin Admins
  /\ \A s \in Claimers : s \notin Publishers /\ s \notin Maintainers /\ s \notin Admins
  /\ \A s \in Maintainers : s \notin Publishers /\ s \notin Claimers /\ s \notin Admins
  /\ \A s \in Admins : s \notin Publishers /\ s \notin Claimers /\ s \notin Maintainers
  BY RowLockStoreAssumption DEF Sessions

LEMMA UntilTypes ==
  /\ \A f \in Untils : /\ DOMAIN f \subseteq DeliveryIDs
                       /\ \A d \in DOMAIN f : f[d] \in Nat \ {0}
  /\ \A D \in SUBSET DeliveryIDs : \A f \in [D -> Nat \ {0}] : f \in Untils
  BY DEF Untils

LEMMA IdleCall ==
  /\ Idle \in Calls
  /\ Idle.pc = "idle" /\ Idle.on = 0 /\ Idle.ids = {} /\ Idle.msgs = {} /\ Idle.chans = {}
  /\ DOMAIN Idle.until = {}
<1> DEFINE u == [d \in {} |-> 0]
           r == NewRow(0, 0, DefaultMaxAttempts)
<1>1. u \in [{} -> Nat \ {0}] /\ DOMAIN u = {}
  OBVIOUS
<1>2. u \in Untils
  BY <1>1, UntilTypes
<1>3. r \in Delivery
  BY PublishDelayAssumption DEF NewRow, Delivery, Status, NULL
<1>4. Idle = [pc |-> "idle", on |-> 0, ids |-> {}, msgs |-> {}, chans |-> {},
              row |-> r, until |-> u]
  BY DEF Idle
<1> HIDE DEF u, r
<1> QED BY <1>1, <1>2, <1>3, <1>4 DEF Calls, PublisherPCs

(* An idle session satisfies the invariant of its role. *)
LEMMA IdleOK ==
  ASSUME NEW s, tx'[s] = Idle
  PROVE  PublisherOK(s)' /\ ClaimerOK(s)' /\ MaintainerOK(s)' /\ AdminOK(s)'
<1>1. PublisherOK(s)'
  BY IdleCall DEF PublisherOK, PublisherPCs
<1>2. ClaimerOK(s)'
  BY IdleCall DEF ClaimerOK, ClaimerPCs
<1>3. MaintainerOK(s)'
  BY IdleCall DEF MaintainerOK, MaintainerPCs, Cascaded
<1>4. AdminOK(s)'
  BY IdleCall DEF AdminOK, AdminPCs, Cascaded
<1> QED BY <1>1, <1>2, <1>3, <1>4

(* What each role relies on while others run. *)
LEMMA PublisherKept ==
  ASSUME Types, Types', NEW p \in Publishers, PublisherOK(p), tx'[p] = tx[p],
         lastID'.message >= lastID.message, lastID'.channel >= lastID.channel,
         \A m \in tx[p].msgs : m \notin DOMAIN messages',
         tx[p].pc # "idle" => tx[p].on \in DOMAIN topics',
         \A c \in tx[p].chans \cap DOMAIN channels' :
           c \in DOMAIN channels /\ channels'[c] = channels[c],
         tx[p].pc = "commit" => tx[p].chans \subseteq DOMAIN channels'
  PROVE  PublisherOK(p)'
<1>1. tx[p] \in Calls
  BY SessionRoles DEF Types
<1>2. \A m \in tx[p].msgs : m <= lastID'.message
  BY <1>1, RowLockStoreAssumption DEF PublisherOK, Types, Calls, MessageIDs
<1>3. \A c \in tx[p].chans : c <= lastID'.channel
  BY <1>1, RowLockStoreAssumption DEF PublisherOK, Types, Calls, ChannelIDs
<1>4. \A c \in tx[p].chans \cap DOMAIN channels' : channels'[c].topic_id = tx[p].on
  BY DEF PublisherOK
<1> QED BY <1>2, <1>3, <1>4 DEF PublisherOK, Budgets, NewRow

LEMMA ClaimerKept ==
  ASSUME NEW p \in Claimers, ClaimerOK(p), tx'[p] = tx[p],
         \A d \in tx[p].ids : d \in DOMAIN deliveries' /\ deliveries'[d] = deliveries[d]
  PROVE  ClaimerOK(p)'
  BY DEF ClaimerOK

LEMMA MaintainerKept ==
  ASSUME Types, Types', NEW q \in Maintainers, MaintainerOK(q), tx'[q] = tx[q],
         lastID'.message >= lastID.message,
         \A m \in OpenMessages' : m \in OpenMessages \/ m > lastID.message,
         \A d \in DOMAIN deliveries' \ DOMAIN deliveries : MessageOf(d) \in OpenMessages
  PROVE  MaintainerOK(q)'
<1>1. tx[q] \in Calls
  BY SessionRoles DEF Types
<1>2. \A m \in tx[q].msgs : m \in Nat /\ m <= lastID.message /\ m \notin OpenMessages
  BY <1>1 DEF MaintainerOK, Calls, MessageIDs
<1>3. lastID.message \in Nat /\ lastID'.message \in Nat
  BY RowLockStoreAssumption DEF Types
<1>4. \A m \in tx[q].msgs : m <= lastID'.message /\ m \notin OpenMessages'
  BY <1>2, <1>3
<1>5. Cascaded(tx[q].msgs)' = {}
  BY <1>2 DEF MaintainerOK, Cascaded
<1> QED BY <1>4, <1>5 DEF MaintainerOK

LEMMA AdminKept ==
  ASSUME Types, Types', NEW a \in Admins, AdminOK(a), tx'[a] = tx[a],
         lastID'.channel >= lastID.channel,
         \A d \in tx[a].ids : d \in DOMAIN deliveries' /\ deliveries'[d] = deliveries[d],
         \A m \in tx[a].msgs : /\ m \in DOMAIN messages'
                               /\ messages'[m].topic_id = messages[m].topic_id,
         \A d \in DOMAIN deliveries' \ DOMAIN deliveries :
           MessageOf(d) \notin tx[a].msgs /\ ChannelOf(d) \notin tx[a].chans
  PROVE  AdminOK(a)'
<1>1. tx[a] \in Calls
  BY SessionRoles DEF Types
<1>2. tx[a].pc \in {"channels", "topic"} =>
        tx[a].msgs \subseteq MessagesOf(tx[a].on)' /\ Cascaded(tx[a].msgs)' = tx[a].ids
  BY DEF AdminOK, MessagesOf, Cascaded
<1>3. tx[a].pc = "channel" => tx[a].ids \subseteq DeliveriesOf(tx[a].on)'
  BY DEF AdminOK, DeliveriesOf
<1>4. \A c \in tx[a].chans : c <= lastID'.channel
  BY <1>1, RowLockStoreAssumption DEF AdminOK, Types, Calls, ChannelIDs
<1>5. \A c \in tx[a].chans : DeliveriesOf(c)' \subseteq tx[a].ids
  BY DEF AdminOK, DeliveriesOf
<1>6. tx[a].pc = "message" =>
        \A d \in tx[a].ids :
          /\ deliveries'[d].status = "dead"
          /\ \E t \in Nat : tx[a].row = Revived(deliveries'[d], t, FreshTTLSec)
  BY DEF AdminOK
<1> QED BY <1>2, <1>3, <1>4, <1>5, <1>6 DEF AdminOK

----------------------------------------------------------------------------
(* Steps that write no table: a call moves to its next statement. *)

(* The record x that session s is left with fits the locks of the others. *)
CallFits(s, x) ==
  /\ s \in Publishers =>
       /\ x.msgs \subseteq tx[s].msgs
       /\ x.pc = "commit" => \A a \in Admins : x.chans \cap tx[a].chans = {}
  /\ s \in Claimers \cup Admins =>
       \A u \in (Claimers \cup Admins) \ {s} : x.ids \cap tx[u].ids = {}
  /\ s \in Admins =>
       /\ \A b \in Admins \ {s} : x.msgs \cap tx[b].msgs = {}
       /\ \A p \in Publishers : tx[p].pc = "commit" => tx[p].chans \cap x.chans = {}

RoleOK(s) ==
  /\ s \in Publishers => PublisherOK(s)
  /\ s \in Claimers => ClaimerOK(s)
  /\ s \in Maintainers => MaintainerOK(s)
  /\ s \in Admins => AdminOK(s)

LEMMA CallStep ==
  ASSUME IInv, NEW s \in Sessions, NEW x \in Calls, tx' = [tx EXCEPT ![s] = x],
         UNCHANGED <<dialect, now, topics, channels, messages, deliveries, lastID, issued>>,
         CallFits(s, x), RoleOK(s)'
  PROVE  IInv'
<1>1. Types /\ CallsOK /\ Locks
  BY DEF IInv
<1>2. Types'
  BY <1>1 DEF Types
<1>3. tx'[s] = x /\ \A u \in Sessions \ {s} : tx'[u] = tx[u]
  BY <1>1 DEF Types
<1>4. lastID.message \in Nat /\ lastID.channel \in Nat
  BY <1>1, RowLockStoreAssumption DEF Types
<1>5. OpenMessages' \subseteq OpenMessages
  <2>1. \A p \in Publishers : tx'[p].msgs \subseteq tx[p].msgs
    BY <1>3, SessionRoles DEF CallFits
  <2> QED BY <2>1 DEF OpenMessages
<1>6. \A p \in Publishers : PublisherOK(p)'
  <2> SUFFICES ASSUME NEW p \in Publishers, p # s PROVE PublisherOK(p)'
    BY DEF RoleOK
  <2>1. tx'[p] = tx[p] /\ PublisherOK(p)
    BY <1>1, <1>3, SessionRoles DEF CallsOK
  <2> QED BY <1>1, <1>2, <1>4, <2>1, PublisherKept DEF PublisherOK
<1>7. \A p \in Claimers : ClaimerOK(p)'
  <2> SUFFICES ASSUME NEW p \in Claimers, p # s PROVE ClaimerOK(p)'
    BY DEF RoleOK
  <2>1. tx'[p] = tx[p] /\ ClaimerOK(p)
    BY <1>1, <1>3, SessionRoles DEF CallsOK
  <2> QED BY <2>1, ClaimerKept DEF ClaimerOK
<1>8. \A q \in Maintainers : MaintainerOK(q)'
  <2> SUFFICES ASSUME NEW q \in Maintainers, q # s PROVE MaintainerOK(q)'
    BY DEF RoleOK
  <2>1. tx'[q] = tx[q] /\ MaintainerOK(q)
    BY <1>1, <1>3, SessionRoles DEF CallsOK
  <2> QED BY <1>1, <1>2, <1>4, <1>5, <2>1, MaintainerKept
<1>9. \A a \in Admins : AdminOK(a)'
  <2> SUFFICES ASSUME NEW a \in Admins, a # s PROVE AdminOK(a)'
    BY DEF RoleOK
  <2>1. tx'[a] = tx[a] /\ AdminOK(a)
    BY <1>1, <1>3, SessionRoles DEF CallsOK
  <2>2. tx[a].ids \subseteq DOMAIN deliveries /\ tx[a].msgs \subseteq DOMAIN messages
    BY <2>1 DEF AdminOK, MessagesOf
  <2> QED BY <1>1, <1>2, <1>4, <2>1, <2>2, AdminKept
<1>10. CallsOK'
  BY <1>6, <1>7, <1>8, <1>9 DEF CallsOK
<1>11. Locks'
  <2>1. \A v, u \in Claimers \cup Admins : v # u => tx'[v].ids \cap tx'[u].ids = {}
    BY <1>1, <1>3, SessionRoles DEF Locks, CallFits
  <2>2. \A a, b \in Admins : a # b => tx'[a].msgs \cap tx'[b].msgs = {}
    BY <1>1, <1>3, SessionRoles DEF Locks, CallFits
  <2>3. \A p, r \in Publishers : p # r => tx'[p].msgs \cap tx'[r].msgs = {}
    BY <1>1, <1>3, SessionRoles DEF Locks, CallFits
  <2>4. \A p \in Publishers, a \in Admins :
          tx'[p].pc = "commit" => tx'[p].chans \cap tx'[a].chans = {}
    BY <1>1, <1>3, SessionRoles DEF Locks, CallFits
  <2> QED BY <2>1, <2>2, <2>3, <2>4 DEF Locks
<1>12. IDsHandedOut' /\ RowsLeased' /\ Integrity'
  BY DEF IInv, IDsHandedOut, RowsLeased, Integrity
<1> QED BY <1>2, <1>10, <1>11, <1>12 DEF IInv

(* A rollback, or the end of a call that wrote nothing. *)
LEMMA CallEnds ==
  ASSUME IInv, NEW s \in Sessions, tx' = [tx EXCEPT ![s] = Idle],
         UNCHANGED <<dialect, now, topics, channels, messages, deliveries, lastID, issued>>
  PROVE  IInv'
<1>1. tx'[s] = Idle
  BY DEF IInv, Types
<1>2. RoleOK(s)'
  BY <1>1, IdleOK DEF RoleOK
<1>3. CallFits(s, Idle)
  BY IdleCall DEF CallFits
<1> QED BY <1>2, <1>3, IdleCall, CallStep

LEMMA PublishFanoutKeeps ==
  ASSUME IInv, NEW p \in Publishers, PublishFanout(p)
  PROVE  IInv'
<1> DEFINE x == [tx[p] EXCEPT !.pc = "insert", !.chans = ChannelsOf(tx[p].on)]
<1>1. /\ p \in Sessions /\ tx[p] \in Calls /\ tx[p].pc = "fanout" /\ PublisherOK(p) /\ Types
      /\ ChannelsOf(tx[p].on) \subseteq DOMAIN channels /\ DOMAIN channels \subseteq ChannelIDs
  BY SessionRoles DEF IInv, Types, CallsOK, PublishFanout, ChannelsOf
<1>2. tx' = [tx EXCEPT ![p] = x]
  BY <1>1 DEF PublishFanout
<1>3. /\ x \in Calls /\ x.pc = "insert" /\ x.on = tx[p].on /\ x.msgs = tx[p].msgs
      /\ x.row = tx[p].row /\ x.chans = ChannelsOf(tx[p].on)
  BY <1>1 DEF Calls, PublisherPCs
<1>4. tx'[p] = x
  BY <1>1, <1>2 DEF Types
<1> HIDE DEF x
<1>5. UNCHANGED <<dialect, now, topics, channels, messages, deliveries, lastID, issued>>
  BY DEF PublishFanout
<1>6. PublisherOK(p)'
  <2>1. \A c \in x.chans : c \in DOMAIN channels /\ channels[c].topic_id = x.on
    BY <1>3 DEF ChannelsOf
  <2>2. \A c \in x.chans : c <= lastID.channel
    BY <2>1 DEF IInv, IDsHandedOut
  <2> QED BY <1>1, <1>3, <1>4, <1>5, <2>1, <2>2 DEF PublisherOK, PublisherPCs, Budgets, NewRow
<1>7. CallFits(p, x) /\ RoleOK(p)'
  BY <1>3, <1>6, SessionRoles DEF CallFits, RoleOK
<1> QED BY <1>1, <1>2, <1>3, <1>5, <1>7, CallStep

LEMMA PublishInsertKeeps ==
  ASSUME IInv, NEW p \in Publishers, PublishInsert(p)
  PROVE  IInv'
<1>0. UNCHANGED <<dialect, now, topics, channels, messages, deliveries, lastID, issued>>
  BY DEF PublishInsert
<1>1. /\ p \in Sessions /\ tx[p] \in Calls /\ tx[p].pc = "insert" /\ PublisherOK(p) /\ Types
      /\ tx[p].chans \cap LockedChannels = {}
  BY SessionRoles DEF IInv, Types, CallsOK, PublishInsert
<1>2. CASE ~ParentsExist(tx[p].chans)
  BY <1>0, <1>1, <1>2, CallEnds DEF PublishInsert
<1>3. CASE ParentsExist(tx[p].chans)
  <2> DEFINE x == [tx[p] EXCEPT !.pc = "commit"]
  <2>2. tx' = [tx EXCEPT ![p] = x]
    BY <1>1, <1>3 DEF PublishInsert
  <2>3. /\ x \in Calls /\ x.pc = "commit" /\ x.on = tx[p].on /\ x.msgs = tx[p].msgs
        /\ x.row = tx[p].row /\ x.chans = tx[p].chans
    BY <1>1 DEF Calls, PublisherPCs
  <2>4. tx'[p] = x
    BY <1>1, <2>2 DEF Types
  <2> HIDE DEF x
  <2>5. PublisherOK(p)'
    BY <1>0, <1>1, <1>3, <2>3, <2>4
    DEF PublisherOK, PublisherPCs, Budgets, NewRow, ParentsExist
  <2>6. \A a \in Admins : x.chans \cap tx[a].chans = {}
    BY <1>1, <2>3 DEF LockedChannels
  <2>7. CallFits(p, x) /\ RoleOK(p)'
    BY <2>3, <2>5, <2>6, SessionRoles DEF CallFits, RoleOK
  <2> QED BY <1>0, <1>1, <2>2, <2>3, <2>7, CallStep
<1> QED BY <1>2, <1>3

(* SKIP LOCKED: the rows of a poll are no other call's. *)
LEMMA ClaimPollKeeps ==
  ASSUME IInv, NEW p \in Claimers, NEW c, ClaimPoll(p, c)
  PROVE  IInv'
<1>1. PICK ids \in Batches(SkipLocked(ReadyIn(c)), PollOrder, ClaimLimit) :
        tx' = [tx EXCEPT ![p].pc = "lease", ![p].ids = ids]
  BY DEF ClaimPoll
<1>2. ids \subseteq ReadyIn(c) /\ ids \cap LockedDeliveries = {}
  BY DEF Batches, SkipLocked
<1> DEFINE x == [tx[p] EXCEPT !.pc = "lease", !.ids = ids]
<1>3. /\ p \in Sessions /\ tx[p] \in Calls /\ tx[p].pc = "idle" /\ ClaimerOK(p) /\ Types
  BY SessionRoles DEF IInv, Types, CallsOK, ClaimPoll
<1>4. ids \subseteq DOMAIN deliveries /\ DOMAIN deliveries \subseteq DeliveryIDs
  BY <1>2, <1>3 DEF ReadyIn, DeliveriesOf, Types
<1>5. tx' = [tx EXCEPT ![p] = x]
  BY <1>1
<1>6. /\ x \in Calls /\ x.pc = "lease" /\ x.ids = ids /\ x.until = tx[p].until
  BY <1>3, <1>4 DEF Calls, ClaimerPCs
<1>7. tx'[p] = x
  BY <1>3, <1>5 DEF Types
<1> HIDE DEF x
<1>8. UNCHANGED <<dialect, now, topics, channels, messages, deliveries, lastID, issued>>
  BY DEF ClaimPoll
<1>9. ClaimerOK(p)'
  <2>1. DOMAIN tx[p].until = {}
    BY <1>3, IdleCall DEF ClaimerOK
  <2>2. \A d \in ids : deliveries[d].status = "pending"
    BY <1>2 DEF ReadyIn, Ready
  <2> QED BY <1>4, <1>6, <1>7, <1>8, <2>1, <2>2 DEF ClaimerOK, ClaimerPCs
<1>10. \A u \in Claimers \cup Admins : x.ids \cap tx[u].ids = {}
  BY <1>2, <1>6 DEF LockedDeliveries
<1>11. CallFits(p, x) /\ RoleOK(p)'
  BY <1>9, <1>10, SessionRoles DEF CallFits, RoleOK
<1> QED BY <1>3, <1>5, <1>6, <1>8, <1>11, CallStep

(* The status test of the lease never fails: the rows are locked. *)
LEMMA ClaimLeaseKeeps ==
  ASSUME IInv, NEW p \in Claimers, ClaimLease(p)
  PROVE  IInv'
<1>1. PICK S \in LeaseTargets(p) :
        LET hit  == StillPending(S)
            ids  == (tx[p].ids \ S) \cup hit
            until == [d \in DOMAIN tx[p].until \cup hit |->
                       IF d \in hit THEN now + LeaseSec ELSE tx[p].until[d]]
        IN tx' = [tx EXCEPT ![p].ids = ids, ![p].until = until,
                            ![p].pc = IF ids = DOMAIN until THEN "commit" ELSE "lease"]
  BY DEF ClaimLease
<1> DEFINE hit  == StillPending(S)
           ids  == (tx[p].ids \ S) \cup hit
           until == [d \in DOMAIN tx[p].until \cup hit |->
                       IF d \in hit THEN now + LeaseSec ELSE tx[p].until[d]]
           pc == IF ids = DOMAIN until THEN "commit" ELSE "lease"
           x  == [tx[p] EXCEPT !.ids = ids, !.until = until, !.pc = pc]
<1>2. S \subseteq tx[p].ids
  BY DEF LeaseTargets, Batches
<1>3. /\ p \in Sessions /\ tx[p] \in Calls /\ tx[p].pc = "lease" /\ ClaimerOK(p) /\ Types
  BY SessionRoles DEF IInv, Types, CallsOK, ClaimLease
<1>4. hit \subseteq S
  BY DEF StillPending
<1>5. ids \subseteq tx[p].ids
  BY <1>2, <1>4
<1>6. DOMAIN until \subseteq ids
  BY <1>2, <1>3, <1>4 DEF ClaimerOK, StillPending
<1>7. until \in Untils
  <2>1. now + LeaseSec \in Nat \ {0}
    BY <1>3, RowLockStoreAssumption DEF Types
  <2>2. tx[p].until \in Untils /\ tx[p].ids \subseteq DeliveryIDs
    BY <1>3 DEF Calls
  <2>3. DOMAIN until \in SUBSET DeliveryIDs
    BY <1>5, <1>6, <2>2
  <2>4. until \in [DOMAIN until -> Nat \ {0}]
    BY <2>1, <2>2, UntilTypes
  <2> QED BY <2>3, <2>4, UntilTypes
<1>8. tx' = [tx EXCEPT ![p] = x]
  BY <1>1
<1>p. pc \in {"commit", "lease"} /\ (pc = "commit" => ids = DOMAIN until)
  OBVIOUS
<1> HIDE DEF hit, ids, until, pc
<1>9. /\ x \in Calls /\ x.pc = pc /\ x.ids = ids /\ x.until = until
  BY <1>3, <1>5, <1>7, <1>p DEF Calls, ClaimerPCs
<1>10. tx'[p] = x
  BY <1>3, <1>8 DEF Types
<1> HIDE DEF x
<1>11. UNCHANGED <<dialect, now, topics, channels, messages, deliveries, lastID, issued>>
  BY DEF ClaimLease
<1>12. ClaimerOK(p)'
  BY <1>3, <1>5, <1>6, <1>p, <1>9, <1>10, <1>11 DEF ClaimerOK, ClaimerPCs
<1>13. CallFits(p, x) /\ RoleOK(p)'
  BY <1>5, <1>9, <1>12, SessionRoles DEF CallFits, RoleOK, IInv, Locks
<1> QED BY <1>3, <1>8, <1>9, <1>11, <1>13, CallStep

(* A maintainer's selection locks nothing. *)
LEMMA SelectKeeps ==
  ASSUME IInv, NEW q \in Maintainers, NEW pc \in MaintainerPCs, pc # "idle",
         NEW ids \in SUBSET DeliveryIDs,
         tx[q].pc = "idle", tx' = [tx EXCEPT ![q].pc = pc, ![q].ids = ids],
         UNCHANGED <<dialect, now, topics, channels, messages, deliveries, lastID, issued>>
  PROVE  IInv'
<1> DEFINE x == [tx[q] EXCEPT !.pc = pc, !.ids = ids]
<1>1. q \in Sessions /\ tx[q] \in Calls /\ MaintainerOK(q) /\ Types
  BY SessionRoles DEF IInv, Types, CallsOK
<1>2. tx' = [tx EXCEPT ![q] = x]
  OBVIOUS
<1>3. x \in Calls /\ x.pc = pc /\ x.msgs = tx[q].msgs
  BY <1>1 DEF Calls
<1>4. tx'[q] = x
  BY <1>1, <1>2 DEF Types
<1> HIDE DEF x
<1>5. x.msgs = {}
  BY <1>1, <1>3, IdleCall DEF MaintainerOK
<1>6. MaintainerOK(q)'
  BY <1>3, <1>4, <1>5 DEF MaintainerOK, Cascaded
<1>7. CallFits(q, x) /\ RoleOK(q)'
  BY <1>6, SessionRoles DEF CallFits, RoleOK
<1> QED BY <1>1, <1>2, <1>3, <1>7, CallStep

LEMMA ReapSelectKeeps ==
  ASSUME IInv, NEW q \in Maintainers, ReapSelect(q)
  PROVE  IInv'
<1>1. PICK ids \in Batches(LapsedLeases, ReapOrder, ReapLimit) :
        tx' = [tx EXCEPT ![q].pc = "reap", ![q].ids = ids]
  BY DEF ReapSelect
<1>2. ids \in SUBSET DeliveryIDs
  BY DEF Batches, LapsedLeases, IInv, Types
<1> QED BY <1>1, <1>2, SelectKeeps DEF ReapSelect, MaintainerPCs

LEMMA PurgeSelectKeeps ==
  ASSUME IInv, NEW q \in Maintainers, PurgeSelect(q)
  PROVE  IInv'
<1>1. PICK ids \in Batches(Doomed, PurgeOrder, PurgeLimit) :
        tx' = [tx EXCEPT ![q].pc = IF ids = {} THEN "orphans" ELSE "purge",
                         ![q].ids = ids]
  BY DEF PurgeSelect
<1>2. ids \in SUBSET DeliveryIDs
  BY DEF Batches, Doomed, IInv, Types
<1> DEFINE pc == IF ids = {} THEN "orphans" ELSE "purge"
<1>3. pc \in MaintainerPCs /\ pc # "idle"
  BY DEF MaintainerPCs
<1>4. tx' = [tx EXCEPT ![q].pc = pc, ![q].ids = ids]
  BY <1>1
<1> HIDE DEF pc
<1> QED BY <1>2, <1>3, <1>4, SelectKeeps DEF PurgeSelect

(* An orphan is committed and has no delivery. *)
LEMMA OrphanSelectKeeps ==
  ASSUME IInv, NEW q \in Maintainers, OrphanSelect(q)
  PROVE  IInv'
<1>1. PICK ms \in Batches(Orphans, OrphanOrder, PurgeLimit) :
        tx' = [tx EXCEPT ![q] = IF ms = {} THEN Idle
                                ELSE [Idle EXCEPT !.pc = "delete_orphans", !.msgs = ms]]
  BY DEF OrphanSelect
<1>2. UNCHANGED <<dialect, now, topics, channels, messages, deliveries, lastID, issued>>
  BY DEF OrphanSelect
<1>3. q \in Sessions /\ Types /\ CallsOK /\ IDsHandedOut
  BY SessionRoles DEF IInv
<1>4. CASE ms = {}
  BY <1>1, <1>2, <1>3, <1>4, CallEnds
<1>5. CASE ms # {}
  <2> DEFINE x == [Idle EXCEPT !.pc = "delete_orphans", !.msgs = ms]
  <2>1. tx' = [tx EXCEPT ![q] = x]
    BY <1>1, <1>5
  <2>2. ms \subseteq Orphans
    BY DEF Batches
  <2>3. ms \subseteq DOMAIN messages /\ \A d \in DOMAIN deliveries : MessageOf(d) \notin ms
    BY <2>2 DEF Orphans, Cascaded
  <2>4. x \in Calls /\ x.pc = "delete_orphans" /\ x.msgs = ms
    BY <1>3, <2>3, IdleCall DEF Types, Calls, MaintainerPCs
  <2>5. tx'[q] = x /\ \A p \in Publishers : tx'[p] = tx[p]
    BY <1>3, <2>1, SessionRoles DEF Types
  <2> HIDE DEF x
  <2>6. \A m \in ms : m \notin OpenMessages'
    BY <1>3, <2>3, <2>5 DEF OpenMessages, CallsOK, PublisherOK
  <2>7. \A m \in ms : m <= lastID.message
    BY <1>3, <2>3 DEF IDsHandedOut
  <2>8. MaintainerOK(q)'
    BY <1>2, <2>3, <2>4, <2>5, <2>6, <2>7 DEF MaintainerOK, MaintainerPCs, Cascaded
  <2>9. CallFits(q, x) /\ RoleOK(q)'
    BY <2>8, SessionRoles DEF CallFits, RoleOK
  <2> QED BY <1>2, <1>3, <2>1, <2>4, <2>9, CallStep
<1> QED BY <1>4, <1>5

LEMMA RequeueDeadKeeps ==
  ASSUME IInv, NEW a \in Admins, NEW d, NEW c, RequeueDead(a, d, c)
  PROVE  IInv'
<1> DEFINE row == Revived(deliveries[d], now, FreshTTLSec)
           x == [tx[a] EXCEPT !.pc = "message", !.ids = {d}, !.row = row]
<1>1. /\ a \in Sessions /\ tx[a] \in Calls /\ tx[a].pc = "idle" /\ AdminOK(a) /\ Types
      /\ d \in DOMAIN deliveries /\ deliveries[d].status = "dead" /\ Free({d})
  BY SessionRoles DEF IInv, Types, CallsOK, RequeueDead, DeliveriesOf
<1>2. UNCHANGED <<dialect, now, topics, channels, messages, deliveries, lastID, issued>>
  BY DEF RequeueDead
<1>3. tx' = [tx EXCEPT ![a] = x]
  BY DEF RequeueDead
<1>4. deliveries[d] \in Delivery /\ d \in DeliveryIDs /\ now \in Nat
  BY <1>1 DEF Types
<1>5. row \in Delivery
  BY <1>4, RowLockStoreAssumption, RowTypes
<1>6. \E t \in Nat : row = Revived(deliveries[d], t, FreshTTLSec)
  BY <1>4
<1> HIDE DEF row
<1>7. /\ x \in Calls /\ x.pc = "message" /\ x.ids = {d} /\ x.row = row
      /\ x.msgs = tx[a].msgs /\ x.chans = tx[a].chans
  BY <1>1, <1>4, <1>5 DEF Calls, AdminPCs
<1>8. tx'[a] = x
  BY <1>1, <1>3 DEF Types
<1> HIDE DEF x
<1>9. x.msgs = {} /\ x.chans = {}
  BY <1>1, <1>7, IdleCall DEF AdminOK
<1>10. AdminOK(a)'
  BY <1>1, <1>2, <1>6, <1>7, <1>8, <1>9 DEF AdminOK, AdminPCs
<1>11. \A u \in Claimers \cup Admins : x.ids \cap tx[u].ids = {}
  BY <1>1, <1>7 DEF Free, LockedDeliveries
<1>12. CallFits(a, x) /\ RoleOK(a)'
  BY <1>9, <1>10, <1>11, SessionRoles DEF CallFits, RoleOK
<1> QED BY <1>1, <1>2, <1>3, <1>7, <1>12, CallStep

LEMMA DeleteTopicKeeps ==
  ASSUME IInv, NEW a \in Admins, NEW t \in TopicIDs, DeleteTopic(a, t)
  PROVE  IInv'
<1> DEFINE ms == MessagesOf(t)
           ids == Cascaded(ms)
           x == [tx[a] EXCEPT !.pc = "channels", !.on = t, !.msgs = ms, !.ids = ids]
<1>1. /\ a \in Sessions /\ tx[a] \in Calls /\ tx[a].pc = "idle" /\ AdminOK(a) /\ Types
      /\ ms \cap LockedMessages = {} /\ Free(ids)
  BY SessionRoles DEF IInv, Types, CallsOK, DeleteTopic
<1>2. UNCHANGED <<dialect, now, topics, channels, messages, deliveries, lastID, issued>>
  BY DEF DeleteTopic
<1>3. tx' = [tx EXCEPT ![a] = x]
  BY DEF DeleteTopic
<1>4. ms \subseteq MessageIDs /\ ids \subseteq DeliveryIDs /\ ids \subseteq DOMAIN deliveries
  BY <1>1 DEF Types, MessagesOf, Cascaded
<1>5. t \in Nat
  BY RowLockStoreAssumption DEF TopicIDs
<1>6. /\ ms = {m \in DOMAIN messages' : messages'[m].topic_id = t}
      /\ ids = {d \in DOMAIN deliveries' : MessageOf(d) \in ms}
  BY <1>2 DEF MessagesOf, Cascaded
<1> HIDE DEF ids, ms
<1>7. /\ x \in Calls /\ x.pc = "channels" /\ x.ids = ids /\ x.on = t
      /\ x.msgs = ms /\ x.chans = tx[a].chans
  BY <1>1, <1>4, <1>5 DEF Calls, AdminPCs
<1>8. tx'[a] = x
  BY <1>1, <1>3 DEF Types
<1> HIDE DEF x
<1>9. x.chans = {}
  BY <1>1, <1>7, IdleCall DEF AdminOK
<1>10. AdminOK(a)'
  BY <1>2, <1>4, <1>6, <1>7, <1>8, <1>9 DEF AdminOK, AdminPCs, MessagesOf, Cascaded
<1>11. /\ \A u \in Claimers \cup Admins : x.ids \cap tx[u].ids = {}
       /\ \A b \in Admins : x.msgs \cap tx[b].msgs = {}
  BY <1>1, <1>7 DEF Free, LockedDeliveries, LockedMessages
<1>12. CallFits(a, x) /\ RoleOK(a)'
  BY <1>9, <1>10, <1>11, SessionRoles DEF CallFits, RoleOK
<1> QED BY <1>1, <1>2, <1>3, <1>7, <1>12, CallStep

LEMMA DeleteTopicChannelsKeeps ==
  ASSUME IInv, NEW a \in Admins, DeleteTopicChannels(a)
  PROVE  IInv'
<1> DEFINE cs == ChannelsOf(tx[a].on)
<1>1. /\ a \in Sessions /\ tx[a] \in Calls /\ tx[a].pc = "channels" /\ AdminOK(a) /\ Types
      /\ cs \cap SharedChannels = {}
  BY SessionRoles DEF IInv, Types, CallsOK, DeleteTopicChannels
<1>2. UNCHANGED <<dialect, now, topics, channels, messages, deliveries, lastID, issued>>
  BY DEF DeleteTopicChannels
<1>3. CASE ~NoOtherChildren(UNION {DeliveriesOf(c) : c \in cs}, tx[a].ids)
  BY <1>1, <1>2, <1>3, CallEnds DEF DeleteTopicChannels
<1>4. CASE NoOtherChildren(UNION {DeliveriesOf(c) : c \in cs}, tx[a].ids)
  <2> DEFINE x == [tx[a] EXCEPT !.pc = "topic", !.chans = cs]
  <2>1. tx' = [tx EXCEPT ![a] = x]
    BY <1>4 DEF DeleteTopicChannels
  <2>2. \A c \in cs : DeliveriesOf(c) \subseteq tx[a].ids
    BY <1>4 DEF NoOtherChildren
  <2>3. cs \subseteq ChannelIDs /\ \A c \in cs : c <= lastID.channel
    BY <1>1 DEF Types, IInv, IDsHandedOut, ChannelsOf
  <2>4. \A c \in cs : DeliveriesOf(c)' = DeliveriesOf(c)
    BY <1>2 DEF DeliveriesOf
  <2> HIDE DEF cs
  <2>5. /\ x \in Calls /\ x.pc = "topic" /\ x.ids = tx[a].ids /\ x.on = tx[a].on
        /\ x.msgs = tx[a].msgs /\ x.chans = cs
    BY <1>1, <2>3 DEF Calls, AdminPCs
  <2>6. tx'[a] = x
    BY <1>1, <2>1 DEF Types
  <2> HIDE DEF x
  <2>8. AdminOK(a)'
    BY <1>1, <1>2, <2>2, <2>3, <2>4, <2>5, <2>6 DEF AdminOK, AdminPCs, MessagesOf, Cascaded
  <2>9. \A p \in Publishers : tx[p].pc = "commit" => tx[p].chans \cap x.chans = {}
    BY <1>1, <2>5 DEF SharedChannels
  <2>10. CallFits(a, x)
    BY <2>5, <2>9, SessionRoles DEF CallFits, IInv, Locks
  <2>11. RoleOK(a)'
    BY <2>8, SessionRoles DEF RoleOK
  <2> QED BY <1>1, <1>2, <2>1, <2>5, <2>10, <2>11, CallStep
<1> QED BY <1>3, <1>4

LEMMA DeleteChannelKeeps ==
  ASSUME IInv, NEW a \in Admins, NEW c \in ChannelIDs, DeleteChannel(a, c)
  PROVE  IInv'
<1> DEFINE ids == DeliveriesOf(c)
           x == [tx[a] EXCEPT !.pc = "channel", !.on = c, !.ids = ids]
<1>1. /\ a \in Sessions /\ tx[a] \in Calls /\ tx[a].pc = "idle" /\ AdminOK(a) /\ Types
      /\ Free(ids)
  BY SessionRoles DEF IInv, Types, CallsOK, DeleteChannel
<1>2. UNCHANGED <<dialect, now, topics, channels, messages, deliveries, lastID, issued>>
  BY DEF DeleteChannel
<1>3. tx' = [tx EXCEPT ![a] = x]
  BY DEF DeleteChannel
<1>4. ids \subseteq DeliveryIDs /\ ids \subseteq DOMAIN deliveries
  BY <1>1 DEF Types, DeliveriesOf
<1>5. c \in Nat
  BY RowLockStoreAssumption DEF ChannelIDs
<1>6. DeliveriesOf(c)' = ids
  BY <1>2 DEF DeliveriesOf
<1> HIDE DEF ids
<1>7. /\ x \in Calls /\ x.pc = "channel" /\ x.ids = ids /\ x.on = c
      /\ x.msgs = tx[a].msgs /\ x.chans = tx[a].chans
  BY <1>1, <1>4, <1>5 DEF Calls, AdminPCs
<1>8. tx'[a] = x
  BY <1>1, <1>3 DEF Types
<1> HIDE DEF x
<1>9. x.msgs = {} /\ x.chans = {}
  BY <1>1, <1>7, IdleCall DEF AdminOK
<1>10. AdminOK(a)'
  BY <1>2, <1>4, <1>6, <1>7, <1>8, <1>9 DEF AdminOK, AdminPCs
<1>11. \A u \in Claimers \cup Admins : x.ids \cap tx[u].ids = {}
  BY <1>1, <1>7 DEF Free, LockedDeliveries
<1>12. CallFits(a, x) /\ RoleOK(a)'
  BY <1>9, <1>10, <1>11, SessionRoles DEF CallFits, RoleOK
<1> QED BY <1>1, <1>2, <1>3, <1>7, <1>12, CallStep

----------------------------------------------------------------------------
(* Steps that write the tables. *)

(* What a step must leave alone for the calls that do not take it: the     *)
(* rows they have locked, and the parents that publishes refer to.         *)
Undisturbed(s) ==
  /\ s \in Claimers \cup Admins =>
       \A d \in tx[s].ids : d \in DOMAIN deliveries' /\ deliveries'[d] = deliveries[d]
  /\ s \in Admins =>
       \A m \in tx[s].msgs :
         m \in DOMAIN messages' /\ messages'[m].topic_id = messages[m].topic_id
  /\ s \in Publishers =>
       /\ \A m \in tx[s].msgs : m \notin DOMAIN messages'
       /\ tx[s].pc # "idle" => tx[s].on \in DOMAIN topics'
       /\ \A c \in tx[s].chans \cap DOMAIN channels' :
            c \in DOMAIN channels /\ channels'[c] = channels[c]
       /\ tx[s].pc = "commit" => tx[s].chans \subseteq DOMAIN channels'

(* What a session that takes a step is left with: nothing locked, and no   *)
(* message but a new one.                                                  *)
Unlocked(s) ==
  \/ s \in Maintainers
  \/ /\ tx'[s].ids = {} /\ tx'[s].chans = {}
     /\ \A m \in tx'[s].msgs : s \in Publishers /\ m > lastID.message

LEMMA OthersKept ==
  ASSUME IInv, Types', NEW A \in SUBSET Sessions, \A s, u \in A : s = u,
         \A s \in A : RoleOK(s)' /\ Unlocked(s),
         \A s \in Sessions \ A : tx'[s] = tx[s] /\ Undisturbed(s),
         lastID'.message >= lastID.message, lastID'.channel >= lastID.channel,
         \A d \in DOMAIN deliveries' \ DOMAIN deliveries :
           MessageOf(d) \in OpenMessages /\ ChannelOf(d) \notin LockedChannels
  PROVE  CallsOK' /\ Locks'
<1>1. Types /\ CallsOK /\ Locks
  BY DEF IInv
<1>2. \A s \in Sessions : tx[s] \in Calls /\ tx'[s] \in Calls
  BY <1>1 DEF Types
<1>3. lastID.message \in Nat /\ lastID.channel \in Nat
  BY <1>1, RowLockStoreAssumption DEF Types
<1>4. \A p \in Publishers : \A m \in tx[p].msgs :
        m \in Nat /\ m <= lastID.message /\ m \notin DOMAIN messages
  BY <1>1, <1>2, SessionRoles DEF CallsOK, PublisherOK, Calls, MessageIDs
<1>5. \A m \in OpenMessages' : m \in OpenMessages \/ m > lastID.message
  <2> SUFFICES ASSUME NEW p \in Publishers, NEW m \in tx'[p].msgs
               PROVE  m \in OpenMessages \/ m > lastID.message
    BY DEF OpenMessages
  <2>1. CASE p \in A
    BY <2>1, SessionRoles DEF Unlocked
  <2>2. CASE p \notin A
    BY <2>2, SessionRoles DEF OpenMessages
  <2> QED BY <2>1, <2>2
<1>6. \A m \in OpenMessages : m \notin DOMAIN messages
  BY <1>4 DEF OpenMessages
<1>7. \A p \in Publishers : PublisherOK(p)'
  <2> SUFFICES ASSUME NEW p \in Publishers, p \notin A PROVE PublisherOK(p)'
    BY DEF RoleOK
  <2>1. tx'[p] = tx[p] /\ PublisherOK(p) /\ Undisturbed(p)
    BY <1>1, SessionRoles DEF CallsOK
  <2> QED BY <1>1, <2>1, PublisherKept DEF Undisturbed
<1>8. \A p \in Claimers : ClaimerOK(p)'
  <2> SUFFICES ASSUME NEW p \in Claimers, p \notin A PROVE ClaimerOK(p)'
    BY DEF RoleOK
  <2>1. tx'[p] = tx[p] /\ ClaimerOK(p) /\ Undisturbed(p)
    BY <1>1, SessionRoles DEF CallsOK
  <2> QED BY <2>1, ClaimerKept DEF Undisturbed
<1>9. \A q \in Maintainers : MaintainerOK(q)'
  <2> SUFFICES ASSUME NEW q \in Maintainers, q \notin A PROVE MaintainerOK(q)'
    BY DEF RoleOK
  <2>1. tx'[q] = tx[q] /\ MaintainerOK(q)
    BY <1>1, SessionRoles DEF CallsOK
  <2> QED BY <1>1, <1>5, <2>1, MaintainerKept
<1>10. \A a \in Admins : AdminOK(a)'
  <2> SUFFICES ASSUME NEW a \in Admins, a \notin A PROVE AdminOK(a)'
    BY DEF RoleOK
  <2>1. tx'[a] = tx[a] /\ AdminOK(a) /\ Undisturbed(a)
    BY <1>1, SessionRoles DEF CallsOK
  <2>2. tx[a].msgs \subseteq DOMAIN messages /\ tx[a].chans \subseteq LockedChannels
    BY <2>1 DEF AdminOK, MessagesOf, LockedChannels
  <2>3. \A d \in DOMAIN deliveries' \ DOMAIN deliveries :
          MessageOf(d) \notin tx[a].msgs /\ ChannelOf(d) \notin tx[a].chans
    BY <1>6, <2>2
  <2> QED BY <1>1, <2>1, <2>3, AdminKept DEF Undisturbed
<1>11. CallsOK'
  BY <1>7, <1>8, <1>9, <1>10 DEF CallsOK
<1>12. Locks'
  <2>1. \A u \in Claimers \cup Admins : tx'[u].ids = {} \/ tx'[u].ids = tx[u].ids
    BY SessionRoles DEF Unlocked
  <2>2. \A a \in Admins : tx'[a].msgs = {} \/ tx'[a].msgs = tx[a].msgs
    BY SessionRoles DEF Unlocked
  <2>3. \A a \in Admins : tx'[a].chans = {} \/ tx'[a].chans = tx[a].chans
    BY SessionRoles DEF Unlocked
  <2>4. \A p \in Publishers : tx'[p].chans = {} \/ tx'[p] = tx[p]
    BY SessionRoles DEF Unlocked
  <2>5. \A p, r \in Publishers : p # r => tx'[p].msgs \cap tx'[r].msgs = {}
    <3> SUFFICES ASSUME NEW p \in Publishers, NEW r \in Publishers, p # r, p \notin A
                 PROVE  tx'[p].msgs \cap tx'[r].msgs = {}
      OBVIOUS
    <3>1. tx'[p] = tx[p] /\ \A m \in tx[p].msgs : m \in Nat /\ m <= lastID.message
      BY <1>4, SessionRoles
    <3>2. CASE r \in A
      <4>1. \A m \in tx'[r].msgs : m > lastID.message
        BY <3>2, SessionRoles DEF Unlocked
      <4> QED BY <1>3, <3>1, <4>1
    <3>3. CASE r \notin A
      BY <1>1, <3>1, <3>3, SessionRoles DEF Locks
    <3> QED BY <3>2, <3>3
  <2>6. \A v, u \in Claimers \cup Admins : v # u => tx'[v].ids \cap tx'[u].ids = {}
    BY <1>1, <2>1 DEF Locks
  <2>7. \A a, b \in Admins : a # b => tx'[a].msgs \cap tx'[b].msgs = {}
    BY <1>1, <2>2 DEF Locks
  <2>8. \A p \in Publishers, a \in Admins :
          tx'[p].pc = "commit" => tx'[p].chans \cap tx'[a].chans = {}
    BY <1>1, <2>3, <2>4 DEF Locks
  <2> QED BY <2>5, <2>6, <2>7, <2>8 DEF Locks
<1> QED BY <1>11, <1>12

(* The lease columns are set exactly while a row is in flight. *)
LEMMA WrittenColumns ==
  ASSUME NEW r \in Delivery, NEW token \in Nat \ {0}, NEW until \in Nat \ {0},
         NEW at \in Nat, NEW ttl \in Nat
  PROVE  /\ LeaseColumns(Leased(r, token, until))
         /\ LeaseColumns(Released(r, at))
         /\ LeaseColumns(Revived(r, at, ttl))
<1>1. LeaseColumns(Leased(r, token, until))
  BY DEF LeaseColumns, Leased, Delivery, NULL
<1>2. LeaseColumns(Released(r, at))
  BY DEF LeaseColumns, Released, Delivery, NULL
<1>3. LeaseColumns(Revived(r, at, ttl))
  BY DEF LeaseColumns, Revived, Delivery, NULL
<1> QED BY <1>1, <1>2, <1>3

(* A statement that writes only deliveries, and none that another call has *)
(* locked.                                                                 *)
LEMMA DeliveriesStep ==
  ASSUME IInv, NEW A \in SUBSET Sessions, \A s, u \in A : s = u,
         \A s \in A : RoleOK(s)' /\ Unlocked(s),
         \A s \in Sessions \ A : tx'[s] = tx[s],
         tx' \in [Sessions -> Calls],
         DOMAIN deliveries' \subseteq DOMAIN deliveries,
         deliveries' \in [DOMAIN deliveries' -> Delivery],
         \A d \in DOMAIN deliveries' :
           deliveries'[d] = deliveries[d] \/ LeaseColumns(deliveries'[d]),
         \A s \in (Claimers \cup Admins) \ A : \A d \in tx[s].ids :
           d \in DOMAIN deliveries' /\ deliveries'[d] = deliveries[d],
         lastID' \in [topic : 0..MaxTopicID, channel : 0..MaxChannelID,
                      message : 0..MaxMessageID, lease : Nat],
         lastID'.channel = lastID.channel, lastID'.message = lastID.message,
         lastID'.lease >= lastID.lease,
         issued' \subseteq DeliveryIDs \X (Nat \ {0}),
         \A i \in issued' : i \in issued \/ i[2] <= lastID'.lease,
         UNCHANGED <<dialect, now, topics, channels, messages>>
  PROVE  IInv'
<1>1. Types /\ CallsOK /\ Locks /\ IDsHandedOut /\ RowsLeased /\ Integrity
  BY DEF IInv
<1>2. Types'
  BY <1>1 DEF Types
<1>3. IDsHandedOut'
  <2>1. \A i \in issued' : i[2] <= lastID'.lease
    <3> SUFFICES ASSUME NEW i \in issued', i \in issued PROVE i[2] <= lastID'.lease
      OBVIOUS
    <3>1. i[2] \in Nat /\ lastID.lease \in Nat /\ lastID'.lease \in Nat /\ i[2] <= lastID.lease
      BY <1>1 DEF Types, IDsHandedOut
    <3> QED BY <3>1
  <2> QED BY <1>1, <2>1 DEF IDsHandedOut
<1>4. RowsLeased'
  BY <1>1 DEF RowsLeased
<1>5. Integrity'
  BY <1>1 DEF Integrity
<1>6. \A s \in Sessions \ A : Undisturbed(s)
  <2> SUFFICES ASSUME NEW s \in Sessions \ A PROVE Undisturbed(s)
    OBVIOUS
  <2>1. s \in Admins => tx[s].msgs \subseteq DOMAIN messages
    BY <1>1 DEF CallsOK, AdminOK, MessagesOf
  <2>2. s \in Publishers => PublisherOK(s)
    BY <1>1 DEF CallsOK
  <2> QED BY <2>1, <2>2 DEF Undisturbed, PublisherOK
<1>7. lastID.message \in Nat /\ lastID.channel \in Nat
  BY <1>1, RowLockStoreAssumption DEF Types
<1>8. CallsOK' /\ Locks'
  BY <1>2, <1>6, <1>7, OthersKept
<1> QED BY <1>2, <1>3, <1>4, <1>5, <1>8 DEF IInv

(* The same when the call that writes ends with it, or is a single         *)
(* statement of its own.                                                   *)
LEMMA LastStatement ==
  ASSUME IInv, NEW s \in Sessions, tx' = [tx EXCEPT ![s] = Idle]
  PROVE  /\ RoleOK(s)' /\ Unlocked(s)
         /\ \A u \in Sessions \ {s} : tx'[u] = tx[u]
         /\ tx' \in [Sessions -> Calls]
<1>1. tx \in [Sessions -> Calls]
  BY DEF IInv, Types
<1>2. tx'[s] = Idle
  BY <1>1
<1>3. RoleOK(s)' /\ Unlocked(s)
  BY <1>2, IdleCall, IdleOK DEF RoleOK, Unlocked
<1> QED BY <1>1, <1>3, IdleCall

LEMMA SingleStatement ==
  ASSUME IInv, DOMAIN deliveries' \subseteq DOMAIN deliveries,
         deliveries' \in [DOMAIN deliveries' -> Delivery],
         \A d \in DOMAIN deliveries' :
           deliveries'[d] = deliveries[d] \/ LeaseColumns(deliveries'[d]),
         \A d \in LockedDeliveries : d \in DOMAIN deliveries =>
           d \in DOMAIN deliveries' /\ deliveries'[d] = deliveries[d],
         UNCHANGED <<dialect, now, topics, channels, messages, lastID, tx, issued>>
  PROVE  IInv'
<1>1. Types /\ CallsOK /\ IDsHandedOut
  BY DEF IInv
<1>2. \A s \in Claimers \cup Admins : \A d \in tx[s].ids :
        d \in DOMAIN deliveries' /\ deliveries'[d] = deliveries[d]
  BY <1>1 DEF LockedDeliveries, CallsOK, ClaimerOK, AdminOK
<1>3. /\ lastID \in [topic : 0..MaxTopicID, channel : 0..MaxChannelID,
                     message : 0..MaxMessageID, lease : Nat]
      /\ lastID.lease \in Nat /\ lastID.lease >= lastID.lease
  BY <1>1 DEF Types
<1>4. tx \in [Sessions -> Calls] /\ issued \subseteq DeliveryIDs \X (Nat \ {0})
  BY <1>1 DEF Types
<1>5. /\ {} \in SUBSET Sessions /\ \A s, u \in {} : s = u
      /\ \A s \in {} : RoleOK(s)' /\ Unlocked(s)
  OBVIOUS
<1> QED BY <1>2, <1>3, <1>4, <1>5, DeliveriesStep

LEMMA AckKeeps ==
  ASSUME IInv, NEW d, NEW token, Ack(d, token)
  PROVE  IInv'
<1>1. UNCHANGED <<dialect, now, topics, channels, messages, lastID, tx, issued>>
  BY DEF Ack
<1>2. d \notin LockedDeliveries
  BY DEF Ack, Free
<1>3. /\ DOMAIN deliveries' = DOMAIN deliveries \ {d}
      /\ deliveries' \in [DOMAIN deliveries' -> Delivery]
      /\ \A e \in DOMAIN deliveries \ {d} : deliveries'[e] = deliveries[e]
  BY DEF Ack, Without, IInv, Types
<1> QED BY <1>1, <1>2, <1>3, SingleStatement

LEMMA DeleteDeadKeeps ==
  ASSUME IInv, NEW d, NEW c, DeleteDead(d, c)
  PROVE  IInv'
<1>1. UNCHANGED <<dialect, now, topics, channels, messages, lastID, tx, issued>>
  BY DEF DeleteDead
<1>2. d \notin LockedDeliveries
  BY DEF DeleteDead, Free
<1>3. /\ DOMAIN deliveries' = DOMAIN deliveries \ {d}
      /\ deliveries' \in [DOMAIN deliveries' -> Delivery]
      /\ \A e \in DOMAIN deliveries \ {d} : deliveries'[e] = deliveries[e]
  BY DEF DeleteDead, Without, IInv, Types
<1> QED BY <1>1, <1>2, <1>3, SingleStatement

LEMMA RequeueKeeps ==
  ASSUME IInv, NEW d, NEW token, NEW at \in RequeueAt, Requeue(d, token, at)
  PROVE  IInv'
<1>1. UNCHANGED <<dialect, now, topics, channels, messages, lastID, tx, issued>>
  BY DEF Requeue
<1>2. d \notin LockedDeliveries /\ d \in DOMAIN deliveries
  BY DEF Requeue, Free, HoldsLease
<1> DEFINE time == IF at = 0 THEN now ELSE at
           row == Released(deliveries[d], time)
<1>3. time \in Nat /\ deliveries[d] \in Delivery /\ deliveries \in [DOMAIN deliveries -> Delivery]
  BY <1>2, RowLockStoreAssumption DEF IInv, Types
<1>4. deliveries' = [deliveries EXCEPT ![d] = row]
  BY DEF Requeue
<1> HIDE DEF time
<1>5. row \in Delivery /\ LeaseColumns(row)
  <2>1. row \in Delivery
    BY <1>3 DEF Delivery, Released, Status, NULL
  <2>2. LeaseColumns(row)
    BY <1>3 DEF LeaseColumns, Released, Delivery, NULL
  <2> QED BY <2>1, <2>2
<1> HIDE DEF row
<1>6. /\ DOMAIN deliveries' = DOMAIN deliveries
      /\ deliveries' \in [DOMAIN deliveries' -> Delivery]
      /\ \A e \in DOMAIN deliveries \ {d} : deliveries'[e] = deliveries[e]
      /\ deliveries'[d] = row
  BY <1>2, <1>3, <1>4, <1>5
<1> QED BY <1>1, <1>2, <1>5, <1>6, SingleStatement

(* The rows ids released. *)
LEMMA ReleasedRows ==
  ASSUME IInv, NEW ids, deliveries' = Updated(ids, LAMBDA d : Released(deliveries[d], now))
  PROVE  /\ DOMAIN deliveries' = DOMAIN deliveries
         /\ deliveries' \in [DOMAIN deliveries' -> Delivery]
         /\ \A d \in DOMAIN deliveries \ ids : deliveries'[d] = deliveries[d]
         /\ \A d \in DOMAIN deliveries \cap ids :
              deliveries'[d] = Released(deliveries[d], now) /\ LeaseColumns(deliveries'[d])
<1>1. now \in Nat /\ \A d \in DOMAIN deliveries : deliveries[d] \in Delivery
  BY DEF IInv, Types
<1>2. \A d \in DOMAIN deliveries :
        /\ Released(deliveries[d], now) \in Delivery
        /\ LeaseColumns(Released(deliveries[d], now))
  <2> SUFFICES ASSUME NEW d \in DOMAIN deliveries
               PROVE  /\ Released(deliveries[d], now) \in Delivery
                      /\ LeaseColumns(Released(deliveries[d], now))
    OBVIOUS
  <2>1. Released(deliveries[d], now) \in Delivery
    BY <1>1 DEF Delivery, Released, Status, NULL
  <2>2. LeaseColumns(Released(deliveries[d], now))
    BY <1>1 DEF LeaseColumns, Released, Delivery, NULL
  <2> QED BY <2>1, <2>2
<1>3. deliveries' = [d \in DOMAIN deliveries |->
                       IF d \in ids THEN Released(deliveries[d], now) ELSE deliveries[d]]
  BY DEF Updated
<1> QED BY <1>1, <1>2, <1>3

LEMMA ReapExpiredLeasesKeeps ==
  ASSUME IInv, ReapExpiredLeases
  PROVE  IInv'
<1>1. UNCHANGED <<dialect, now, topics, channels, messages, lastID, tx, issued>>
  BY DEF ReapExpiredLeases
<1>2. PICK ids \in Batches(LapsedLeases, ReapOrder, ReapLimit) :
        /\ Free(ids)
        /\ deliveries' = Updated(ids, LAMBDA d : Released(deliveries[d], now))
  BY DEF ReapExpiredLeases
<1>3. \A d \in LockedDeliveries : d \notin ids
  BY <1>2 DEF Free
<1>4. /\ DOMAIN deliveries' = DOMAIN deliveries
      /\ deliveries' \in [DOMAIN deliveries' -> Delivery]
      /\ \A d \in DOMAIN deliveries \ ids : deliveries'[d] = deliveries[d]
      /\ \A d \in DOMAIN deliveries \cap ids : LeaseColumns(deliveries'[d])
  BY <1>2, ReleasedRows
<1> QED BY <1>1, <1>3, <1>4, SingleStatement

(* The last statement of a call. *)
LEMMA CallStatement ==
  ASSUME IInv, NEW s \in Sessions, RoleOK(s)', Unlocked(s),
         \A u \in Sessions \ {s} : tx'[u] = tx[u],
         tx' \in [Sessions -> Calls],
         DOMAIN deliveries' \subseteq DOMAIN deliveries,
         deliveries' \in [DOMAIN deliveries' -> Delivery],
         \A d \in DOMAIN deliveries' :
           deliveries'[d] = deliveries[d] \/ LeaseColumns(deliveries'[d]),
         \A u \in (Claimers \cup Admins) \ {s} : \A d \in tx[u].ids :
           d \in DOMAIN deliveries' /\ deliveries'[d] = deliveries[d],
         lastID' \in [topic : 0..MaxTopicID, channel : 0..MaxChannelID,
                      message : 0..MaxMessageID, lease : Nat],
         lastID'.channel = lastID.channel, lastID'.message = lastID.message,
         lastID'.lease >= lastID.lease,
         issued' \subseteq DeliveryIDs \X (Nat \ {0}),
         \A i \in issued' : i \in issued \/ i[2] <= lastID'.lease,
         UNCHANGED <<dialect, now, topics, channels, messages>>
  PROVE  IInv'
<1>1. {s} \in SUBSET Sessions /\ \A u, v \in {s} : u = v
  OBVIOUS
<1>2. \A u \in {s} : RoleOK(u)' /\ Unlocked(u)
  OBVIOUS
<1> QED BY <1>1, <1>2, DeliveriesStep

LEMMA ReapUpdateKeeps ==
  ASSUME IInv, NEW q \in Maintainers, ReapUpdate(q)
  PROVE  IInv'
<1> DEFINE ids == StillLapsed(tx[q].ids)
<1>1. Free(ids) /\ deliveries' = Updated(ids, LAMBDA d : Released(deliveries[d], now))
  BY DEF ReapUpdate
<1>2. UNCHANGED <<dialect, now, topics, channels, messages, lastID, issued>>
  BY DEF ReapUpdate
<1> HIDE DEF ids
<1>3. q \in Sessions /\ tx' = [tx EXCEPT ![q] = Idle]
  BY SessionRoles DEF ReapUpdate
<1>4. /\ RoleOK(q)' /\ Unlocked(q)
      /\ \A u \in Sessions \ {q} : tx'[u] = tx[u]
      /\ tx' \in [Sessions -> Calls]
  BY <1>3, LastStatement
<1>5. /\ DOMAIN deliveries' = DOMAIN deliveries
      /\ deliveries' \in [DOMAIN deliveries' -> Delivery]
      /\ \A d \in DOMAIN deliveries \ ids : deliveries'[d] = deliveries[d]
      /\ \A d \in DOMAIN deliveries \cap ids : LeaseColumns(deliveries'[d])
  BY <1>1, ReleasedRows
<1>6. \A u \in Claimers \cup Admins : \A d \in tx[u].ids : d \in DOMAIN deliveries /\ d \notin ids
  BY <1>1 DEF Free, LockedDeliveries, IInv, CallsOK, ClaimerOK, AdminOK
<1>7. /\ lastID \in [topic : 0..MaxTopicID, channel : 0..MaxChannelID,
                     message : 0..MaxMessageID, lease : Nat]
      /\ lastID.lease \in Nat /\ lastID.lease >= lastID.lease
      /\ issued \subseteq DeliveryIDs \X (Nat \ {0})
  BY DEF IInv, Types
<1> QED BY <1>2, <1>3, <1>4, <1>5, <1>6, <1>7, CallStatement

LEMMA PurgeDeleteKeeps ==
  ASSUME IInv, NEW q \in Maintainers, PurgeDelete(q)
  PROVE  IInv'
<1> DEFINE gone == StillDoomed(tx[q].ids)
           x == [tx[q] EXCEPT !.pc = "orphans", !.ids = {}]
<1>1. Free(gone) /\ deliveries' = Without(deliveries, gone)
  BY DEF PurgeDelete
<1>2. UNCHANGED <<dialect, now, topics, channels, messages, lastID, issued>>
  BY DEF PurgeDelete
<1> HIDE DEF gone
<1>3. q \in Sessions /\ tx' = [tx EXCEPT ![q] = x] /\ Types /\ tx[q] \in Calls /\ MaintainerOK(q)
  BY SessionRoles DEF PurgeDelete, IInv, Types, CallsOK
<1>4. x \in Calls /\ x.pc = "orphans" /\ x.msgs = tx[q].msgs
  BY <1>3 DEF Calls, MaintainerPCs
<1> HIDE DEF x
<1>5. /\ tx'[q] = x /\ \A u \in Sessions \ {q} : tx'[u] = tx[u]
      /\ tx' \in [Sessions -> Calls]
  BY <1>3, <1>4 DEF Types
<1>6. /\ DOMAIN deliveries' = DOMAIN deliveries \ gone
      /\ deliveries' \in [DOMAIN deliveries' -> Delivery]
      /\ \A d \in DOMAIN deliveries' : deliveries'[d] = deliveries[d]
  BY <1>1, <1>3 DEF Without, Types
<1>7. OpenMessages' = OpenMessages
  BY <1>5, SessionRoles DEF OpenMessages
<1>8. Cascaded(tx[q].msgs)' = {}
  BY <1>3, <1>4, <1>5, <1>6 DEF MaintainerOK, Cascaded
<1>9. MaintainerOK(q)'
  BY <1>2, <1>3, <1>4, <1>5, <1>7, <1>8 DEF MaintainerOK, MaintainerPCs
<1>10. RoleOK(q)' /\ Unlocked(q)
  BY <1>9, SessionRoles DEF RoleOK, Unlocked
<1>11. \A u \in Claimers \cup Admins : \A d \in tx[u].ids : d \in DOMAIN deliveries /\ d \notin gone
  BY <1>1 DEF Free, LockedDeliveries, IInv, CallsOK, ClaimerOK, AdminOK
<1>12. /\ lastID \in [topic : 0..MaxTopicID, channel : 0..MaxChannelID,
                      message : 0..MaxMessageID, lease : Nat]
       /\ lastID.lease \in Nat /\ lastID.lease >= lastID.lease
       /\ issued \subseteq DeliveryIDs \X (Nat \ {0})
  BY DEF IInv, Types
<1> QED BY <1>2, <1>3, <1>5, <1>6, <1>10, <1>11, <1>12, CallStatement

(* The commit leases what was polled: the rows are as the poll saw them. *)
LEMMA ClaimRows ==
  ASSUME IInv, NEW p \in Claimers, tx[p].pc = "commit", NEW token \in Nat \ {0},
         deliveries' = Updated(tx[p].ids, LAMBDA d : Leased(deliveries[d], token, tx[p].until[d]))
  PROVE  /\ DOMAIN deliveries' = DOMAIN deliveries
         /\ deliveries' \in [DOMAIN deliveries' -> Delivery]
         /\ \A d \in DOMAIN deliveries \ tx[p].ids : deliveries'[d] = deliveries[d]
         /\ \A d \in tx[p].ids :
              /\ d \in DOMAIN deliveries /\ tx[p].until[d] \in Nat \ {0}
              /\ deliveries'[d] = Leased(deliveries[d], token, tx[p].until[d])
              /\ LeaseColumns(deliveries'[d])
<1>1. Types /\ ClaimerOK(p) /\ p \in Sessions /\ tx[p] \in Calls
  BY SessionRoles DEF IInv, CallsOK, Types
<1>2. \A d \in tx[p].ids : d \in DOMAIN deliveries /\ tx[p].until[d] \in Nat \ {0}
  BY <1>1, UntilTypes DEF ClaimerOK, Calls
<1>3. deliveries \in [DOMAIN deliveries -> Delivery]
  BY <1>1 DEF Types
<1>4. \A d \in tx[p].ids : /\ Leased(deliveries[d], token, tx[p].until[d]) \in Delivery
                           /\ LeaseColumns(Leased(deliveries[d], token, tx[p].until[d]))
  <2> SUFFICES ASSUME NEW d \in tx[p].ids
               PROVE  /\ Leased(deliveries[d], token, tx[p].until[d]) \in Delivery
                      /\ LeaseColumns(Leased(deliveries[d], token, tx[p].until[d]))
    OBVIOUS
  <2>1. deliveries[d] \in Delivery /\ tx[p].until[d] \in Nat \ {0} /\ 0 \in Nat
    BY <1>2, <1>3
  <2> QED BY <2>1, RowTypes, WrittenColumns
<1>5. deliveries' = [d \in DOMAIN deliveries |->
                       IF d \in tx[p].ids THEN Leased(deliveries[d], token, tx[p].until[d])
                                          ELSE deliveries[d]]
  BY DEF Updated
<1> QED BY <1>2, <1>3, <1>4, <1>5, ZenonT(30)

LEMMA ClaimCommitKeeps ==
  ASSUME IInv, NEW p \in Claimers, ClaimCommit(p)
  PROVE  IInv'
<1>1. /\ p \in Sessions /\ tx' = [tx EXCEPT ![p] = Idle] /\ tx[p].pc = "commit"
      /\ Types /\ IDsHandedOut /\ Locks /\ CallsOK
  BY SessionRoles DEF ClaimCommit, IInv
<1>2. UNCHANGED <<dialect, now, topics, channels, messages>>
  BY DEF ClaimCommit
<1>3. CASE tx[p].ids = {}
  BY <1>1, <1>2, <1>3, CallEnds DEF ClaimCommit
<1>4. CASE tx[p].ids # {}
  <2> DEFINE token  == lastID.lease + 1
             New(d) == Leased(deliveries[d], token, tx[p].until[d])
             alive  == {d \in Joined(tx[p].ids) : New(d).status = "in_flight"}
  <2>1. /\ lastID' = [lastID EXCEPT !.lease = token]
        /\ deliveries' = Updated(tx[p].ids, New)
        /\ issued' = issued \cup (alive \X {token})
    BY <1>4 DEF ClaimCommit
  <2>2. token \in Nat \ {0} /\ lastID.lease <= token
    BY <1>1 DEF Types
  <2>3. alive \subseteq DOMAIN deliveries
    BY DEF Joined
  <2>4. lastID \in [topic : 0..MaxTopicID, channel : 0..MaxChannelID,
                    message : 0..MaxMessageID, lease : Nat]
    BY <1>1 DEF Types
  <2> HIDE DEF token, alive
  <2>5. /\ lastID' \in [topic : 0..MaxTopicID, channel : 0..MaxChannelID,
                        message : 0..MaxMessageID, lease : Nat]
        /\ lastID'.channel = lastID.channel /\ lastID'.message = lastID.message
        /\ lastID'.lease = token /\ lastID'.lease >= lastID.lease
    BY <2>1, <2>2, <2>4
  <2>6. issued' \subseteq DeliveryIDs \X (Nat \ {0})
    BY <1>1, <2>1, <2>2, <2>3 DEF Types
  <2>7. \A i \in issued' : i \in issued \/ i[2] <= lastID'.lease
    BY <2>1, <2>2, <2>5
  <2>8. /\ DOMAIN deliveries' = DOMAIN deliveries
        /\ deliveries' \in [DOMAIN deliveries' -> Delivery]
        /\ \A d \in DOMAIN deliveries \ tx[p].ids : deliveries'[d] = deliveries[d]
        /\ \A d \in tx[p].ids : LeaseColumns(deliveries'[d])
    BY <1>1, <2>1, <2>2, ClaimRows
  <2>9. \A u \in (Claimers \cup Admins) \ {p} : \A d \in tx[u].ids :
          d \in DOMAIN deliveries /\ d \notin tx[p].ids
    BY <1>1 DEF Locks, CallsOK, ClaimerOK, AdminOK
  <2>10. /\ RoleOK(p)' /\ Unlocked(p)
         /\ \A u \in Sessions \ {p} : tx'[u] = tx[u]
         /\ tx' \in [Sessions -> Calls]
    BY <1>1, LastStatement
  <2> QED BY <1>1, <1>2, <2>5, <2>6, <2>7, <2>8, <2>9, <2>10, CallStatement
<1> QED BY <1>3, <1>4

(* New topics and channels disturb no call. *)
LEMMA GrowthUndisturbs ==
  ASSUME IInv, UNCHANGED <<messages, deliveries>>, DOMAIN topics \subseteq DOMAIN topics',
         \A c \in DOMAIN channels : c \in DOMAIN channels' /\ channels'[c] = channels[c],
         \A c \in DOMAIN channels' \ DOMAIN channels : c > lastID.channel
  PROVE  \A s \in Sessions : Undisturbed(s)
<1> SUFFICES ASSUME NEW s \in Sessions PROVE Undisturbed(s)
  OBVIOUS
<1>1. /\ s \in Publishers => PublisherOK(s)
      /\ s \in Claimers => ClaimerOK(s)
      /\ s \in Admins => AdminOK(s)
      /\ Types /\ tx[s] \in Calls
  BY DEF IInv, CallsOK, Types
<1>2. s \in Claimers \cup Admins => tx[s].ids \subseteq DOMAIN deliveries
  BY <1>1 DEF ClaimerOK, AdminOK
<1>3. s \in Admins => tx[s].msgs \subseteq DOMAIN messages
  BY <1>1 DEF AdminOK, MessagesOf
<1>4. s \in Publishers => \A c \in tx[s].chans \cap DOMAIN channels' : c \in DOMAIN channels
  <2> SUFFICES ASSUME s \in Publishers, NEW c \in tx[s].chans, c \in DOMAIN channels'
               PROVE  c \in DOMAIN channels
    OBVIOUS
  <2>1. c \in Nat /\ c <= lastID.channel /\ lastID.channel \in Nat
    BY <1>1, RowLockStoreAssumption DEF PublisherOK, Calls, Types, ChannelIDs
  <2> QED BY <2>1
<1> QED BY <1>1, <1>2, <1>3, <1>4 DEF Undisturbed, PublisherOK

(* Steps that no call takes. *)
LEMMA NoCallMoves ==
  ASSUME IInv, Types', tx' = tx, \A s \in Sessions : Undisturbed(s),
         lastID'.message >= lastID.message, lastID'.channel >= lastID.channel,
         DOMAIN deliveries' \subseteq DOMAIN deliveries
  PROVE  CallsOK' /\ Locks'
<1>1. /\ {} \in SUBSET Sessions /\ \A s, u \in {} : s = u
      /\ \A s \in {} : RoleOK(s)' /\ Unlocked(s)
  OBVIOUS
<1> QED BY <1>1, OthersKept

(* The last statement of a call that writes more than deliveries. *)
LEMMA CallCommits ==
  ASSUME IInv, Types', NEW s \in Sessions, tx' = [tx EXCEPT ![s] = Idle],
         \A u \in Sessions \ {s} : Undisturbed(u),
         lastID' = lastID,
         \A d \in DOMAIN deliveries' \ DOMAIN deliveries :
           MessageOf(d) \in OpenMessages /\ ChannelOf(d) \notin LockedChannels
  PROVE  CallsOK' /\ Locks'
<1>1. {s} \in SUBSET Sessions /\ \A u, v \in {s} : u = v
  OBVIOUS
<1>2. \A u \in {s} : RoleOK(u)' /\ Unlocked(u)
  BY LastStatement
<1>3. \A u \in Sessions \ {s} : tx'[u] = tx[u]
  BY LastStatement
<1>4. lastID.message \in Nat /\ lastID.channel \in Nat
  BY RowLockStoreAssumption DEF IInv, Types
<1>5. lastID'.message >= lastID.message /\ lastID'.channel >= lastID.channel
  BY <1>4
<1> QED BY <1>1, <1>2, <1>3, <1>5, OthersKept

LEMMA TickKeeps ==
  ASSUME IInv, Tick
  PROVE  IInv'
<1>1. /\ Types /\ UNCHANGED <<dialect, topics, channels, messages, deliveries, lastID, tx, issued>>
      /\ now' = now + 1
  BY DEF IInv, Tick
<1>2. Types'
  BY <1>1 DEF Types
<1>3. lastID.message \in Nat /\ lastID.channel \in Nat
  BY <1>1, RowLockStoreAssumption DEF Types
<1>4. \A s \in Sessions : Undisturbed(s)
  BY <1>1, GrowthUndisturbs
<1>5. CallsOK' /\ Locks'
  BY <1>1, <1>2, <1>3, <1>4, NoCallMoves
<1>6. IDsHandedOut' /\ RowsLeased' /\ Integrity'
  BY <1>1 DEF IInv, IDsHandedOut, RowsLeased, Integrity
<1> QED BY <1>2, <1>5, <1>6 DEF IInv

LEMMA EnsureTopicKeeps ==
  ASSUME IInv, NEW name \in TopicNames, EnsureTopic(name)
  PROVE  IInv'
<1> DEFINE id == lastID.topic + 1
<1>1. /\ Types /\ lastID.topic < MaxTopicID
      /\ UNCHANGED <<dialect, now, channels, messages, deliveries, tx, issued>>
      /\ lastID' = [lastID EXCEPT !.topic = id]
      /\ topics' = [t \in DOMAIN topics \cup {id} |-> IF t = id THEN name ELSE topics[t]]
  BY DEF IInv, EnsureTopic
<1>2. id \in TopicIDs /\ id \in 0..MaxTopicID
  BY <1>1, RowLockStoreAssumption DEF Types, TopicIDs
<1> HIDE DEF id
<1>3. /\ lastID' \in [topic : 0..MaxTopicID, channel : 0..MaxChannelID,
                      message : 0..MaxMessageID, lease : Nat]
      /\ lastID'.channel = lastID.channel /\ lastID'.message = lastID.message
      /\ lastID'.lease = lastID.lease
  BY <1>1, <1>2 DEF Types
<1>4. DOMAIN topics' = DOMAIN topics \cup {id} /\ topics' \in [DOMAIN topics' -> TopicNames]
  BY <1>1 DEF Types
<1>5. Types'
  BY <1>1, <1>2, <1>3, <1>4 DEF Types
<1>6. lastID.message \in Nat /\ lastID.channel \in Nat
  BY <1>1, RowLockStoreAssumption DEF Types
<1>7. \A s \in Sessions : Undisturbed(s)
  BY <1>1, <1>4, GrowthUndisturbs
<1>8. CallsOK' /\ Locks'
  BY <1>1, <1>3, <1>5, <1>6, <1>7, NoCallMoves
<1>9. IDsHandedOut' /\ RowsLeased' /\ Integrity'
  BY <1>1, <1>3, <1>4 DEF IInv, IDsHandedOut, RowsLeased, Integrity
<1> QED BY <1>5, <1>8, <1>9 DEF IInv

LEMMA EnsureChannelKeeps ==
  ASSUME IInv, NEW t \in TopicIDs, NEW name \in ChannelNames, EnsureChannel(t, name)
  PROVE  IInv'
<1> DEFINE id == lastID.channel + 1
           row == [topic_id |-> t, name |-> name]
<1>1. /\ Types /\ lastID.channel < MaxChannelID /\ t \in DOMAIN topics
      /\ UNCHANGED <<dialect, now, topics, messages, deliveries, tx, issued>>
      /\ lastID' = [lastID EXCEPT !.channel = id]
      /\ channels' = [c \in DOMAIN channels \cup {id} |-> IF c = id THEN row ELSE channels[c]]
  BY DEF IInv, EnsureChannel
<1>2. /\ id \in ChannelIDs /\ id \in 0..MaxChannelID /\ id > lastID.channel
      /\ lastID.message \in Nat /\ lastID.channel \in Nat
  BY <1>1, RowLockStoreAssumption DEF Types, ChannelIDs
<1>3. row \in [topic_id : TopicIDs, name : ChannelNames] /\ row.topic_id = t
  OBVIOUS
<1> HIDE DEF id, row
<1>4. /\ lastID' \in [topic : 0..MaxTopicID, channel : 0..MaxChannelID,
                      message : 0..MaxMessageID, lease : Nat]
      /\ lastID'.channel = id /\ lastID'.message = lastID.message
      /\ lastID'.lease = lastID.lease
  BY <1>1, <1>2 DEF Types
<1>5. \A c \in DOMAIN channels : c \in Nat /\ c <= lastID.channel
  BY <1>1, RowLockStoreAssumption DEF Types, ChannelIDs, IInv, IDsHandedOut
<1>6. id \notin DOMAIN channels
  BY <1>2, <1>5
<1>7. /\ DOMAIN channels' = DOMAIN channels \cup {id}
      /\ channels' \in [DOMAIN channels' -> [topic_id : TopicIDs, name : ChannelNames]]
      /\ \A c \in DOMAIN channels : channels'[c] = channels[c]
      /\ channels'[id] = row
  BY <1>1, <1>3, <1>6 DEF Types
<1>8. Types'
  BY <1>1, <1>2, <1>4, <1>7 DEF Types
<1>9. \A s \in Sessions : Undisturbed(s)
  BY <1>1, <1>2, <1>7, GrowthUndisturbs
<1>10. CallsOK' /\ Locks'
  BY <1>1, <1>2, <1>4, <1>8, <1>9, NoCallMoves
<1>11. IDsHandedOut'
  <2>1. \A c \in DOMAIN channels' : c <= id
    BY <1>2, <1>5, <1>7
  <2> QED BY <1>1, <1>4, <2>1 DEF IInv, IDsHandedOut
<1>12. RowsLeased' /\ Integrity'
  BY <1>1, <1>3, <1>7 DEF IInv, RowsLeased, Integrity
<1> QED BY <1>8, <1>10, <1>11, <1>12 DEF IInv

LEMMA PublishMessageKeeps ==
  ASSUME IInv, NEW p \in Publishers, NEW t, NEW opts \in Opts, PublishMessage(p, t, opts)
  PROVE  IInv'
<1> DEFINE id == lastID.message + 1
           row == NewRow(AvailableAt(opts, now), ExpiresAt(opts, now), MaxAttemptsOf(opts))
           x == [Idle EXCEPT !.pc = "fanout", !.on = t, !.msgs = {id}, !.row = row]
<1>1. /\ Types /\ p \in Sessions /\ lastID.message < MaxMessageID
      /\ UNCHANGED <<dialect, now, topics, channels, messages, deliveries, issued>>
      /\ lastID' = [lastID EXCEPT !.message = id]
      /\ tx' = IF t \notin DOMAIN topics THEN tx ELSE [tx EXCEPT ![p] = x]
  BY SessionRoles DEF IInv, PublishMessage
<1>2. /\ id \in MessageIDs /\ id \in 0..MaxMessageID /\ id > lastID.message
      /\ lastID.message \in Nat /\ lastID.channel \in Nat
  BY <1>1, RowLockStoreAssumption DEF Types, MessageIDs
<1>3. row \in Delivery /\ \E a, e \in Nat, b \in Budgets : row = NewRow(a, e, b)
  <2>1. /\ AvailableAt(opts, now) \in Nat /\ ExpiresAt(opts, now) \in Nat
        /\ MaxAttemptsOf(opts) \in Nat \ {0}
    BY <1>1, PublishTimes, RowLockStoreAssumption DEF Types
  <2>2. MaxAttemptsOf(opts) \in Budgets
    BY DEF Budgets
  <2>3. row \in Delivery
    BY <2>1 DEF NewRow, Delivery, Status, NULL
  <2> QED BY <2>1, <2>2, <2>3
<1> HIDE DEF id, row
<1>4. /\ lastID' \in [topic : 0..MaxTopicID, channel : 0..MaxChannelID,
                      message : 0..MaxMessageID, lease : Nat]
      /\ lastID'.channel = lastID.channel /\ lastID'.message = id
      /\ lastID'.lease = lastID.lease
  BY <1>1, <1>2 DEF Types
<1>5. \A m \in DOMAIN messages : m \in Nat /\ m <= lastID.message
  BY <1>1, RowLockStoreAssumption DEF Types, MessageIDs, IInv, IDsHandedOut
<1>6. IDsHandedOut'
  <2>1. \A m \in DOMAIN messages : m <= id
    BY <1>2, <1>5
  <2> QED BY <1>1, <1>4, <2>1 DEF IInv, IDsHandedOut
<1>7. RowsLeased' /\ Integrity'
  BY <1>1 DEF IInv, RowsLeased, Integrity
<1>8. \A s \in Sessions : Undisturbed(s)
  BY <1>1, GrowthUndisturbs
<1>9. CASE t \notin DOMAIN topics
  <2>1. tx' = tx
    BY <1>1, <1>9
  <2>2. Types'
    BY <1>1, <1>4, <2>1 DEF Types
  <2>3. CallsOK' /\ Locks'
    BY <1>1, <1>2, <1>4, <1>8, <2>1, <2>2, NoCallMoves
  <2> QED BY <1>6, <1>7, <2>2, <2>3 DEF IInv
<1>10. CASE t \in DOMAIN topics
  <2>1. t \in Nat
    BY <1>1, <1>10, RowLockStoreAssumption DEF Types, TopicIDs
  <2>2. /\ x \in Calls /\ x.pc = "fanout" /\ x.on = t /\ x.msgs = {id} /\ x.row = row
        /\ x.ids = {} /\ x.chans = {}
    BY <1>2, <1>3, <2>1, IdleCall DEF Calls, PublisherPCs
  <2> HIDE DEF x
  <2>3. tx' = [tx EXCEPT ![p] = x]
    BY <1>1, <1>10
  <2>4. /\ tx'[p] = x /\ \A s \in Sessions \ {p} : tx'[s] = tx[s]
        /\ tx' \in [Sessions -> Calls]
    BY <1>1, <2>2, <2>3 DEF Types
  <2>5. Types'
    BY <1>1, <1>4, <2>4 DEF Types
  <2>6. id \notin DOMAIN messages /\ id <= id
    BY <1>2, <1>5
  <2>7. PublisherOK(p)'
    BY <1>1, <1>3, <1>4, <1>10, <2>2, <2>4, <2>6
    DEF PublisherOK, PublisherPCs, Budgets, NewRow
  <2>8. \A s \in {p} : RoleOK(s)' /\ Unlocked(s)
    BY <1>2, <2>2, <2>4, <2>7, SessionRoles DEF RoleOK, Unlocked
  <2>9. {p} \in SUBSET Sessions /\ \A s, u \in {p} : s = u
    BY <1>1
  <2>10. lastID'.message >= lastID.message /\ lastID'.channel >= lastID.channel
    BY <1>2, <1>4 DEF MessageIDs
  <2>11. DOMAIN deliveries' \ DOMAIN deliveries = {}
    BY <1>1
  <2>12. CallsOK' /\ Locks'
    BY <1>8, <2>4, <2>5, <2>8, <2>9, <2>10, <2>11, OthersKept
  <2> QED BY <1>6, <1>7, <2>5, <2>12 DEF IInv
<1> QED BY <1>9, <1>10

(* The commit of a publish: its parents are still there. *)
LEMMA PublishCommitRows ==
  ASSUME IInv, NEW p \in Publishers, PublishCommit(p)
  PROVE  LET new == tx[p].msgs \X tx[p].chans IN
         /\ new \cap DOMAIN deliveries = {}
         /\ new \subseteq DeliveryIDs
         /\ DOMAIN deliveries' = DOMAIN deliveries \cup new
         /\ deliveries' \in [DOMAIN deliveries' -> Delivery]
         /\ \A d \in DOMAIN deliveries : deliveries'[d] = deliveries[d]
         /\ \A d \in new : deliveries'[d] = tx[p].row
         /\ tx[p].msgs \cap DOMAIN messages = {}
         /\ DOMAIN messages' = DOMAIN messages \cup tx[p].msgs
         /\ messages' \in [DOMAIN messages' -> [topic_id : TopicIDs, expires_at : Nat]]
         /\ \A m \in DOMAIN messages : messages'[m] = messages[m]
         /\ \A m \in tx[p].msgs : messages'[m].topic_id = tx[p].on
         /\ LeaseColumns(tx[p].row)
<1> DEFINE new == tx[p].msgs \X tx[p].chans
           msg == [topic_id |-> tx[p].on, expires_at |-> tx[p].row.expires_at]
<1>1. /\ p \in Sessions /\ Types /\ tx[p] \in Calls /\ PublisherOK(p) /\ Integrity
      /\ tx[p].pc = "commit"
      /\ messages' = [m \in DOMAIN messages \cup tx[p].msgs |->
                        IF m \in tx[p].msgs THEN msg ELSE messages[m]]
      /\ deliveries' = [d \in DOMAIN deliveries \cup new |->
                          IF d \in new THEN tx[p].row ELSE deliveries[d]]
  BY SessionRoles DEF PublishCommit, IInv, Types, CallsOK
<1>2. /\ tx[p].msgs \cap DOMAIN messages = {} /\ tx[p].on \in TopicIDs
      /\ tx[p].row \in Delivery
  BY <1>1 DEF PublisherOK, Types, Calls
<1>3. new \subseteq DeliveryIDs
  BY <1>1 DEF Calls, DeliveryIDs
<1>4. \A d \in new : MessageOf(d) \in tx[p].msgs
  BY DEF MessageOf
<1>5. new \cap DOMAIN deliveries = {}
  BY <1>1, <1>2, <1>4 DEF Integrity
<1>6. msg \in [topic_id : TopicIDs, expires_at : Nat] /\ msg.topic_id = tx[p].on
  BY <1>2 DEF Delivery
<1>7. LeaseColumns(tx[p].row)
  <2>1. PICK a, e \in Nat, b \in Budgets : tx[p].row = NewRow(a, e, b)
    BY <1>1 DEF PublisherOK
  <2>2. NewRow(a, e, b).status = "pending" /\ NewRow(a, e, b).lease_token = NULL
        /\ NewRow(a, e, b).lease_until = NULL
    BY DEF NewRow
  <2> QED BY <2>1, <2>2 DEF LeaseColumns
<1>8. /\ messages \in [DOMAIN messages -> [topic_id : TopicIDs, expires_at : Nat]]
      /\ deliveries \in [DOMAIN deliveries -> Delivery]
  BY <1>1 DEF Types
<1> HIDE DEF new, msg
<1>9. /\ DOMAIN deliveries' = DOMAIN deliveries \cup new
      /\ deliveries' \in [DOMAIN deliveries' -> Delivery]
      /\ \A d \in DOMAIN deliveries : deliveries'[d] = deliveries[d]
      /\ \A d \in new : deliveries'[d] = tx[p].row
  BY <1>1, <1>2, <1>5, <1>8
<1>10. /\ DOMAIN messages' = DOMAIN messages \cup tx[p].msgs
       /\ messages' \in [DOMAIN messages' -> [topic_id : TopicIDs, expires_at : Nat]]
       /\ \A m \in DOMAIN messages : messages'[m] = messages[m]
       /\ \A m \in tx[p].msgs : messages'[m] = msg
  BY <1>1, <1>2, <1>6, <1>8
<1> QED BY <1>2, <1>3, <1>5, <1>6, <1>7, <1>9, <1>10 DEF new

LEMMA PublishCommitKeeps ==
  ASSUME IInv, NEW p \in Publishers, PublishCommit(p)
  PROVE  IInv'
<1> DEFINE new == tx[p].msgs \X tx[p].chans
<1>1. /\ p \in Sessions /\ Types /\ tx[p] \in Calls /\ PublisherOK(p) /\ tx[p].pc = "commit"
      /\ UNCHANGED <<dialect, now, topics, channels, lastID, issued>>
      /\ tx' = [tx EXCEPT ![p] = Idle]
      /\ CallsOK /\ Locks /\ Integrity
  BY SessionRoles DEF PublishCommit, IInv, Types, CallsOK
<1>2. /\ new \cap DOMAIN deliveries = {} /\ new \subseteq DeliveryIDs
      /\ DOMAIN deliveries' = DOMAIN deliveries \cup new
      /\ deliveries' \in [DOMAIN deliveries' -> Delivery]
      /\ \A d \in DOMAIN deliveries : deliveries'[d] = deliveries[d]
      /\ \A d \in new : deliveries'[d] = tx[p].row
      /\ tx[p].msgs \cap DOMAIN messages = {}
      /\ DOMAIN messages' = DOMAIN messages \cup tx[p].msgs
      /\ messages' \in [DOMAIN messages' -> [topic_id : TopicIDs, expires_at : Nat]]
      /\ \A m \in DOMAIN messages : messages'[m] = messages[m]
      /\ \A m \in tx[p].msgs : messages'[m].topic_id = tx[p].on
      /\ LeaseColumns(tx[p].row)
  BY PublishCommitRows
<1>3. \A d \in new : MessageOf(d) \in tx[p].msgs /\ ChannelOf(d) \in tx[p].chans
  BY DEF MessageOf, ChannelOf
<1> HIDE DEF new
<1>4. tx' \in [Sessions -> Calls]
  BY <1>1, LastStatement
<1>5. Types'
  BY <1>1, <1>2, <1>4 DEF Types, Calls
<1>6. \A s \in Sessions \ {p} : Undisturbed(s)
  <2> SUFFICES ASSUME NEW s \in Sessions \ {p} PROVE Undisturbed(s)
    OBVIOUS
  <2>1. s \in Claimers \cup Admins => tx[s].ids \subseteq DOMAIN deliveries
    BY <1>1 DEF CallsOK, ClaimerOK, AdminOK
  <2>2. s \in Admins => tx[s].msgs \subseteq DOMAIN messages
    BY <1>1 DEF CallsOK, AdminOK, MessagesOf
  <2>3. s \in Publishers => PublisherOK(s) /\ tx[s].msgs \cap tx[p].msgs = {}
    BY <1>1 DEF CallsOK, Locks
  <2> QED BY <1>1, <1>2, <2>1, <2>2, <2>3 DEF Undisturbed, PublisherOK
<1>7. \A d \in DOMAIN deliveries' \ DOMAIN deliveries :
        MessageOf(d) \in OpenMessages /\ ChannelOf(d) \notin LockedChannels
  BY <1>1, <1>2, <1>3 DEF OpenMessages, LockedChannels, Locks
<1>8. CallsOK' /\ Locks'
  BY <1>1, <1>5, <1>6, <1>7, CallCommits
<1>9. IDsHandedOut'
  BY <1>1, <1>2 DEF IInv, IDsHandedOut, PublisherOK
<1>10. RowsLeased'
  BY <1>2 DEF IInv, RowsLeased
<1>11. Integrity'
  <2>1. tx[p].on \in DOMAIN topics /\ \A c \in tx[p].chans : /\ c \in DOMAIN channels
                                                             /\ channels[c].topic_id = tx[p].on
    BY <1>1 DEF PublisherOK
  <2>2. \A m \in DOMAIN messages' : messages'[m].topic_id \in DOMAIN topics
    BY <1>1, <1>2, <2>1 DEF Integrity
  <2>3. \A d \in DOMAIN deliveries' :
          /\ MessageOf(d) \in DOMAIN messages'
          /\ ChannelOf(d) \in DOMAIN channels
          /\ channels[ChannelOf(d)].topic_id = messages'[MessageOf(d)].topic_id
    <3> SUFFICES ASSUME NEW d \in DOMAIN deliveries'
                 PROVE  /\ MessageOf(d) \in DOMAIN messages'
                        /\ ChannelOf(d) \in DOMAIN channels
                        /\ channels[ChannelOf(d)].topic_id = messages'[MessageOf(d)].topic_id
      OBVIOUS
    <3>1. CASE d \in new
      BY <1>2, <1>3, <2>1, <3>1
    <3>2. CASE d \in DOMAIN deliveries
      BY <1>1, <1>2, <3>2 DEF Integrity
    <3> QED BY <1>2, <3>1, <3>2
  <2> QED BY <1>1, <2>2, <2>3 DEF Integrity
<1> QED BY <1>5, <1>8, <1>9, <1>10, <1>11 DEF IInv

(* The purge of messages takes no row that another call holds. *)
LEMMA DeleteMessagesKeeps ==
  ASSUME IInv, NEW q \in Maintainers, NEW ms, DeleteMessages(q, ms)
  PROVE  IInv'
<1> DEFINE ids == Cascaded(ms)
<1>1. /\ q \in Sessions /\ Types /\ CallsOK /\ Integrity
      /\ UNCHANGED <<dialect, now, topics, channels, lastID, issued>>
      /\ tx' = [tx EXCEPT ![q] = Idle]
      /\ ms \cap LockedMessages = {} /\ ids \cap LockedDeliveries = {}
      /\ messages' = Without(messages, ms) /\ deliveries' = Without(deliveries, ids)
  BY SessionRoles DEF DeleteMessages, IInv, Free
<1>2. \A d \in DOMAIN deliveries \ ids : MessageOf(d) \notin ms
  BY DEF Cascaded
<1> HIDE DEF ids
<1>3. /\ DOMAIN deliveries' = DOMAIN deliveries \ ids
      /\ deliveries' \in [DOMAIN deliveries' -> Delivery]
      /\ \A d \in DOMAIN deliveries' : deliveries'[d] = deliveries[d]
  BY <1>1 DEF Without, Types
<1>4. /\ DOMAIN messages' = DOMAIN messages \ ms
      /\ messages' \in [DOMAIN messages' -> [topic_id : TopicIDs, expires_at : Nat]]
      /\ \A m \in DOMAIN messages' : messages'[m] = messages[m]
  BY <1>1 DEF Without, Types
<1>5. tx' \in [Sessions -> Calls]
  BY <1>1, LastStatement
<1>6. Types'
  BY <1>1, <1>3, <1>4, <1>5 DEF Types
<1>7. \A s \in Sessions \ {q} : Undisturbed(s)
  <2> SUFFICES ASSUME NEW s \in Sessions \ {q} PROVE Undisturbed(s)
    OBVIOUS
  <2>1. s \in Claimers \cup Admins => \A d \in tx[s].ids : d \in DOMAIN deliveries /\ d \notin ids
    BY <1>1 DEF CallsOK, ClaimerOK, AdminOK, LockedDeliveries
  <2>2. s \in Admins => \A m \in tx[s].msgs : m \in DOMAIN messages /\ m \notin ms
    BY <1>1 DEF CallsOK, AdminOK, MessagesOf, LockedMessages
  <2>3. s \in Publishers => PublisherOK(s)
    BY <1>1 DEF CallsOK
  <2> QED BY <1>1, <1>3, <1>4, <2>1, <2>2, <2>3 DEF Undisturbed, PublisherOK
<1>8. CallsOK' /\ Locks'
  BY <1>1, <1>3, <1>6, <1>7, CallCommits
<1>9. IDsHandedOut'
  BY <1>1, <1>4 DEF IInv, IDsHandedOut
<1>10. RowsLeased'
  BY <1>3 DEF IInv, RowsLeased
<1>11. Integrity'
  BY <1>1, <1>2, <1>3, <1>4 DEF Integrity
<1> QED BY <1>6, <1>8, <1>9, <1>10, <1>11 DEF IInv

LEMMA RequeueDeadMessageKeeps ==
  ASSUME IInv, NEW a \in Admins, RequeueDeadMessage(a)
  PROVE  IInv'
<1>1. PICK d \in tx[a].ids :
        /\ deliveries' = [deliveries EXCEPT ![d] = tx[a].row]
        /\ messages' = [messages EXCEPT ![MessageOf(d)].expires_at = now + FreshTTLSec]
  BY DEF RequeueDeadMessage
<1>2. /\ a \in Sessions /\ Types /\ CallsOK /\ Integrity /\ Locks
      /\ AdminOK(a) /\ tx[a] \in Calls /\ tx[a].pc = "message"
      /\ UNCHANGED <<dialect, now, topics, channels, lastID, issued>>
      /\ tx' = [tx EXCEPT ![a] = Idle]
  BY SessionRoles DEF RequeueDeadMessage, IInv, CallsOK, Types
<1>3. d \in DOMAIN deliveries /\ tx[a].row \in Delivery /\ deliveries[d] \in Delivery
  BY <1>2 DEF AdminOK, Types, Calls
<1>4. LeaseColumns(tx[a].row)
  <2>1. PICK t \in Nat : tx[a].row = Revived(deliveries[d], t, FreshTTLSec)
    BY <1>2 DEF AdminOK
  <2>2. /\ Revived(deliveries[d], t, FreshTTLSec).status = "pending"
        /\ Revived(deliveries[d], t, FreshTTLSec).lease_token = NULL
        /\ Revived(deliveries[d], t, FreshTTLSec).lease_until = NULL
    BY <1>3 DEF Revived, Delivery
  <2> QED BY <2>1, <2>2 DEF LeaseColumns
<1>5. /\ DOMAIN deliveries' = DOMAIN deliveries
      /\ deliveries' \in [DOMAIN deliveries' -> Delivery]
      /\ \A e \in DOMAIN deliveries \ {d} : deliveries'[e] = deliveries[e]
      /\ deliveries'[d] = tx[a].row
  BY <1>1, <1>2, <1>3 DEF Types
<1> DEFINE expiry == now + FreshTTLSec
<1>6. MessageOf(d) \in DOMAIN messages /\ expiry \in Nat
  BY <1>2, <1>3, RowLockStoreAssumption DEF Integrity, Types
<1>7. messages' = [messages EXCEPT ![MessageOf(d)].expires_at = expiry]
  BY <1>1
<1> HIDE DEF expiry
<1>8. /\ DOMAIN messages' = DOMAIN messages
      /\ messages' \in [DOMAIN messages' -> [topic_id : TopicIDs, expires_at : Nat]]
      /\ \A m \in DOMAIN messages' : messages'[m].topic_id = messages[m].topic_id
  BY <1>2, <1>6, <1>7 DEF Types
<1>9. tx' \in [Sessions -> Calls]
  BY <1>2, LastStatement
<1>10. Types'
  BY <1>2, <1>5, <1>8, <1>9 DEF Types
<1>11. \A s \in Sessions \ {a} : Undisturbed(s)
  <2> SUFFICES ASSUME NEW s \in Sessions \ {a} PROVE Undisturbed(s)
    OBVIOUS
  <2>1. s \in Claimers \cup Admins => \A e \in tx[s].ids : e \in DOMAIN deliveries /\ e # d
    BY <1>2 DEF CallsOK, ClaimerOK, AdminOK, Locks
  <2>2. s \in Admins => tx[s].msgs \subseteq DOMAIN messages
    BY <1>2 DEF CallsOK, AdminOK, MessagesOf
  <2>3. s \in Publishers => PublisherOK(s)
    BY <1>2 DEF CallsOK
  <2> QED BY <1>2, <1>5, <1>8, <2>1, <2>2, <2>3 DEF Undisturbed, PublisherOK
<1>12. CallsOK' /\ Locks'
  BY <1>2, <1>5, <1>10, <1>11, CallCommits
<1>13. IDsHandedOut'
  BY <1>2, <1>8 DEF IInv, IDsHandedOut
<1>14. RowsLeased'
  BY <1>4, <1>5 DEF IInv, RowsLeased
<1>15. Integrity'
  BY <1>2, <1>5, <1>8 DEF Integrity
<1> QED BY <1>10, <1>12, <1>13, <1>14, <1>15 DEF IInv

(* A topic goes with all its channels, messages and deliveries, and under  *)
(* no open publish.                                                        *)
LEMMA DeleteTopicRowKeeps ==
  ASSUME IInv, NEW a \in Admins, DeleteTopicRow(a)
  PROVE  IInv'
<1> DEFINE Alone == /\ NoOtherChildren(ChannelsOf(tx[a].on), tx[a].chans)
                    /\ NoOtherChildren(MessagesOf(tx[a].on), tx[a].msgs)
<1>1. /\ a \in Sessions /\ Types /\ CallsOK /\ Integrity /\ Locks
      /\ AdminOK(a) /\ tx[a] \in Calls /\ tx[a].pc = "topic"
      /\ UNCHANGED <<dialect, now, lastID, issued>>
      /\ tx' = [tx EXCEPT ![a] = Idle]
      /\ tx[a].on \notin SharedTopics
  BY SessionRoles DEF DeleteTopicRow, IInv, CallsOK, Types
<1>2. CASE ~Alone
  BY <1>1, <1>2, CallEnds DEF DeleteTopicRow, tables
<1>3. CASE Alone
  <2>1. /\ topics' = Without(topics, {tx[a].on})
        /\ channels' = Without(channels, tx[a].chans)
        /\ messages' = Without(messages, tx[a].msgs)
        /\ deliveries' = Without(deliveries, tx[a].ids)
    BY <1>3 DEF DeleteTopicRow
  <2>2. /\ \A c \in DOMAIN channels : channels[c].topic_id = tx[a].on => c \in tx[a].chans
        /\ \A m \in DOMAIN messages : messages[m].topic_id = tx[a].on => m \in tx[a].msgs
    BY <1>3 DEF NoOtherChildren, ChannelsOf, MessagesOf
  <2>3. \A d \in DOMAIN deliveries \ tx[a].ids :
          MessageOf(d) \notin tx[a].msgs /\ ChannelOf(d) \notin tx[a].chans
    BY <1>1 DEF AdminOK, Cascaded, DeliveriesOf
  <2> HIDE DEF Alone
  <2>4. /\ DOMAIN topics' = DOMAIN topics \ {tx[a].on}
        /\ topics' \in [DOMAIN topics' -> TopicNames]
    BY <1>1, <2>1 DEF Without, Types
  <2>5. /\ DOMAIN channels' = DOMAIN channels \ tx[a].chans
        /\ channels' \in [DOMAIN channels' -> [topic_id : TopicIDs, name : ChannelNames]]
        /\ \A c \in DOMAIN channels' : channels'[c] = channels[c]
    BY <1>1, <2>1 DEF Without, Types
  <2>6. /\ DOMAIN messages' = DOMAIN messages \ tx[a].msgs
        /\ messages' \in [DOMAIN messages' -> [topic_id : TopicIDs, expires_at : Nat]]
        /\ \A m \in DOMAIN messages' : messages'[m] = messages[m]
    BY <1>1, <2>1 DEF Without, Types
  <2>7. /\ DOMAIN deliveries' = DOMAIN deliveries \ tx[a].ids
        /\ deliveries' \in [DOMAIN deliveries' -> Delivery]
        /\ \A d \in DOMAIN deliveries' : deliveries'[d] = deliveries[d]
    BY <1>1, <2>1 DEF Without, Types
  <2>8. tx' \in [Sessions -> Calls]
    BY <1>1, LastStatement
  <2>9. Types'
    BY <1>1, <2>4, <2>5, <2>6, <2>7, <2>8 DEF Types
  <2>10. \A s \in Sessions \ {a} : Undisturbed(s)
    <3> SUFFICES ASSUME NEW s \in Sessions \ {a} PROVE Undisturbed(s)
      OBVIOUS
    <3>1. s \in Claimers \cup Admins => \A e \in tx[s].ids : e \in DOMAIN deliveries /\ e \notin tx[a].ids
      BY <1>1 DEF CallsOK, ClaimerOK, AdminOK, Locks
    <3>2. s \in Admins => \A m \in tx[s].msgs : m \in DOMAIN messages /\ m \notin tx[a].msgs
      BY <1>1 DEF CallsOK, AdminOK, MessagesOf, Locks
    <3>3. s \in Publishers => PublisherOK(s)
      BY <1>1 DEF CallsOK
    <3>4. s \in Publishers /\ tx[s].pc # "idle" => tx[s].on \in DOMAIN topics'
      <4> SUFFICES ASSUME s \in Publishers, tx[s].pc # "idle" PROVE tx[s].on # tx[a].on
        BY <2>4, <3>3 DEF PublisherOK
      <4>1. tx[s].on # 0
        BY <1>1, <3>3 DEF PublisherOK, Types, TopicIDs
      <4> QED BY <1>1, <4>1 DEF SharedTopics
    <3>5. s \in Publishers /\ tx[s].pc = "commit" => tx[s].chans \subseteq DOMAIN channels'
      BY <1>1, <2>5, <3>3 DEF PublisherOK, Locks
    <3> QED BY <2>5, <2>6, <2>7, <3>1, <3>2, <3>3, <3>4, <3>5 DEF Undisturbed, PublisherOK
  <2>11. CallsOK' /\ Locks'
    BY <1>1, <2>7, <2>9, <2>10, CallCommits
  <2>12. IDsHandedOut'
    BY <1>1, <2>5, <2>6 DEF IInv, IDsHandedOut
  <2>13. RowsLeased'
    BY <2>7 DEF IInv, RowsLeased
  <2>14. Integrity'
    BY <1>1, <2>2, <2>3, <2>4, <2>5, <2>6, <2>7 DEF Integrity
  <2> QED BY <2>9, <2>11, <2>12, <2>13, <2>14 DEF IInv
<1> QED BY <1>2, <1>3

LEMMA DeleteChannelRowKeeps ==
  ASSUME IInv, NEW a \in Admins, DeleteChannelRow(a)
  PROVE  IInv'
<1>1. /\ a \in Sessions /\ Types /\ CallsOK /\ Integrity /\ Locks
      /\ AdminOK(a) /\ tx[a] \in Calls /\ tx[a].pc = "channel"
      /\ UNCHANGED <<dialect, now, topics, messages, lastID, issued>>
      /\ tx' = [tx EXCEPT ![a] = Idle]
      /\ tx[a].on \notin SharedChannels
  BY SessionRoles DEF DeleteChannelRow, IInv, CallsOK, Types
<1>2. CASE ~NoOtherChildren(DeliveriesOf(tx[a].on), tx[a].ids)
  BY <1>1, <1>2, CallEnds DEF DeleteChannelRow
<1>3. CASE NoOtherChildren(DeliveriesOf(tx[a].on), tx[a].ids)
  <2>1. /\ channels' = Without(channels, {tx[a].on})
        /\ deliveries' = Without(deliveries, tx[a].ids)
    BY <1>3 DEF DeleteChannelRow
  <2>2. \A d \in DOMAIN deliveries \ tx[a].ids : ChannelOf(d) # tx[a].on
    BY <1>3 DEF NoOtherChildren, DeliveriesOf
  <2>3. /\ DOMAIN channels' = DOMAIN channels \ {tx[a].on}
        /\ channels' \in [DOMAIN channels' -> [topic_id : TopicIDs, name : ChannelNames]]
        /\ \A c \in DOMAIN channels' : channels'[c] = channels[c]
    BY <1>1, <2>1 DEF Without, Types
  <2>4. /\ DOMAIN deliveries' = DOMAIN deliveries \ tx[a].ids
        /\ deliveries' \in [DOMAIN deliveries' -> Delivery]
        /\ \A d \in DOMAIN deliveries' : deliveries'[d] = deliveries[d]
    BY <1>1, <2>1 DEF Without, Types
  <2>5. tx' \in [Sessions -> Calls]
    BY <1>1, LastStatement
  <2>6. Types'
    BY <1>1, <2>3, <2>4, <2>5 DEF Types
  <2>7. \A s \in Sessions \ {a} : Undisturbed(s)
    <3> SUFFICES ASSUME NEW s \in Sessions \ {a} PROVE Undisturbed(s)
      OBVIOUS
    <3>1. s \in Claimers \cup Admins => \A e \in tx[s].ids : e \in DOMAIN deliveries /\ e \notin tx[a].ids
      BY <1>1 DEF CallsOK, ClaimerOK, AdminOK, Locks
    <3>2. s \in Admins => tx[s].msgs \subseteq DOMAIN messages
      BY <1>1 DEF CallsOK, AdminOK, MessagesOf
    <3>3. s \in Publishers => PublisherOK(s)
      BY <1>1 DEF CallsOK
    <3>4. s \in Publishers /\ tx[s].pc = "commit" => tx[s].chans \subseteq DOMAIN channels'
      BY <1>1, <2>3, <3>3 DEF PublisherOK, SharedChannels
    <3> QED BY <1>1, <2>3, <2>4, <3>1, <3>2, <3>3, <3>4 DEF Undisturbed, PublisherOK
  <2>8. CallsOK' /\ Locks'
    BY <1>1, <2>4, <2>6, <2>7, CallCommits
  <2>9. IDsHandedOut'
    BY <1>1, <2>3 DEF IInv, IDsHandedOut
  <2>10. RowsLeased'
    BY <2>4 DEF IInv, RowsLeased
  <2>11. Integrity'
    BY <1>1, <2>2, <2>3, <2>4 DEF Integrity
  <2> QED BY <2>6, <2>8, <2>9, <2>10, <2>11 DEF IInv
<1> QED BY <1>2, <1>3

----------------------------------------------------------------------------
(* The invariant. *)

LEMMA InvariantStep ==
  ASSUME IInv, [Next]_vars
  PROVE  IInv'
<1>1. CASE UNCHANGED vars
  BY <1>1 DEF vars, IInv, Types, IDsHandedOut, RowsLeased, Integrity, CallsOK, Locks,
     PublisherOK, ClaimerOK, MaintainerOK, AdminOK, OpenMessages, Cascaded, MessagesOf,
     DeliveriesOf
<1>2. CASE Tick
  BY <1>2, TickKeeps
<1>3. CASE Topology
  BY <1>3, EnsureTopicKeeps, EnsureChannelKeeps DEF Topology
<1>4. ASSUME NEW p \in Publishers, Publishing(p) PROVE IInv'
  BY <1>4, PublishMessageKeeps, PublishFanoutKeeps, PublishInsertKeeps, PublishCommitKeeps
  DEF Publishing
<1>5. CASE Consuming
  BY <1>5, ClaimPollKeeps, ClaimLeaseKeeps, ClaimCommitKeeps, AckKeeps, RequeueKeeps
  DEF Consuming
<1>6. ASSUME NEW q \in Maintainers, OrphanPass(q) \/ OrphanDelete(q) PROVE IInv'
  BY <1>6, DeleteMessagesKeeps DEF OrphanPass, OrphanDelete
<1>7. CASE Maintenance
  BY <1>6, <1>7, ReapExpiredLeasesKeeps, ReapSelectKeeps, ReapUpdateKeeps, PurgeSelectKeeps,
     PurgeDeleteKeeps, OrphanSelectKeeps
  DEF Maintenance
<1>8. ASSUME NEW a \in Admins, Admin(a) PROVE IInv'
  BY <1>8, RequeueDeadKeeps, DeleteDeadKeeps, RequeueDeadMessageKeeps, DeleteTopicKeeps,
     DeleteTopicChannelsKeeps, DeleteTopicRowKeeps, DeleteChannelKeeps, DeleteChannelRowKeeps
  DEF Admin
<1>9. ASSUME NEW s \in Sessions, Abort(s) PROVE IInv'
  BY <1>9, CallEnds DEF Abort
<1> QED BY <1>1, <1>2, <1>3, <1>4, <1>5, <1>7, <1>8, <1>9 DEF Next

LEMMA InvariantInit ==
  ASSUME Init
  PROVE  IInv
<1>1. /\ DOMAIN topics = {} /\ DOMAIN channels = {} /\ DOMAIN messages = {}
      /\ DOMAIN deliveries = {} /\ issued = {} /\ \A s \in Sessions : tx[s] = Idle
  BY DEF Init
<1>2. Types
  <2>1. lastID \in [topic : 0..MaxTopicID, channel : 0..MaxChannelID,
                    message : 0..MaxMessageID, lease : Nat]
    BY RowLockStoreAssumption DEF Init
  <2>2. tx \in [Sessions -> Calls]
    BY IdleCall DEF Init
  <2> QED BY <1>1, <2>1, <2>2 DEF Types, Init
<1>3. IDsHandedOut /\ RowsLeased /\ Integrity
  BY <1>1 DEF IDsHandedOut, RowsLeased, Integrity
<1>4. \A s \in Sessions : /\ PublisherOK(s) /\ ClaimerOK(s) /\ MaintainerOK(s) /\ AdminOK(s)
  <2> SUFFICES ASSUME NEW s \in Sessions
               PROVE  PublisherOK(s) /\ ClaimerOK(s) /\ MaintainerOK(s) /\ AdminOK(s)
    OBVIOUS
  <2>1. tx[s] = Idle
    BY <1>1
  <2>2. PublisherOK(s) /\ ClaimerOK(s)
    BY <2>1, IdleCall DEF PublisherOK, PublisherPCs, ClaimerOK, ClaimerPCs
  <2>3. MaintainerOK(s) /\ AdminOK(s)
    BY <2>1, IdleCall DEF MaintainerOK, MaintainerPCs, AdminOK, AdminPCs, Cascaded
  <2> QED BY <2>2, <2>3
<1>5. CallsOK
  BY <1>4, SessionRoles DEF CallsOK
<1>6. Locks
  BY <1>1, IdleCall, SessionRoles DEF Locks
<1> QED BY <1>2, <1>3, <1>5, <1>6 DEF IInv

(* What the row locks, the lock waits and the foreign keys keep true       *)
(* between the statements of all open calls of both drivers.               *)
THEOREM CallsProtected == Spec => []IInv
<1>1. Init => IInv
  BY InvariantInit
<1>2. IInv /\ [Next]_vars => IInv'
  BY InvariantStep
<1> QED BY <1>1, <1>2, PTL DEF Spec

(* However publishes, topic cascades, channel cascades and purges overlap, *)
(* every delivery of the MySQL and PostgreSQL drivers has its message and  *)
(* its channel, both of one live topic.                                    *)
THEOREM RowsConsistent == Spec => []Integrity
<1>1. IInv => Integrity
  BY DEF IInv
<1> QED BY <1>1, CallsProtected, PTL

(* FOR UPDATE SKIP LOCKED: until its commit a claim of any size finds the  *)
(* rows it polled as the poll saw them, and no other claim has them.       *)
THEOREM PolledRowsHeld == Spec => []PolledStaysClaimable
<1>1. IInv => PolledStaysClaimable
  <2> SUFFICES ASSUME IInv, NEW p \in Claimers, NEW d \in tx[p].ids
               PROVE  /\ d \in Joined(tx[p].ids)
                      /\ deliveries[d].status = "pending"
                      /\ \A q \in Claimers \ {p} : d \notin tx[q].ids
    BY DEF PolledStaysClaimable
  <2>1. d \in DOMAIN deliveries /\ deliveries[d].status = "pending"
    BY DEF IInv, CallsOK, ClaimerOK
  <2>2. d \in Joined(tx[p].ids)
    BY <2>1 DEF IInv, Integrity, Joined
  <2>3. \A q \in Claimers \ {p} : d \notin tx[q].ids
    BY DEF IInv, Locks
  <2> QED BY <2>1, <2>2, <2>3
<1> QED BY <1>1, CallsProtected, PTL

----------------------------------------------------------------------------
(* What a step may do to a stored delivery. *)

(* The row stays, or its holder settled it, or it goes with its channel,   *)
(* or it was under no valid lease, and goes only when dead or expired.     *)
Accounted(d) ==
  \/ d \in DOMAIN deliveries' /\ deliveries'[d] = deliveries[d]
  \/ <<d, deliveries[d].lease_token>> \in settled'
  \/ ChannelOf(d) \notin DOMAIN channels'
  \/ /\ ~(deliveries[d].status = "in_flight" /\ deliveries[d].lease_until >= now)
     /\ \/ d \in DOMAIN deliveries'
        \/ deliveries[d].status = "dead"
        \/ deliveries[d].expires_at < now

LEMMA RowAccounted ==
  ASSUME IInv, [Next]_vars, NEW d \in DOMAIN deliveries
  PROVE  Accounted(d)
<1>0. /\ Types /\ CallsOK /\ Integrity /\ RowsLeased /\ now \in Nat
      /\ deliveries[d] \in Delivery /\ deliveries[d].lease_until \in Nat
      /\ deliveries[d].expires_at \in Nat
  BY DEF IInv, Types, Delivery
<1>a. ASSUME deliveries' = deliveries PROVE Accounted(d)
  BY <1>a DEF Accounted
<1>1. CASE UNCHANGED vars
  BY <1>1, <1>a DEF vars
<1>2. CASE Tick \/ Topology
  BY <1>2, <1>a DEF Tick, Topology, EnsureTopic, EnsureChannel
<1>3. ASSUME NEW p \in Publishers, Publishing(p) PROVE Accounted(d)
  <2>1. CASE PublishCommit(p)
    BY <2>1, PublishCommitRows DEF Accounted
  <2> QED BY <1>3, <1>a, <2>1 DEF Publishing, PublishMessage, PublishFanout, PublishInsert
<1>4. ASSUME NEW p \in Claimers, ClaimCommit(p) PROVE Accounted(d)
  <2>1. CASE tx[p].ids = {}
    BY <1>4, <1>a, <2>1 DEF ClaimCommit
  <2>2. CASE tx[p].ids # {}
    <3>1. /\ DOMAIN deliveries' = DOMAIN deliveries
          /\ \A e \in DOMAIN deliveries \ tx[p].ids : deliveries'[e] = deliveries[e]
      BY <1>4, <2>2 DEF ClaimCommit, Updated
    <3>2. d \in tx[p].ids => deliveries[d].status = "pending"
      BY <1>0 DEF CallsOK, ClaimerOK
    <3> QED BY <3>1, <3>2 DEF Accounted
  <2> QED BY <2>1, <2>2
<1>5. ASSUME NEW e, NEW k, Ack(e, k) PROVE Accounted(d)
  BY <1>5 DEF Ack, HoldsLease, Without, Accounted
<1>6. ASSUME NEW e, NEW k, NEW at, Requeue(e, k, at) PROVE Accounted(d)
  BY <1>6 DEF Requeue, HoldsLease, Accounted
<1>7. CASE Consuming
  BY <1>4, <1>5, <1>6, <1>7, <1>a DEF Consuming, ClaimPoll, ClaimLease
<1>8. ASSUME NEW ids, ids \subseteq LapsedLeases,
             deliveries' = Updated(ids, LAMBDA e : Released(deliveries[e], now))
      PROVE  Accounted(d)
  <2>1. /\ DOMAIN deliveries' = DOMAIN deliveries
        /\ \A e \in DOMAIN deliveries \ ids : deliveries'[e] = deliveries[e]
    BY <1>8 DEF Updated
  <2>2. d \in ids => ~(deliveries[d].lease_until >= now)
    BY <1>0, <1>8 DEF LapsedLeases, LeaseLapsed
  <2> QED BY <2>1, <2>2 DEF Accounted
<1>9. CASE ReapExpiredLeases
  <2>1. PICK ids \in Batches(LapsedLeases, ReapOrder, ReapLimit) :
          deliveries' = Updated(ids, LAMBDA e : Released(deliveries[e], now))
    BY <1>9 DEF ReapExpiredLeases
  <2>2. ids \subseteq LapsedLeases
    BY DEF Batches
  <2> QED BY <1>8, <2>1, <2>2
<1>10. ASSUME NEW q \in Maintainers, ReapUpdate(q) PROVE Accounted(d)
  <2>1. StillLapsed(tx[q].ids) \subseteq LapsedLeases
    BY DEF StillLapsed
  <2> QED BY <1>8, <1>10, <2>1 DEF ReapUpdate
<1>11. ASSUME NEW q \in Maintainers, PurgeDelete(q) PROVE Accounted(d)
  <2> DEFINE gone == StillDoomed(tx[q].ids)
  <2>1. /\ DOMAIN deliveries' = DOMAIN deliveries \ gone
        /\ \A e \in DOMAIN deliveries \ gone : deliveries'[e] = deliveries[e]
    BY <1>11 DEF PurgeDelete, Without
  <2>2. d \in gone => Purgeable(deliveries[d], now)
    BY DEF StillDoomed, Doomed
  <2>3. deliveries[d].status = "in_flight" => deliveries[d].lease_until # NULL
    BY <1>0 DEF RowsLeased, LeaseColumns
  <2> HIDE DEF gone
  <2> QED BY <1>0, <2>1, <2>2, <2>3 DEF Accounted, Purgeable
<1>12. ASSUME NEW q \in Maintainers, NEW ms, DeleteMessages(q, ms), Cascaded(ms) = {}
       PROVE  Accounted(d)
  BY <1>12 DEF DeleteMessages, Without, Accounted
<1>13. ASSUME NEW q \in Maintainers, OrphanPass(q) PROVE Accounted(d)
  <2>1. PICK ms \in Batches(Orphans, OrphanOrder, PurgeLimit) : DeleteMessages(q, ms)
    BY <1>13 DEF OrphanPass
  <2>2. Cascaded(ms) = {}
    BY DEF Batches, Orphans, Cascaded
  <2> QED BY <1>12, <2>1, <2>2
<1>14. ASSUME NEW q \in Maintainers, OrphanDelete(q) PROVE Accounted(d)
  <2>1. Cascaded(tx[q].msgs \cap DOMAIN messages) = {}
    BY <1>0 DEF CallsOK, MaintainerOK, Cascaded
  <2> QED BY <1>12, <1>14, <2>1 DEF OrphanDelete
<1>15. CASE Maintenance
  BY <1>9, <1>10, <1>11, <1>13, <1>14, <1>15, <1>a
  DEF Maintenance, ReapSelect, PurgeSelect, OrphanSelect
<1>16. ASSUME NEW a \in Admins, RequeueDeadMessage(a) PROVE Accounted(d)
  <2>1. PICK e \in tx[a].ids : deliveries' = [deliveries EXCEPT ![e] = tx[a].row]
    BY <1>16 DEF RequeueDeadMessage
  <2>2. e \in DOMAIN deliveries /\ deliveries[e].status = "dead"
    BY <1>0, <1>16 DEF CallsOK, AdminOK, RequeueDeadMessage
  <2> QED BY <2>1, <2>2 DEF Accounted
<1>17. ASSUME NEW e, NEW c, DeleteDead(e, c) PROVE Accounted(d)
  BY <1>17 DEF DeleteDead, Without, Accounted
<1>18. ASSUME NEW a \in Admins, DeleteTopicRow(a) PROVE Accounted(d)
  <2>1. CASE deliveries' = deliveries
    BY <1>a, <2>1
  <2>2. CASE /\ NoOtherChildren(ChannelsOf(tx[a].on), tx[a].chans)
             /\ channels' = Without(channels, tx[a].chans)
             /\ deliveries' = Without(deliveries, tx[a].ids)
    <3>1. /\ DOMAIN deliveries' = DOMAIN deliveries \ tx[a].ids
          /\ \A e \in DOMAIN deliveries \ tx[a].ids : deliveries'[e] = deliveries[e]
          /\ DOMAIN channels' = DOMAIN channels \ tx[a].chans
      BY <2>2 DEF Without
    <3>2. d \in tx[a].ids => messages[MessageOf(d)].topic_id = tx[a].on
      BY <1>0, <1>18 DEF CallsOK, AdminOK, DeleteTopicRow, MessagesOf, Cascaded
    <3>3. d \in tx[a].ids => ChannelOf(d) \in tx[a].chans
      BY <1>0, <2>2, <3>2 DEF Integrity, NoOtherChildren, ChannelsOf
    <3> QED BY <3>1, <3>3 DEF Accounted
  <2> QED BY <1>18, <2>1, <2>2 DEF DeleteTopicRow, tables
<1>19. ASSUME NEW a \in Admins, DeleteChannelRow(a) PROVE Accounted(d)
  <2>1. CASE deliveries' = deliveries
    BY <1>a, <2>1
  <2>2. CASE /\ channels' = Without(channels, {tx[a].on})
             /\ deliveries' = Without(deliveries, tx[a].ids)
    <3>1. /\ DOMAIN deliveries' = DOMAIN deliveries \ tx[a].ids
          /\ \A e \in DOMAIN deliveries \ tx[a].ids : deliveries'[e] = deliveries[e]
          /\ DOMAIN channels' = DOMAIN channels \ {tx[a].on}
      BY <2>2 DEF Without
    <3>2. d \in tx[a].ids => ChannelOf(d) = tx[a].on
      BY <1>0, <1>19 DEF CallsOK, AdminOK, DeleteChannelRow, DeliveriesOf
    <3> QED BY <3>1, <3>2 DEF Accounted
  <2> QED BY <1>19, <2>1, <2>2 DEF DeleteChannelRow
<1>20. ASSUME NEW a \in Admins, Admin(a) PROVE Accounted(d)
  BY <1>16, <1>17, <1>18, <1>19, <1>20, <1>a
  DEF Admin, RequeueDead, DeleteTopic, DeleteTopicChannels, DeleteChannel
<1>21. ASSUME NEW s \in Sessions, Abort(s) PROVE Accounted(d)
  BY <1>21, <1>a DEF Abort
<1> QED BY <1>1, <1>2, <1>3, <1>7, <1>15, <1>20, <1>21 DEF Next

(* No claim, reaper, purge or dead-letter action of either driver takes a  *)
(* delivery from the holder of a valid lease.                              *)
THEOREM RowLeasesHeld == Spec => ValidLeaseHeld
<1>1. IInv /\ [Next]_vars =>
        [\A d \in DOMAIN deliveries :
           LET r == deliveries[d] IN
           r.status = "in_flight" /\ r.lease_until >= now =>
             \/ d \in DOMAIN deliveries' /\ deliveries'[d] = r
             \/ <<d, r.lease_token>> \in settled'
             \/ ChannelOf(d) \notin DOMAIN channels']_vars
  BY RowAccounted DEF Accounted
<1> QED BY <1>1, CallsProtected, PTL DEF Spec, ValidLeaseHeld

(* No delivery of either driver is lost: what leaves the table was         *)
(* settled, dead or expired, or its channel went with it.                  *)
THEOREM NoRowLost == Spec => NoEarlyLoss
<1>1. IInv /\ [Next]_vars =>
        [\A d \in DOMAIN deliveries \ DOMAIN deliveries' :
           \/ <<d, deliveries[d].lease_token>> \in settled'
           \/ deliveries[d].status = "dead"
           \/ deliveries[d].expires_at < now
           \/ ChannelOf(d) \notin DOMAIN channels']_vars
  BY RowAccounted DEF Accounted
<1> QED BY <1>1, CallsProtected, PTL DEF Spec, NoEarlyLoss

----------------------------------------------------------------------------
(* The refinement.  A delivery that is not stored is gone once its         *)
(* message's id is used up and no open publish has the message.            *)

UsedUp(d) == MessageOf(d) <= lastID.message /\ MessageOf(d) \notin OpenMessages

(* The mapping, id by id, before and after a step. *)
LEMMA QueueRows ==
  /\ DOMAIN queueOfTable = DeliveryIDs /\ DOMAIN queueOfTable' = DeliveryIDs
  /\ \A d \in DeliveryIDs : queueOfTable[d] = QueueRowOf(d)
  /\ \A d \in DeliveryIDs : queueOfTable'[d] = QueueRowOf(d)'
  /\ \A d \in DOMAIN deliveries : QueueRowOf(d) = Shown(deliveries[d])
  /\ \A d \in DOMAIN deliveries' : QueueRowOf(d)' = Shown(deliveries'[d])
  /\ \A d : d \notin DOMAIN deliveries /\ UsedUp(d) => QueueRowOf(d) = Queue!Absent("gone")
  /\ \A d : d \notin DOMAIN deliveries' /\ UsedUp(d)' => QueueRowOf(d)' = Queue!Absent("gone")
  /\ \A d : d \notin DOMAIN deliveries /\ ~UsedUp(d) => QueueRowOf(d) = Queue!Absent("new")
  /\ \A d : d \notin DOMAIN deliveries' /\ ~UsedUp(d)' => QueueRowOf(d)' = Queue!Absent("new")
<1>1. /\ DOMAIN queueOfTable = DeliveryIDs /\ DOMAIN queueOfTable' = DeliveryIDs
      /\ \A d \in DeliveryIDs : queueOfTable[d] = QueueRowOf(d)
      /\ \A d \in DeliveryIDs : queueOfTable'[d] = QueueRowOf(d)'
  BY DEF queueOfTable, DeliveryIDs, MessageIDs, ChannelIDs
<1>2. /\ \A d \in DOMAIN deliveries : QueueRowOf(d) = Shown(deliveries[d])
      /\ \A d \in DOMAIN deliveries' : QueueRowOf(d)' = Shown(deliveries'[d])
  BY DEF QueueRowOf, Shown
<1>3. /\ \A d : d \notin DOMAIN deliveries /\ UsedUp(d) => QueueRowOf(d) = Queue!Absent("gone")
      /\ \A d : d \notin DOMAIN deliveries /\ ~UsedUp(d) => QueueRowOf(d) = Queue!Absent("new")
  BY DEF QueueRowOf, PhaseOfMissing, Queue!Absent, UsedUp
<1>4. /\ \A d : d \notin DOMAIN deliveries' /\ UsedUp(d)' => QueueRowOf(d)' = Queue!Absent("gone")
      /\ \A d : d \notin DOMAIN deliveries' /\ ~UsedUp(d)' => QueueRowOf(d)' = Queue!Absent("new")
  BY DEF QueueRowOf, PhaseOfMissing, Queue!Absent, UsedUp
<1> QED BY <1>1, <1>2, <1>3, <1>4

LEMMA StoredUsedUp ==
  ASSUME IInv, NEW d \in DOMAIN deliveries
  PROVE  UsedUp(d)
<1>1. MessageOf(d) \in DOMAIN messages
  BY DEF IInv, Integrity
<1>2. MessageOf(d) <= lastID.message
  BY <1>1 DEF IInv, IDsHandedOut
<1>3. MessageOf(d) \notin OpenMessages
  BY <1>1 DEF OpenMessages, IInv, CallsOK, PublisherOK
<1> QED BY <1>2, <1>3 DEF UsedUp

(* A step that leaves the delivery table and the used ids alone is no step *)
(* of the queue.                                                           *)
LEMMA QuietForQueue ==
  ASSUME deliveries' = deliveries, lastID'.lease = lastID.lease,
         \A d \in DeliveryIDs : UsedUp(d)' <=> UsedUp(d)
  PROVE  UNCHANGED Queue!queueVars
<1>1. \A d \in DeliveryIDs : queueOfTable'[d] = queueOfTable[d]
  <2> SUFFICES ASSUME NEW d \in DeliveryIDs PROVE queueOfTable'[d] = queueOfTable[d]
    OBVIOUS
  <2>1. CASE d \in DOMAIN deliveries
    BY <2>1, QueueRows
  <2>2. CASE d \notin DOMAIN deliveries
    BY <2>2, QueueRows
  <2> QED BY <2>1, <2>2
<1>2. queueOfTable' = queueOfTable
  BY <1>1 DEF queueOfTable, DeliveryIDs, MessageIDs, ChannelIDs
<1> QED BY <1>2 DEF Queue!queueVars

(* Sessions other than publishers do not change which ids are used up. *)
LEMMA UsedUpKept ==
  ASSUME \A p \in Publishers : tx'[p].msgs = tx[p].msgs, lastID'.message = lastID.message
  PROVE  \A d : UsedUp(d)' <=> UsedUp(d)
<1>1. OpenMessages' = OpenMessages
  BY DEF OpenMessages
<1> QED BY <1>1 DEF UsedUp

LEMMA PublishersWait ==
  ASSUME IInv, NEW s \in Sessions, s \notin Publishers, NEW x, tx' = [tx EXCEPT ![s] = x]
  PROVE  \A p \in Publishers : tx'[p].msgs = tx[p].msgs
  BY SessionRoles DEF IInv, Types

(* A DELETE of stored rows. *)
LEMMA RemoveMaps ==
  ASSUME IInv, NEW S \in SUBSET DOMAIN deliveries,
         deliveries' = Without(deliveries, S), lastID' = lastID,
         \A p \in Publishers : tx'[p].msgs = tx[p].msgs
  PROVE  Queue!QueueNext
<1>1. /\ DOMAIN deliveries' = DOMAIN deliveries \ S
      /\ \A d \in DOMAIN deliveries' : deliveries'[d] = deliveries[d]
  BY DEF Without
<1>2. S \subseteq Queue!Stored
  <2>1. \A d \in S : /\ d \in DeliveryIDs
                     /\ queueOfTable[d].phase \in {"pending", "in_flight", "dead"}
    BY QueueRows DEF Shown, IInv, Types, Delivery, Status
  <2> QED BY <2>1 DEF Queue!Stored, Queue!In
<1>3. \A d \in DeliveryIDs : UsedUp(d)' <=> UsedUp(d)
  BY UsedUpKept
<1>4. \A d \in DeliveryIDs :
        queueOfTable'[d] = IF d \in S THEN Queue!Absent("gone") ELSE queueOfTable[d]
  <2> SUFFICES ASSUME NEW d \in DeliveryIDs
               PROVE  queueOfTable'[d] = IF d \in S THEN Queue!Absent("gone")
                                                    ELSE queueOfTable[d]
    OBVIOUS
  <2>1. CASE d \in S
    BY <1>1, <1>3, <2>1, StoredUsedUp, QueueRows
  <2>2. CASE d \in DOMAIN deliveries /\ d \notin S
    BY <1>1, <2>2, QueueRows
  <2>3. CASE d \notin DOMAIN deliveries
    <3>1. d \notin DOMAIN deliveries' /\ d \notin S
      BY <1>1, <2>3
    <3> QED BY <1>3, <2>3, <3>1, QueueRows
  <2> QED BY <2>1, <2>2, <2>3
<1>5. queueOfTable' = [d \in DeliveryIDs |->
                         IF d \in S THEN Queue!Absent("gone") ELSE queueOfTable[d]]
  BY <1>4 DEF queueOfTable, DeliveryIDs, MessageIDs, ChannelIDs
<1>6. Queue!Remove(S)
  BY <1>2, <1>5 DEF Queue!Remove
<1> QED BY <1>2, <1>6 DEF Queue!QueueNext

(* A step that only rewrites rows leaves the image of the others alone. *)
LEMMA OthersStay ==
  ASSUME DOMAIN deliveries' = DOMAIN deliveries,
         \A d \in DeliveryIDs : UsedUp(d)' <=> UsedUp(d),
         NEW S, \A d \in DOMAIN deliveries \ S : deliveries'[d] = deliveries[d]
  PROVE  \A d \in DeliveryIDs \ (S \cap DOMAIN deliveries) :
           queueOfTable'[d] = queueOfTable[d]
<1> SUFFICES ASSUME NEW d \in DeliveryIDs \ (S \cap DOMAIN deliveries)
             PROVE  queueOfTable'[d] = queueOfTable[d]
  OBVIOUS
<1>1. CASE d \in DOMAIN deliveries
  BY <1>1, QueueRows
<1>2. CASE d \notin DOMAIN deliveries
  BY <1>2, QueueRows
<1> QED BY <1>1, <1>2

(* Deliveries become pending or gone together: S the rows that a publish   *)
(* inserts, rest those it never will.                                      *)
LEMMA EnqueueMaps ==
  ASSUME IInv, NEW S \in SUBSET DeliveryIDs, NEW rest \in SUBSET DeliveryIDs,
         NEW b \in Budgets, NEW row, Shown(row) = Queue!Pending(b),
         S \cap rest = {}, S \cap DOMAIN deliveries = {},
         \A d \in S \cup rest : ~UsedUp(d),
         \A d \in rest : UsedUp(d)',
         \A d \in DeliveryIDs \ (S \cup rest) : UsedUp(d)' <=> UsedUp(d),
         DOMAIN deliveries' = DOMAIN deliveries \cup S,
         \A d \in DOMAIN deliveries : deliveries'[d] = deliveries[d],
         \A d \in S : deliveries'[d] = row, lastID'.lease = lastID.lease
  PROVE  Queue!QueueNext
<1>1. rest \cap DOMAIN deliveries = {}
  BY StoredUsedUp
<1>2. \A d \in S \cup rest : queueOfTable[d].phase = "new"
  <2> SUFFICES ASSUME NEW d \in S \cup rest PROVE queueOfTable[d].phase = "new"
    OBVIOUS
  <2>1. d \in DeliveryIDs /\ d \notin DOMAIN deliveries /\ ~UsedUp(d)
    BY <1>1
  <2>2. queueOfTable[d] = Queue!Absent("new")
    BY <2>1, QueueRows
  <2> QED BY <2>2 DEF Queue!Absent
<1>3. \A d \in DeliveryIDs :
        queueOfTable'[d] = IF d \in S THEN Queue!Pending(b)
                           ELSE IF d \in rest THEN Queue!Absent("gone")
                           ELSE queueOfTable[d]
  <2> SUFFICES ASSUME NEW d \in DeliveryIDs
               PROVE  queueOfTable'[d] = IF d \in S THEN Queue!Pending(b)
                                         ELSE IF d \in rest THEN Queue!Absent("gone")
                                         ELSE queueOfTable[d]
    OBVIOUS
  <2>1. CASE d \in S
    BY <2>1, QueueRows
  <2>2. CASE d \in rest
    <3>1. d \notin DOMAIN deliveries' /\ d \notin S /\ UsedUp(d)'
      BY <1>1, <2>2
    <3> QED BY <2>2, <3>1, QueueRows
  <2>3. CASE d \in DOMAIN deliveries /\ d \notin S /\ d \notin rest
    BY <2>3, QueueRows
  <2>4. CASE d \notin DOMAIN deliveries /\ d \notin S /\ d \notin rest
    <3>1. d \notin DOMAIN deliveries' /\ (UsedUp(d)' <=> UsedUp(d))
      BY <2>4
    <3> QED BY <2>4, <3>1, QueueRows
  <2> QED BY <2>1, <2>2, <2>3, <2>4
<1>4. queueOfTable' = [d \in DeliveryIDs |->
                         IF d \in S THEN Queue!Pending(b)
                         ELSE IF d \in rest THEN Queue!Absent("gone")
                         ELSE queueOfTable[d]]
  BY <1>3 DEF queueOfTable, DeliveryIDs, MessageIDs, ChannelIDs
<1>5. S \in SUBSET Queue!In("new") /\ rest \in SUBSET (Queue!In("new") \ S)
  BY <1>2 DEF Queue!In
<1>6. Queue!Enqueue(S, rest, b)
  BY <1>4, <1>5 DEF Queue!Enqueue
<1>7. b \in {MaxAttemptsOf(o) : o \in Opts}
  BY DEF Budgets
<1> QED BY <1>5, <1>6, <1>7 DEF Queue!QueueNext

(* A publish that ends, with its rows S or, rolled back, with none. *)
LEMMA PublishEnds ==
  ASSUME IInv, NEW p \in Publishers, tx[p].pc # "idle", NEW S \in SUBSET DeliveryIDs,
         \A d \in S : MessageOf(d) \in tx[p].msgs,
         tx' = [tx EXCEPT ![p] = Idle], lastID' = lastID,
         DOMAIN deliveries' = DOMAIN deliveries \cup S,
         \A d \in DOMAIN deliveries : deliveries'[d] = deliveries[d],
         \A d \in S : deliveries'[d] = tx[p].row
  PROVE  Queue!QueueNext
<1> DEFINE rest == {d \in DeliveryIDs : MessageOf(d) \in tx[p].msgs} \ S
<1>1. Types /\ CallsOK /\ Locks /\ p \in Sessions /\ PublisherOK(p)
  BY SessionRoles DEF IInv, CallsOK
<1>2. PICK a, e \in Nat, b \in Budgets : tx[p].row = NewRow(a, e, b)
  BY <1>1 DEF PublisherOK
<1>3. Shown(tx[p].row) = Queue!Pending(b)
  <2>1. Shown(NewRow(a, e, b)) = Queue!Pending(b)
    BY DEF Shown, NewRow, NULL, Queue!Pending
  <2> QED BY <1>2, <2>1
<1>4. tx'[p].msgs = {} /\ \A r \in Publishers \ {p} : tx'[r] = tx[r]
  BY <1>1, IdleCall, SessionRoles DEF Types
<1>5. \A m : m \in OpenMessages' <=> m \in OpenMessages /\ m \notin tx[p].msgs
  <2>1. \A r \in Publishers \ {p} : tx[r].msgs \cap tx[p].msgs = {}
    BY <1>1 DEF Locks
  <2> QED BY <1>4, <2>1 DEF OpenMessages
<1>6. \A m \in tx[p].msgs : m \in OpenMessages /\ m <= lastID.message
  BY <1>1 DEF OpenMessages, PublisherOK
<1>7. \A d \in S \cup rest : ~UsedUp(d)
  BY <1>6 DEF UsedUp
<1>8. \A d \in rest : UsedUp(d)'
  BY <1>5, <1>6 DEF UsedUp
<1>9. \A d \in DeliveryIDs \ (S \cup rest) : UsedUp(d)' <=> UsedUp(d)
  BY <1>5 DEF UsedUp
<1>10. S \cap DOMAIN deliveries = {}
  BY <1>7, StoredUsedUp
<1>11. rest \in SUBSET DeliveryIDs /\ S \cap rest = {} /\ lastID'.lease = lastID.lease
  OBVIOUS
<1> HIDE DEF rest
<1> QED BY <1>3, <1>7, <1>8, <1>9, <1>10, <1>11, EnqueueMaps

LEMMA PublishCommitMaps ==
  ASSUME IInv, NEW p \in Publishers, PublishCommit(p)
  PROVE  Queue!QueueNext
<1> DEFINE new == tx[p].msgs \X tx[p].chans
<1>1. /\ new \in SUBSET DeliveryIDs
      /\ DOMAIN deliveries' = DOMAIN deliveries \cup new
      /\ \A d \in DOMAIN deliveries : deliveries'[d] = deliveries[d]
      /\ \A d \in new : deliveries'[d] = tx[p].row
  BY PublishCommitRows
<1>2. \A d \in new : MessageOf(d) \in tx[p].msgs
  BY DEF MessageOf
<1>3. tx[p].pc # "idle" /\ tx' = [tx EXCEPT ![p] = Idle] /\ lastID' = lastID
  BY DEF PublishCommit
<1> HIDE DEF new
<1> QED BY <1>1, <1>2, <1>3, PublishEnds

LEMMA PublishFails ==
  ASSUME IInv, NEW p \in Publishers, tx[p].pc # "idle", tx' = [tx EXCEPT ![p] = Idle],
         lastID' = lastID, deliveries' = deliveries
  PROVE  Queue!QueueNext
<1>1. /\ {} \in SUBSET DeliveryIDs /\ \A d \in {} : FALSE
      /\ DOMAIN deliveries' = DOMAIN deliveries \cup {}
      /\ \A d \in DOMAIN deliveries : deliveries'[d] = deliveries[d]
  OBVIOUS
<1> QED BY <1>1, PublishEnds

(* The insert of a message: its id is used up when the topic is gone, and  *)
(* an open publish's otherwise.                                            *)
LEMMA PublishMessageMaps ==
  ASSUME IInv, NEW p \in Publishers, NEW t, NEW opts \in Opts, PublishMessage(p, t, opts)
  PROVE  [Queue!QueueNext]_Queue!queueVars
<1> DEFINE id == lastID.message + 1
<1>1. /\ Types /\ CallsOK /\ p \in Sessions /\ deliveries' = deliveries
      /\ lastID' = [lastID EXCEPT !.message = id] /\ tx[p].pc = "idle" /\ PublisherOK(p)
  BY SessionRoles DEF IInv, CallsOK, PublishMessage
<1>2. /\ lastID'.message = id /\ lastID'.lease = lastID.lease /\ lastID.message \in Nat
  BY <1>1, RowLockStoreAssumption DEF Types
<1>3. \A d \in DeliveryIDs : MessageOf(d) \in Nat
  BY DEF DeliveryIDs, MessageIDs, MessageOf
<1>4. id \notin OpenMessages
  <2>1. \A r \in Publishers : \A m \in tx[r].msgs : m <= lastID.message
    BY <1>1 DEF CallsOK, PublisherOK
  <2>2. ~(id <= lastID.message)
    BY <1>2
  <2> QED BY <2>1, <2>2 DEF OpenMessages
<1>5. CASE t \notin DOMAIN topics
  <2> DEFINE rest == {d \in DeliveryIDs : MessageOf(d) = id}
             b == MaxAttemptsOf(opts)
  <2>1. OpenMessages' = OpenMessages
    BY <1>5 DEF PublishMessage, OpenMessages
  <2>2. b \in Budgets
    BY DEF Budgets
  <2>3. \A d \in rest : ~UsedUp(d) /\ UsedUp(d)'
    BY <1>2, <1>3, <1>4, <2>1 DEF UsedUp
  <2>4. \A d \in DeliveryIDs \ rest : UsedUp(d)' <=> UsedUp(d)
    BY <1>2, <1>3, <2>1 DEF UsedUp
  <2>5. Shown(NewRow(0, 0, b)) = Queue!Pending(b)
    BY DEF Shown, NewRow, NULL, Queue!Pending
  <2>6. /\ {} \in SUBSET DeliveryIDs /\ rest \in SUBSET DeliveryIDs
        /\ {} \cap rest = {} /\ {} \cap DOMAIN deliveries = {}
        /\ DOMAIN deliveries' = DOMAIN deliveries \cup {}
        /\ \A d \in DOMAIN deliveries : deliveries'[d] = deliveries[d]
        /\ \A d \in {} : deliveries'[d] = NewRow(0, 0, b)
    BY <1>1
  <2>7. {} \cup rest = rest
    OBVIOUS
  <2> HIDE DEF rest, b
  <2> QED BY <1>2, <2>2, <2>3, <2>4, <2>5, <2>6, <2>7, EnqueueMaps
<1>6. CASE t \in DOMAIN topics
  <2>1. PICK x : tx' = [tx EXCEPT ![p] = x] /\ x.msgs = {id}
    <3> DEFINE y == [Idle EXCEPT !.pc = "fanout", !.on = t, !.msgs = {id},
                        !.row = NewRow(AvailableAt(opts, now), ExpiresAt(opts, now),
                                       MaxAttemptsOf(opts))]
    <3>1. tx' = [tx EXCEPT ![p] = y]
      BY <1>6 DEF PublishMessage
    <3>2. y.msgs = {id}
      BY IdleCall DEF Calls
    <3> QED BY <3>1, <3>2
  <2>2. tx'[p].msgs = {id} /\ \A r \in Publishers \ {p} : tx'[r] = tx[r]
    BY <1>1, <2>1, SessionRoles DEF Types
  <2>3. tx[p].msgs = {}
    BY <1>1, IdleCall DEF PublisherOK
  <2>4. \A m : m \in OpenMessages' <=> m \in OpenMessages \/ m = id
    BY <2>2, <2>3 DEF OpenMessages
  <2>5. \A d \in DeliveryIDs : UsedUp(d)' <=> UsedUp(d)
    BY <1>2, <1>3, <2>4 DEF UsedUp
  <2> QED BY <1>1, <1>2, <2>5, QuietForQueue
<1> QED BY <1>5, <1>6

(* The row a claim writes is the row a lease of the queue makes. *)
LEMMA LeaseRowShown ==
  ASSUME NEW r \in Delivery, r.lease_token = 0, NEW token \in Nat, NEW time \in Nat
  PROVE  Shown(Leased(r, token, time)) = Queue!LeaseRow(Shown(r), token)
<1> DEFINE q == Shown(r)
           n == r.attempts + 1
<1>1. q.attempts + 1 = n /\ q.budget = r.max_attempts
  BY DEF Shown
<1>2. Queue!LeaseRow(q, token) =
        IF n > r.max_attempts
          THEN [q EXCEPT !.phase = "dead", !.attempts = n]
          ELSE [q EXCEPT !.phase = "in_flight", !.attempts = n, !.token = token]
  <2> HIDE DEF q, n
  <2> QED BY <1>1, Zenon DEF Queue!LeaseRow
<1>3. Shown(Leased(r, token, time)) =
        IF n > r.max_attempts
          THEN [q EXCEPT !.phase = "dead", !.attempts = n]
          ELSE [q EXCEPT !.phase = "in_flight", !.attempts = n, !.token = token]
  BY ShownLeased, Zenon
<1> QED BY <1>2, <1>3, Zenon

(* The commit of a claim is a lease of all the rows it polled, those it    *)
(* buries included.                                                        *)
LEMMA ClaimMaps ==
  ASSUME IInv, NEW p \in Claimers, ClaimCommit(p)
  PROVE  [Queue!QueueNext]_Queue!queueVars
<1> DEFINE ids == tx[p].ids
           token == lastID.lease + 1
           New(d) == Leased(deliveries[d], token, tx[p].until[d])
<1>1. /\ Types /\ CallsOK /\ RowsLeased /\ p \in Sessions /\ p \notin Publishers
      /\ tx[p].pc = "commit" /\ tx' = [tx EXCEPT ![p] = Idle]
  BY SessionRoles DEF IInv, ClaimCommit
<1>2. \A r \in Publishers : tx'[r].msgs = tx[r].msgs
  BY <1>1, PublishersWait
<1>3. CASE ids = {}
  <2>1. deliveries' = deliveries /\ lastID' = lastID
    BY <1>3 DEF ClaimCommit
  <2>2. \A d \in DeliveryIDs : UsedUp(d)' <=> UsedUp(d)
    BY <1>2, <2>1, UsedUpKept
  <2> QED BY <2>1, <2>2, QuietForQueue
<1>4. CASE ids # {}
  <2>1. /\ lastID' = [lastID EXCEPT !.lease = token] /\ deliveries' = Updated(ids, New)
    BY <1>4 DEF ClaimCommit
  <2>2. /\ lastID'.lease = token /\ lastID'.message = lastID.message /\ token \in Nat \ {0}
    BY <1>1, <2>1 DEF Types
  <2>3. \A d \in DeliveryIDs : UsedUp(d)' <=> UsedUp(d)
    BY <1>2, <2>2, UsedUpKept
  <2>4. /\ DOMAIN deliveries' = DOMAIN deliveries
        /\ \A d \in DOMAIN deliveries \ ids : deliveries'[d] = deliveries[d]
        /\ \A d \in ids : /\ d \in DOMAIN deliveries /\ tx[p].until[d] \in Nat
                          /\ deliveries'[d] = New(d)
    BY <1>1, <2>1, <2>2, ClaimRows
  <2>5. \A d \in ids : /\ deliveries[d] \in Delivery
                       /\ deliveries[d].status = "pending"
                       /\ deliveries[d].lease_token = 0
    BY <1>1, <2>4 DEF CallsOK, ClaimerOK, Types, RowsLeased, LeaseColumns, NULL
  <2> HIDE DEF ids, token
  <2>6. \A d \in ids : Shown(New(d)) = Queue!LeaseRow(Shown(deliveries[d]), token)
    BY <2>2, <2>4, <2>5, LeaseRowShown
  <2> HIDE DEF New
  <2>7. \A d \in ids : d \in DeliveryIDs /\ queueOfTable[d].phase = "pending"
    BY <1>1, <2>4, <2>5, QueueRows DEF Shown, Types
  <2>8. \A d \in DeliveryIDs :
          queueOfTable'[d] = IF d \in ids THEN Queue!LeaseRow(queueOfTable[d], token)
                                          ELSE queueOfTable[d]
    <3> SUFFICES ASSUME NEW d \in DeliveryIDs
                 PROVE  queueOfTable'[d] =
                          IF d \in ids THEN Queue!LeaseRow(queueOfTable[d], token)
                                       ELSE queueOfTable[d]
      OBVIOUS
    <3>1. CASE d \in ids
      BY <2>4, <2>6, <3>1, QueueRows
    <3>2. CASE d \notin ids
      BY <2>3, <2>4, <3>2, OthersStay
    <3> QED BY <3>1, <3>2
  <2>9. queueOfTable' = [d \in DeliveryIDs |->
                           IF d \in ids THEN Queue!LeaseRow(queueOfTable[d], token)
                                        ELSE queueOfTable[d]]
    BY <2>8 DEF queueOfTable, DeliveryIDs, MessageIDs, ChannelIDs
  <2>10. ids \in SUBSET Queue!In("pending")
    BY <2>7 DEF Queue!In
  <2>11. Queue!Lease(ids)
    BY <1>4, <2>2, <2>9, <2>10 DEF Queue!Lease, token
  <2> QED BY <2>10, <2>11 DEF Queue!QueueNext
<1> QED BY <1>3, <1>4

(* Ack: the holder of the current token settles the delivery. *)
LEMMA AckMaps ==
  ASSUME IInv, NEW i \in issued, Ack(i[1], i[2])
  PROVE  Queue!QueueNext
<1> DEFINE d == i[1]
           k == i[2]
<1>1. HoldsLease(d, k) /\ deliveries' = Without(deliveries, {d}) /\ UNCHANGED <<lastID, tx>>
  BY DEF Ack
<1>2. d \in DeliveryIDs /\ d \in DOMAIN deliveries /\ k \in 1..lastID.lease
  BY <1>1 DEF HoldsLease, IInv, Types, IDsHandedOut
<1>3. Queue!Holds(d, k)
  BY <1>1, <1>2, QueueRows DEF Queue!Holds, HoldsLease, Shown
<1>4. /\ DOMAIN deliveries' = DOMAIN deliveries \ {d}
      /\ \A x \in DOMAIN deliveries' : deliveries'[x] = deliveries[x]
  BY <1>1 DEF Without
<1>5. \A x \in DeliveryIDs : UsedUp(x)' <=> UsedUp(x)
  BY <1>1, UsedUpKept
<1> HIDE DEF d, k
<1>6. \A x \in DeliveryIDs :
        queueOfTable'[x] = IF x = d THEN Queue!Absent("gone") ELSE queueOfTable[x]
  <2> SUFFICES ASSUME NEW x \in DeliveryIDs
               PROVE  queueOfTable'[x] = IF x = d THEN Queue!Absent("gone")
                                                  ELSE queueOfTable[x]
    OBVIOUS
  <2>1. CASE x = d
    BY <1>2, <1>4, <1>5, <2>1, StoredUsedUp, QueueRows
  <2>2. CASE x # d /\ x \in DOMAIN deliveries
    BY <1>4, <2>2, QueueRows
  <2>3. CASE x # d /\ x \notin DOMAIN deliveries
    BY <1>4, <1>5, <2>3, QueueRows
  <2> QED BY <2>1, <2>2, <2>3
<1>7. queueOfTable' = [queueOfTable EXCEPT ![d] = Queue!Absent("gone")]
  BY <1>2, <1>6 DEF queueOfTable, DeliveryIDs, MessageIDs, ChannelIDs
<1>8. Queue!Settle(d, k)
  BY <1>1, <1>3, <1>7 DEF Queue!Settle
<1> QED BY <1>2, <1>8 DEF Queue!QueueNext

(* Requeue: the holder of the current token puts the delivery back. *)
LEMMA RequeueMaps ==
  ASSUME IInv, NEW i \in issued, NEW at \in RequeueAt, Requeue(i[1], i[2], at)
  PROVE  Queue!QueueNext
<1> DEFINE d == i[1]
           k == i[2]
           a == IF at = 0 THEN now ELSE at
<1>1. /\ HoldsLease(d, k) /\ UNCHANGED <<lastID, tx>>
      /\ deliveries' = [deliveries EXCEPT ![d] = Released(deliveries[d], a)]
  BY DEF Requeue
<1>2. /\ d \in DeliveryIDs /\ d \in DOMAIN deliveries /\ k \in 1..lastID.lease
      /\ deliveries[d] \in Delivery
  BY <1>1 DEF HoldsLease, IInv, Types, IDsHandedOut
<1>3. a \in Nat
  BY RowLockStoreAssumption DEF IInv, Types
<1>4. Queue!Holds(d, k)
  BY <1>1, <1>2, QueueRows DEF Queue!Holds, HoldsLease, Shown
<1>5. \A x \in DeliveryIDs : UsedUp(x)' <=> UsedUp(x)
  BY <1>1, UsedUpKept
<1> HIDE DEF d, k, a
<1>6. Shown(Released(deliveries[d], a)) =
        [Shown(deliveries[d]) EXCEPT !.phase = "pending", !.token = 0]
  BY <1>2, <1>3, ShownReleased
<1>7. /\ DOMAIN deliveries' = DOMAIN deliveries
      /\ deliveries'[d] = Released(deliveries[d], a)
      /\ \A x \in DOMAIN deliveries \ {d} : deliveries'[x] = deliveries[x]
  BY <1>1, <1>2
<1>8. \A x \in DeliveryIDs \ {d} : queueOfTable'[x] = queueOfTable[x]
  BY <1>5, <1>7, OthersStay
<1>9. queueOfTable'[d] = [queueOfTable[d] EXCEPT !.phase = "pending", !.token = 0]
  BY <1>2, <1>6, <1>7, QueueRows
<1>10. queueOfTable' = [queueOfTable EXCEPT ![d].phase = "pending", ![d].token = 0]
  BY <1>2, <1>8, <1>9, QueueRows DEF queueOfTable
<1>11. Queue!Release(d, k)
  BY <1>1, <1>4, <1>10 DEF Queue!Release
<1> QED BY <1>2, <1>11 DEF Queue!QueueNext

(* The reaper of either dialect: leases whose time is over lapse. *)
LEMMA ReapMaps ==
  ASSUME IInv, NEW ids \in SUBSET LapsedLeases,
         deliveries' = Updated(ids, LAMBDA d : Released(deliveries[d], now)),
         lastID' = lastID, \A p \in Publishers : tx'[p].msgs = tx[p].msgs
  PROVE  Queue!QueueNext
<1>1. \A d \in DeliveryIDs : UsedUp(d)' <=> UsedUp(d)
  BY UsedUpKept
<1>2. now \in Nat
  BY DEF IInv, Types
<1>3. \A d \in ids : /\ d \in DOMAIN deliveries /\ deliveries[d] \in Delivery
                     /\ deliveries[d].status = "in_flight"
  BY DEF LapsedLeases, LeaseLapsed, IInv, Types
<1>4. /\ DOMAIN deliveries' = DOMAIN deliveries
      /\ \A d \in ids : deliveries'[d] = Released(deliveries[d], now)
      /\ \A d \in DOMAIN deliveries \ ids : deliveries'[d] = deliveries[d]
  BY <1>3 DEF Updated
<1>5. ids \in SUBSET Queue!In("in_flight")
  <2>1. \A d \in ids : d \in DeliveryIDs /\ queueOfTable[d].phase = "in_flight"
    BY <1>3, QueueRows DEF Shown, IInv, Types
  <2> QED BY <2>1 DEF Queue!In
<1>6. \A d \in DeliveryIDs :
        queueOfTable'[d] =
          IF d \in ids THEN [queueOfTable[d] EXCEPT !.phase = "pending", !.token = 0]
                       ELSE queueOfTable[d]
  <2> SUFFICES ASSUME NEW d \in DeliveryIDs
               PROVE  queueOfTable'[d] =
                        IF d \in ids
                          THEN [queueOfTable[d] EXCEPT !.phase = "pending", !.token = 0]
                          ELSE queueOfTable[d]
    OBVIOUS
  <2>1. CASE d \in ids
    <3>1. Shown(deliveries'[d]) =
            [Shown(deliveries[d]) EXCEPT !.phase = "pending", !.token = 0]
      BY <1>2, <1>3, <1>4, <2>1, ShownReleased
    <3> QED BY <1>3, <1>4, <2>1, <3>1, QueueRows
  <2>2. CASE d \notin ids
    BY <1>1, <1>4, <2>2, OthersStay
  <2> QED BY <2>1, <2>2
<1>7. queueOfTable' =
        [d \in DeliveryIDs |->
           IF d \in ids THEN [queueOfTable[d] EXCEPT !.phase = "pending", !.token = 0]
                        ELSE queueOfTable[d]]
  BY <1>6 DEF queueOfTable, DeliveryIDs, MessageIDs, ChannelIDs
<1>8. Queue!Lapse(ids)
  BY <1>5, <1>7 DEF Queue!Lapse
<1> QED BY <1>5, <1>8 DEF Queue!QueueNext

(* The commit of RequeueDead: the row it computed is still the revival of  *)
(* the row in the table.                                                   *)
LEMMA RequeueDeadMaps ==
  ASSUME IInv, NEW a \in Admins, RequeueDeadMessage(a)
  PROVE  Queue!QueueNext
<1>1. PICK d \in tx[a].ids : deliveries' = [deliveries EXCEPT ![d] = tx[a].row]
  BY DEF RequeueDeadMessage
<1>2. /\ a \in Sessions /\ a \notin Publishers /\ AdminOK(a) /\ Types /\ RowsLeased
      /\ lastID' = lastID /\ tx' = [tx EXCEPT ![a] = Idle] /\ tx[a].pc = "message"
  BY SessionRoles DEF RequeueDeadMessage, IInv, CallsOK
<1>3. \A x \in DeliveryIDs : UsedUp(x)' <=> UsedUp(x)
  BY <1>2, PublishersWait, UsedUpKept
<1>4. PICK t \in Nat : tx[a].row = Revived(deliveries[d], t, FreshTTLSec)
  BY <1>2 DEF AdminOK
<1>5. /\ d \in DOMAIN deliveries /\ deliveries[d].status = "dead" /\ deliveries[d] \in Delivery
      /\ d \in DeliveryIDs /\ FreshTTLSec \in Nat
  BY <1>2, RowLockStoreAssumption DEF AdminOK, Types
<1>6. deliveries[d].lease_token = 0
  BY <1>2, <1>5 DEF RowsLeased, LeaseColumns, NULL
<1>7. Shown(tx[a].row) = [Shown(deliveries[d]) EXCEPT !.phase = "pending", !.attempts = 0]
  <2>1. Shown(Revived(deliveries[d], t, FreshTTLSec)) =
          [Shown(deliveries[d]) EXCEPT !.phase = "pending", !.attempts = 0]
    BY <1>5, <1>6, ShownRevived
  <2> QED BY <1>4, <2>1
<1>8. /\ DOMAIN deliveries' = DOMAIN deliveries /\ deliveries'[d] = tx[a].row
      /\ \A x \in DOMAIN deliveries \ {d} : deliveries'[x] = deliveries[x]
  BY <1>1, <1>5
<1>9. \A x \in DeliveryIDs \ {d} : queueOfTable'[x] = queueOfTable[x]
  BY <1>3, <1>8, OthersStay
<1>10. queueOfTable'[d] = [queueOfTable[d] EXCEPT !.phase = "pending", !.attempts = 0]
  BY <1>5, <1>7, <1>8, QueueRows
<1>11. queueOfTable' = [queueOfTable EXCEPT ![d].phase = "pending", ![d].attempts = 0]
  BY <1>5, <1>9, <1>10, QueueRows DEF queueOfTable
<1>12. queueOfTable[d].phase = "dead"
  BY <1>5, QueueRows DEF Shown
<1>13. Queue!Revive(d)
  BY <1>2, <1>11, <1>12 DEF Queue!Revive
<1> QED BY <1>5, <1>13 DEF Queue!QueueNext

(* Every step of the drivers, one case per action. *)
LEMMA QueueStep ==
  ASSUME IInv, [Next]_vars
  PROVE  [Queue!QueueNext]_Queue!queueVars
<1> DEFINE Goal == [Queue!QueueNext]_Queue!queueVars
           OpenKept == \A p \in Publishers : tx'[p].msgs = tx[p].msgs
<1> SUFFICES Goal
  OBVIOUS
<1>0. Types /\ CallsOK
  BY DEF IInv
<1>a. ASSUME deliveries' = deliveries, lastID'.lease = lastID.lease,
             lastID'.message = lastID.message, OpenKept
      PROVE  Goal
  BY <1>a, UsedUpKept, QuietForQueue
<1>b. ASSUME NEW S \in SUBSET DOMAIN deliveries,
             deliveries' = Without(deliveries, S), lastID' = lastID, OpenKept
      PROVE  Goal
  BY <1>b, RemoveMaps
<1>c. ASSUME NEW s \in Sessions, s \notin Publishers, NEW x, tx' = [tx EXCEPT ![s] = x]
      PROVE  OpenKept
  BY <1>c, PublishersWait
<1>d. /\ \A s \in Claimers \cup Maintainers \cup Admins : s \in Sessions /\ s \notin Publishers
      /\ \A p \in Publishers : p \in Sessions
  BY SessionRoles
<1>e. tx' = tx => OpenKept
  OBVIOUS
<1> HIDE DEF Goal, OpenKept
<1>1. CASE UNCHANGED vars
  BY <1>1, <1>a, <1>e DEF vars
<1>2. CASE Tick
  BY <1>2, <1>a, <1>e DEF Tick
<1>3. CASE Topology
  <2>1. /\ deliveries' = deliveries /\ lastID'.message = lastID.message
        /\ lastID'.lease = lastID.lease /\ tx' = tx
    BY <1>0, <1>3 DEF Topology, EnsureTopic, EnsureChannel, Types
  <2> QED BY <1>a, <1>e, <2>1
<1>4. ASSUME NEW p \in Publishers, PublishFanout(p) PROVE Goal
  <2>1. OpenKept
    BY <1>0, <1>4, <1>d DEF PublishFanout, Types, Calls, OpenKept
  <2> QED BY <1>4, <1>a, <2>1 DEF PublishFanout
<1>5. ASSUME NEW p \in Publishers, PublishInsert(p) PROVE Goal
  <2>1. deliveries' = deliveries /\ lastID' = lastID /\ tx[p].pc = "insert"
    BY <1>5 DEF PublishInsert
  <2>2. CASE ParentsExist(tx[p].chans)
    <3>1. OpenKept
      BY <1>0, <1>5, <1>d, <2>2 DEF PublishInsert, Types, Calls, OpenKept
    <3> QED BY <1>a, <2>1, <3>1
  <2>3. CASE ~ParentsExist(tx[p].chans)
    <3>1. tx' = [tx EXCEPT ![p] = Idle]
      BY <1>5, <2>3 DEF PublishInsert
    <3> QED BY <2>1, <3>1, PublishFails DEF Goal
  <2> QED BY <2>2, <2>3
<1>6. ASSUME NEW p \in Publishers, Publishing(p) PROVE Goal
  <2>1. CASE \E t \in 1..lastID.topic, opts \in Opts : PublishMessage(p, t, opts)
    BY <2>1, PublishMessageMaps DEF Goal
  <2>2. CASE PublishCommit(p)
    BY <2>2, PublishCommitMaps DEF Goal
  <2> QED BY <1>4, <1>5, <1>6, <2>1, <2>2 DEF Publishing
<1>7. ASSUME NEW p \in Claimers, NEW c, ClaimPoll(p, c) PROVE Goal
  <2>1. PICK ids : tx' = [tx EXCEPT ![p] = [tx[p] EXCEPT !.pc = "lease", !.ids = ids]]
    BY <1>7 DEF ClaimPoll
  <2> QED BY <1>7, <1>a, <1>c, <1>d, <2>1 DEF ClaimPoll
<1>8. ASSUME NEW p \in Claimers, ClaimLease(p) PROVE Goal
  <2>1. \E x : tx' = [tx EXCEPT ![p] = x]
    <3>1. PICK S \in LeaseTargets(p) :
            LET hit  == StillPending(S)
                ids  == (tx[p].ids \ S) \cup hit
                until == [d \in DOMAIN tx[p].until \cup hit |->
                           IF d \in hit THEN now + LeaseSec ELSE tx[p].until[d]]
            IN tx' = [tx EXCEPT ![p].ids = ids, ![p].until = until,
                                ![p].pc = IF ids = DOMAIN until THEN "commit" ELSE "lease"]
      BY <1>8 DEF ClaimLease
    <3> DEFINE hit  == StillPending(S)
               ids  == (tx[p].ids \ S) \cup hit
               until == [d \in DOMAIN tx[p].until \cup hit |->
                           IF d \in hit THEN now + LeaseSec ELSE tx[p].until[d]]
               pc == IF ids = DOMAIN until THEN "commit" ELSE "lease"
               x == [tx[p] EXCEPT !.ids = ids, !.until = until, !.pc = pc]
    <3>2. tx' = [tx EXCEPT ![p] = x]
      BY <3>1
    <3> HIDE DEF x
    <3> QED BY <3>2
  <2> QED BY <1>8, <1>a, <1>c, <1>d, <2>1 DEF ClaimLease
<1>9. ASSUME NEW p \in Claimers, ClaimCommit(p) PROVE Goal
  BY <1>9, ClaimMaps DEF Goal
<1>10. ASSUME NEW i \in issued, Ack(i[1], i[2]) PROVE Goal
  BY <1>10, AckMaps DEF Goal
<1>11. ASSUME NEW i \in issued, NEW at \in RequeueAt, Requeue(i[1], i[2], at) PROVE Goal
  BY <1>11, RequeueMaps DEF Goal
<1>12. CASE Consuming
  BY <1>7, <1>8, <1>9, <1>10, <1>11, <1>12 DEF Consuming
<1>13. CASE ReapExpiredLeases
  <2>1. PICK ids \in Batches(LapsedLeases, ReapOrder, ReapLimit) :
          deliveries' = Updated(ids, LAMBDA d : Released(deliveries[d], now))
    BY <1>13 DEF ReapExpiredLeases
  <2>2. ids \in SUBSET LapsedLeases
    BY DEF Batches
  <2>3. lastID' = lastID /\ \A p \in Publishers : tx'[p].msgs = tx[p].msgs
    BY <1>13 DEF ReapExpiredLeases
  <2> QED BY <2>1, <2>2, <2>3, ReapMaps DEF Goal
<1>14. ASSUME NEW q \in Maintainers, ReapUpdate(q) PROVE Goal
  <2>1. StillLapsed(tx[q].ids) \in SUBSET LapsedLeases
    BY DEF StillLapsed
  <2>2. OpenKept /\ lastID' = lastID
    BY <1>14, <1>c, <1>d DEF ReapUpdate
  <2>3. deliveries' = Updated(StillLapsed(tx[q].ids), LAMBDA d : Released(deliveries[d], now))
    BY <1>14 DEF ReapUpdate
  <2> QED BY <2>1, <2>2, <2>3, ReapMaps DEF Goal, OpenKept
<1>15. ASSUME NEW q \in Maintainers, ReapSelect(q) \/ PurgeSelect(q) \/ OrphanSelect(q)
       PROVE  Goal
  <2>1. \E x : tx' = [tx EXCEPT ![q] = x]
    <3>1. CASE ReapSelect(q)
      <4>1. PICK ids : tx' = [tx EXCEPT ![q] = [tx[q] EXCEPT !.pc = "reap", !.ids = ids]]
        BY <3>1 DEF ReapSelect
      <4> QED BY <4>1
    <3>2. CASE PurgeSelect(q)
      <4>1. PICK ids, pc : tx' = [tx EXCEPT ![q] = [tx[q] EXCEPT !.pc = pc, !.ids = ids]]
        BY <3>2 DEF PurgeSelect
      <4> QED BY <4>1
    <3>3. CASE OrphanSelect(q)
      BY <3>3 DEF OrphanSelect
    <3> QED BY <1>15, <3>1, <3>2, <3>3
  <2> QED BY <1>15, <1>a, <1>c, <1>d, <2>1 DEF ReapSelect, PurgeSelect, OrphanSelect
<1>16. ASSUME NEW q \in Maintainers, PurgeDelete(q) PROVE Goal
  <2>1. StillDoomed(tx[q].ids) \in SUBSET DOMAIN deliveries
    BY DEF StillDoomed, Doomed
  <2>2. /\ deliveries' = Without(deliveries, StillDoomed(tx[q].ids)) /\ lastID' = lastID
        /\ tx' = [tx EXCEPT ![q] = [tx[q] EXCEPT !.pc = "orphans", !.ids = {}]]
    BY <1>16 DEF PurgeDelete
  <2> QED BY <1>b, <1>c, <1>d, <2>1, <2>2
<1>17. ASSUME NEW q \in Maintainers, NEW ms, DeleteMessages(q, ms) PROVE Goal
  <2>1. Cascaded(ms) \in SUBSET DOMAIN deliveries
    BY DEF Cascaded
  <2> QED BY <1>17, <1>b, <1>c, <1>d, <2>1 DEF DeleteMessages
<1>18. CASE Maintenance
  BY <1>13, <1>14, <1>15, <1>16, <1>17, <1>18 DEF Maintenance, OrphanPass, OrphanDelete
<1>19. ASSUME NEW a \in Admins,
              \/ \E d, c : RequeueDead(a, d, c)
              \/ \E t : DeleteTopic(a, t)
              \/ DeleteTopicChannels(a)
              \/ \E c : DeleteChannel(a, c)
       PROVE  Goal
  <2>1. \E x : tx' = [tx EXCEPT ![a] = x]
    <3>1. ASSUME NEW d, NEW c, RequeueDead(a, d, c) PROVE \E x : tx' = [tx EXCEPT ![a] = x]
      <4>1. tx' = [tx EXCEPT ![a] = [tx[a] EXCEPT !.pc = "message", !.ids = {d},
                                       !.row = Revived(deliveries[d], now, FreshTTLSec)]]
        BY <3>1 DEF RequeueDead
      <4> QED BY <4>1
    <3>2. ASSUME NEW t, DeleteTopic(a, t) PROVE \E x : tx' = [tx EXCEPT ![a] = x]
      <4>1. tx' = [tx EXCEPT ![a] = [tx[a] EXCEPT !.pc = "channels", !.on = t,
                                       !.msgs = MessagesOf(t), !.ids = Cascaded(MessagesOf(t))]]
        BY <3>2 DEF DeleteTopic
      <4> QED BY <4>1
    <3>3. CASE DeleteTopicChannels(a)
      BY <3>3 DEF DeleteTopicChannels
    <3>4. ASSUME NEW c, DeleteChannel(a, c) PROVE \E x : tx' = [tx EXCEPT ![a] = x]
      <4>1. tx' = [tx EXCEPT ![a] = [tx[a] EXCEPT !.pc = "channel", !.on = c,
                                       !.ids = DeliveriesOf(c)]]
        BY <3>4 DEF DeleteChannel
      <4> QED BY <4>1
    <3> QED BY <1>19, <3>1, <3>2, <3>3, <3>4
  <2>2. deliveries' = deliveries /\ lastID' = lastID
    BY <1>19 DEF RequeueDead, DeleteTopic, DeleteTopicChannels, DeleteChannel
  <2> QED BY <1>a, <1>c, <1>d, <2>1, <2>2
<1>20. ASSUME NEW a \in Admins, RequeueDeadMessage(a) PROVE Goal
  BY <1>20, RequeueDeadMaps DEF Goal
<1>21. ASSUME NEW d, NEW c, DeleteDead(d, c) PROVE Goal
  <2>1. {d} \in SUBSET DOMAIN deliveries
    BY <1>21 DEF DeleteDead, DeliveriesOf
  <2> QED BY <1>21, <1>b, <1>e, <2>1 DEF DeleteDead
<1>22. ASSUME NEW a \in Admins, DeleteTopicRow(a) \/ DeleteChannelRow(a) PROVE Goal
  <2>1. tx' = [tx EXCEPT ![a] = Idle] /\ lastID' = lastID
    BY <1>22 DEF DeleteTopicRow, DeleteChannelRow
  <2>2. tx[a].ids \in SUBSET DOMAIN deliveries
    BY <1>0 DEF CallsOK, AdminOK
  <2>3. deliveries' = deliveries \/ deliveries' = Without(deliveries, tx[a].ids)
    BY <1>22 DEF DeleteTopicRow, DeleteChannelRow, tables
  <2> QED BY <1>a, <1>b, <1>c, <1>d, <2>1, <2>2, <2>3
<1>23. ASSUME NEW a \in Admins, Admin(a) PROVE Goal
  BY <1>19, <1>20, <1>21, <1>22, <1>23 DEF Admin
<1>24. ASSUME NEW s \in Sessions, Abort(s) PROVE Goal
  <2>1. /\ tx' = [tx EXCEPT ![s] = Idle] /\ lastID' = lastID /\ deliveries' = deliveries
        /\ tx[s].pc # "idle"
    BY <1>24 DEF Abort
  <2>2. CASE s \in Publishers
    BY <2>1, <2>2, PublishFails DEF Goal
  <2>3. CASE s \notin Publishers
    BY <1>a, <1>c, <2>1, <2>3
  <2> QED BY <2>2, <2>3
<1> QED BY <1>1, <1>2, <1>3, <1>6, <1>12, <1>18, <1>23, <1>24 DEF Next

(* driver/mysql and driver/postgres keep the promise of store.Store: their *)
(* committed tables behave as the lease queue, for any number of sessions  *)
(* and whichever statements of them interleave, fail or roll back.         *)
THEOREM RowLockImplementsQueue == Spec => ImplementsQueue
<1>1. Init => Queue!QueueInit
  <2> SUFFICES ASSUME Init PROVE Queue!QueueInit
    OBVIOUS
  <2>1. \A d \in DeliveryIDs : queueOfTable[d] = Queue!Absent("new")
    <3>1. \A d \in DeliveryIDs : MessageOf(d) \in Nat \ {0}
      BY DEF DeliveryIDs, MessageIDs, MessageOf
    <3>2. DOMAIN deliveries = {} /\ lastID.message = 0
      BY DEF Init
    <3>3. \A d \in DeliveryIDs : d \notin DOMAIN deliveries /\ ~UsedUp(d)
      BY <3>1, <3>2 DEF UsedUp
    <3> QED BY <3>3, QueueRows
  <2>2. queueOfTable = [d \in DeliveryIDs |-> Queue!Absent("new")]
    BY <2>1 DEF queueOfTable, DeliveryIDs, MessageIDs, ChannelIDs
  <2>3. lastID.lease = 0
    BY DEF Init
  <2> QED BY <2>2, <2>3 DEF Queue!QueueInit
<1>2. IInv /\ [Next]_vars => [Queue!QueueNext]_Queue!queueVars
  BY QueueStep
<1> QED
  BY <1>1, <1>2, CallsProtected, PTL DEF Spec, ImplementsQueue, Queue!QueueSpec
=============================================================================
