------------------------- MODULE SqliteStoreProofs --------------------------
(***************************************************************************)
(* Theorems about SqliteStore and SqliteQueue, for every value of their    *)
(* constants.                                                              *)
(***************************************************************************)
EXTENDS SqliteQueue, DeliveryTableProofs, FiniteSetTheorems

(* The delivery ids of an instance are finitely many: so is every set of   *)
(* rows a statement returns or a counter counts.                           *)
LEMMA DeliveryIDsFinite == IsFiniteSet(DeliveryIDs)
<1>1. IsFiniteSet(MessageIDs) /\ IsFiniteSet(ChannelIDs)
  BY FS_Interval, SqliteStoreAssumption DEF MessageIDs, ChannelIDs
<1> QED
  BY <1>1, FS_Product DEF DeliveryIDs

(* recordStat keeps the counters counters. *)
LEMMA RecordStatType ==
  ASSUME NEW cnt \in CounterTables, NEW kind \in StatKinds,
         NEW ids \in SUBSET DeliveryIDs
  PROVE  recordStat(cnt, kind, ids) \in CounterTables
<1>1. \A k : Cardinality({d \in ids : <<TopicOf(ChannelOf(d)), ChannelOf(d)>> = k}) \in Nat
  <2> TAKE k
  <2> DEFINE S == {d \in ids : <<TopicOf(ChannelOf(d)), ChannelOf(d)>> = k}
  <2>1. S \subseteq DeliveryIDs
    OBVIOUS
  <2>2. IsFiniteSet(S)
    BY <2>1, DeliveryIDsFinite, FS_Subset
  <2> HIDE DEF S
  <2>3. Cardinality(S) \in Nat
    BY <2>2, FS_CardinalityType
  <2> QED BY <2>3 DEF S
<1> DEFINE n(k) == Cardinality({d \in ids : <<TopicOf(ChannelOf(d)), ChannelOf(d)>> = k})
<1>2. \A k : n(k) \in Nat
  BY <1>1
<1>3. recordStat(cnt, kind, ids) =
        [k \in StatCoords |-> [cnt[k] EXCEPT ![kind] = cnt[k][kind] + n(k)]]
  BY DEF recordStat
<1> HIDE DEF n
<1> QED
  BY <1>2, <1>3 DEF CounterTables

(* Every step of the specification keeps the types, one case per action. *)
LEMMA TypeStep ==
  ASSUME TypeOK, [Next]_vars
  PROVE  TypeOK'
<1> USE SqliteStoreAssumption
<1> USE DEF TypeOK
<1>1. CASE UNCHANGED vars
  BY <1>1 DEF vars
<1>2. CASE Tick
  BY <1>2 DEF Tick
<1>3. ASSUME NEW name \in TopicNames, EnsureTopic(name) PROVE TypeOK'
  BY <1>3 DEF EnsureTopic, Commit, TopicIDs
<1>4. ASSUME NEW t \in TopicIDs, NEW name \in ChannelNames, EnsureChannel(t, name)
      PROVE  TypeOK'
  BY <1>4 DEF EnsureChannel, Commit, ChannelIDs
<1>5. ASSUME NEW t \in TopicIDs, NEW opts \in Opts, NEW nowUnix \in ClockReads,
             Publish(t, opts, nowUnix)
      PROVE  TypeOK'
  <2> DEFINE id     == lastID.message + 1
             expiry == ExpiresAt(opts, nowUnix)
             new    == {id} \X ChannelsOf(t)
             row    == NewRow(AvailableAt(opts, nowUnix), expiry, MaxAttemptsOf(opts))
  <2>1. opts \in PublishOpts /\ nowUnix \in Nat
    BY DEF ClockReads
  <2>2. /\ expiry \in Nat
        /\ AvailableAt(opts, nowUnix) \in Nat
        /\ MaxAttemptsOf(opts) \in Nat \ {0}
    BY <2>1, PublishTimes
  <2>3. row \in Delivery
    BY <2>2 DEF NewRow, Delivery, Status, NULL
  <2>4. id \in MessageIDs /\ new \subseteq DeliveryIDs
    BY <1>5 DEF Publish, MessageIDs, DeliveryIDs, ChannelsOf
  <2> HIDE DEF id, expiry, new, row
  <2>5. /\ lastID' = [lastID EXCEPT !.message = id]
        /\ messages' = [m \in DOMAIN messages \cup {id} |->
                          IF m = id THEN [topic_id |-> t, expires_at |-> expiry]
                                    ELSE messages[m]]
        /\ deliveries' = [d \in DOMAIN deliveries \cup new |->
                            IF d \in new THEN row ELSE deliveries[d]]
        /\ counters' = IF new = {}
                         THEN [counters EXCEPT ![<<t, 0>>]["publish"] = @ + 1]
                         ELSE recordStat(counters, "publish", new)
        /\ fresh' = {}
        /\ UNCHANGED <<now, topics, channels, claim, purge, issued, acked, requeued>>
    BY <1>5 DEF Publish, Commit, id, expiry, new, row
  <2>6. counters' \in CounterTables
    <3>1. CASE new = {}
      BY <2>5, <3>1 DEF CounterTables, StatCoords, StatKinds
    <3>2. CASE new # {}
      BY <2>4, <2>5, <3>2, RecordStatType DEF StatKinds
    <3> QED BY <3>1, <3>2
  <2>7. lastID' \in [topic : 0..MaxTopicID, channel : 0..MaxChannelID,
                    message : 0..MaxMessageID, lease : 0..MaxLeases]
    BY <2>4, <2>5 DEF MessageIDs
  <2>8. /\ DOMAIN messages' \subseteq MessageIDs
        /\ messages' \in [DOMAIN messages' -> [topic_id : TopicIDs, expires_at : Nat]]
    BY <2>2, <2>4, <2>5
  <2>9. /\ DOMAIN deliveries' \subseteq DeliveryIDs
        /\ deliveries' \in [DOMAIN deliveries' -> Delivery]
    BY <2>3, <2>4, <2>5
  <2> QED BY <2>5, <2>6, <2>7, <2>8, <2>9
<1>6. ASSUME NEW p \in Claimers, NEW c \in 1..lastID.channel, ClaimPoll(p, c)
      PROVE  TypeOK'
  <2>1. PICK ids \in Batches(ReadyIn(c), PollOrder, ClaimLimit) :
          \/ claim' = [claim EXCEPT ![p] = NoClaim] /\ fresh' = fresh \ {p}
          \/ /\ claim' = [claim EXCEPT ![p].pc = "polled",
                                        ![p].channel = c, ![p].ids = ids]
             /\ fresh' = fresh \cup {p}
    BY <1>6 DEF ClaimPoll
  <2>2. ids \subseteq DeliveryIDs
    BY DEF Batches, ReadyIn, DeliveriesOf
  <2>3. c \in 0..MaxChannelID
    OBVIOUS
  <2>4. claim' \in [Claimers -> ClaimCalls]
    BY <2>1, <2>2, <2>3 DEF ClaimCalls, NoClaim
  <2> QED BY <1>6, <2>1, <2>4 DEF ClaimPoll
<1>7. ASSUME NEW p \in Claimers, ClaimLease(p) PROVE TypeOK'
  <2> DEFINE token  == lastID.lease + 1
             leased == Leasable(claim[p].ids)
             New(d) == Leased(deliveries[d], token, now + LeaseSec)
             dead   == {d \in leased : New(d).status = "dead"}
  <2>1. token \in Nat /\ now + LeaseSec \in Nat
    OBVIOUS
  <2>2. token \in Tokens
    BY <1>7 DEF ClaimLease, Tokens
  <2>3. leased \subseteq DOMAIN deliveries /\ dead \subseteq leased
    BY DEF Leasable
  <2>4. \A d \in DOMAIN deliveries : New(d) \in Delivery
    BY <2>1, RowTypes
  <2>5. claim' = [claim EXCEPT ![p] = NoClaim]
    BY <1>7 DEF ClaimLease
  <2>6. claim' \in [Claimers -> ClaimCalls]
    BY <2>5 DEF NoClaim, ClaimCalls
  <2>7. UNCHANGED <<now, topics, channels, messages, purge, acked, requeued>>
    BY <1>7 DEF ClaimLease
  <2>8. CASE leased = {}
    <3>1. /\ fresh' = fresh \ {p}
          /\ UNCHANGED <<deliveries, lastID, counters, issued>>
      BY <1>7, <2>8 DEF ClaimLease
    <3> QED BY <2>6, <2>7, <3>1
  <2>9. CASE leased # {}
    <3> HIDE DEF leased, dead, New, token
    <3>1. /\ fresh' = {}
          /\ lastID' = [lastID EXCEPT !.lease = token]
          /\ deliveries' = [d \in DOMAIN deliveries |->
                              IF d \in leased THEN New(d) ELSE deliveries[d]]
          /\ counters' = recordStat(recordStat(counters, "claim", leased),
                                    "dead", dead)
          /\ issued' = issued \cup ((leased \ dead) \X {token})
      BY <1>7, <2>9 DEF ClaimLease, Commit, Updated, leased, dead, New, token
    <3>2. counters' \in CounterTables
      <4>1. recordStat(counters, "claim", leased) \in CounterTables
        BY <2>3, RecordStatType DEF StatKinds
      <4> QED BY <2>3, <3>1, <4>1, RecordStatType DEF StatKinds
    <3>3. deliveries' \in [DOMAIN deliveries' -> Delivery]
      BY <2>4, <3>1
    <3>4. lastID' \in [topic : 0..MaxTopicID, channel : 0..MaxChannelID,
                      message : 0..MaxMessageID, lease : 0..MaxLeases]
      BY <2>2, <3>1 DEF Tokens
    <3>5. issued' \subseteq DeliveryIDs \X Tokens /\ issued \subseteq issued'
      BY <2>2, <2>3, <3>1
    <3> QED BY <2>6, <2>7, <3>1, <3>2, <3>3, <3>4, <3>5
  <2> QED BY <2>8, <2>9
<1>8. ASSUME NEW p \in Claimers, ClaimBusy(p) PROVE TypeOK'
  <2>1. claim' \in [Claimers -> ClaimCalls]
    BY <1>8 DEF ClaimBusy, ClaimCalls, NoClaim, MayRetry
  <2> QED BY <1>8, <2>1 DEF ClaimBusy
<1>9. ASSUME NEW p \in Claimers, ClaimAbort(p) PROVE TypeOK'
  BY <1>9 DEF ClaimAbort, ClaimCalls, NoClaim
<1>10. ASSUME NEW i \in issued, Ack(i[1], i[2]) PROVE TypeOK'
  <2>1. i[1] \in DOMAIN deliveries /\ i = <<i[1], i[2]>>
    BY <1>10 DEF Ack, HoldsLease
  <2>2. counters' \in CounterTables
    BY <1>10, <2>1, RecordStatType DEF Ack, StatKinds
  <2>3. /\ DOMAIN deliveries' \subseteq DeliveryIDs
        /\ deliveries' \in [DOMAIN deliveries' -> Delivery]
    BY <1>10 DEF Ack, Without
  <2> QED BY <1>10, <2>1, <2>2, <2>3 DEF Ack, Commit
<1>11. ASSUME NEW i \in issued, NEW at \in RequeueAt, Requeue(i[1], i[2], at)
       PROVE  TypeOK'
  <2>1. i[1] \in DOMAIN deliveries
    BY <1>11 DEF Requeue, HoldsLease
  <2>2. counters' \in CounterTables
    BY <1>11, <2>1, RecordStatType DEF Requeue, StatKinds
  <2> DEFINE a == IF at = 0 THEN now ELSE at
  <2>3. deliveries' = [deliveries EXCEPT ![i[1]] = Released(deliveries[i[1]], a)]
    BY <1>11 DEF Requeue
  <2>a. a \in Nat
    OBVIOUS
  <2> HIDE DEF a
  <2>4. Released(deliveries[i[1]], a) \in Delivery
    BY <2>1, <2>a, RowTypes
  <2>5. /\ DOMAIN deliveries' \subseteq DeliveryIDs
        /\ deliveries' \in [DOMAIN deliveries' -> Delivery]
    BY <2>1, <2>3, <2>4
  <2> QED BY <1>11, <2>2, <2>5 DEF Requeue, Commit
<1>12. CASE ReapExpiredLeases
  <2>1. PICK ids : deliveries' = Updated(ids, LAMBDA d : Released(deliveries[d], now))
    BY <1>12 DEF ReapExpiredLeases
  <2>2. \A d \in DOMAIN deliveries : Released(deliveries[d], now) \in Delivery
    BY RowTypes
  <2>3. deliveries' \in [DOMAIN deliveries' -> Delivery] /\ DOMAIN deliveries' = DOMAIN deliveries
    BY <2>1, <2>2 DEF Updated
  <2> QED BY <1>12, <2>3 DEF ReapExpiredLeases, Commit
<1>13. ASSUME NEW q \in Purgers, PurgeSelect(q) PROVE TypeOK'
  <2>1. PICK ids \in Batches(Doomed, PurgeOrder, PurgeLimit) :
          purge' = [purge EXCEPT ![q].pc = IF ids = {} THEN "orphans" ELSE "delete",
                                 ![q].ids = ids]
    BY <1>13 DEF PurgeSelect
  <2>2. ids \subseteq DeliveryIDs
    BY DEF Batches, Doomed
  <2>3. purge' \in [Purgers -> PurgeCalls]
    BY <2>1, <2>2, ZenonT(30) DEF PurgeCalls
  <2> QED BY <1>13, <2>3 DEF PurgeSelect
<1>14. ASSUME NEW q \in Purgers, PurgeDelete(q) PROVE TypeOK'
  <2> DEFINE gone == StillDoomed(purge[q].ids)
  <2>1. gone \subseteq DeliveryIDs
    BY DEF StillDoomed, Doomed
  <2> HIDE DEF gone
  <2>2. counters' \in CounterTables
    BY <1>14, <2>1, RecordStatType DEF PurgeDelete, StatKinds, gone
  <2>3. /\ DOMAIN deliveries' \subseteq DeliveryIDs
        /\ deliveries' \in [DOMAIN deliveries' -> Delivery]
    BY <1>14 DEF PurgeDelete, Without
  <2>4. purge' \in [Purgers -> PurgeCalls]
    BY <1>14, ZenonT(30) DEF PurgeDelete, PurgeCalls
  <2> QED BY <1>14, <2>2, <2>3, <2>4 DEF PurgeDelete
<1>15. ASSUME NEW q \in Purgers, PurgeSelectOrphans(q) PROVE TypeOK'
  <2>1. PICK ms \in Batches(Orphans, OrphanOrder, PurgeLimit) :
          purge' = [purge EXCEPT ![q] =
                      IF ms = {} THEN NoPurge
                      ELSE [pc |-> "delete_orphans", ids |-> {}, msgs |-> ms]]
    BY <1>15 DEF PurgeSelectOrphans
  <2>2. ms \subseteq MessageIDs
    BY DEF Batches, Orphans
  <2>3. purge' \in [Purgers -> PurgeCalls]
    BY <2>1, <2>2 DEF PurgeCalls, NoPurge
  <2> QED BY <1>15, <2>3 DEF PurgeSelectOrphans
<1>16. ASSUME NEW q \in Purgers, PurgeDeleteOrphans(q) PROVE TypeOK'
  <2>1. purge' \in [Purgers -> PurgeCalls]
    BY <1>16 DEF PurgeDeleteOrphans, PurgeCalls, NoPurge
  <2> QED BY <1>16, <2>1 DEF PurgeDeleteOrphans, Without
<1>17. ASSUME NEW q \in Purgers, PurgeAbort(q) PROVE TypeOK'
  BY <1>17 DEF PurgeAbort, NoPurge, PurgeCalls
<1>18. ASSUME NEW d \in DeliveryIDs, NEW c \in ChannelIDs,
              NEW nowUnix \in ClockReads, RequeueDead(d, c, nowUnix)
       PROVE  TypeOK'
  <2>1. d \in DOMAIN deliveries /\ nowUnix \in Nat
    BY <1>18 DEF RequeueDead, ClockReads
  <2>2. counters' \in CounterTables
    BY <1>18, <2>1, RecordStatType DEF RequeueDead, StatKinds
  <2>3. Revived(deliveries[d], nowUnix, FreshTTLSec) \in Delivery
    BY <2>1, RowTypes
  <2>4. /\ DOMAIN deliveries' \subseteq DeliveryIDs
        /\ deliveries' \in [DOMAIN deliveries' -> Delivery]
    BY <1>18, <2>1, <2>3 DEF RequeueDead
  <2>5. now + FreshTTLSec \in Nat
    OBVIOUS
  <2>6. /\ DOMAIN messages' \subseteq MessageIDs
        /\ messages' \in [DOMAIN messages' -> [topic_id : TopicIDs, expires_at : Nat]]
    <3> DEFINE m == MessageOf(d)
               e == now + FreshTTLSec
    <3> HIDE DEF m, e
    <3>1. messages' = [messages EXCEPT ![m] = [messages[m] EXCEPT !.expires_at = e]]
      BY <1>18 DEF RequeueDead, m, e
    <3>2. m \in DOMAIN messages =>
            [messages[m] EXCEPT !.expires_at = e] \in [topic_id : TopicIDs, expires_at : Nat]
      BY <2>5 DEF e
    <3> QED BY <3>1, <3>2
  <2> QED BY <1>18, <2>2, <2>4, <2>6 DEF RequeueDead, Commit
<1>19. ASSUME NEW d \in DeliveryIDs, NEW c \in ChannelIDs, DeleteDead(d, c)
       PROVE  TypeOK'
  <2>1. counters' \in CounterTables
    BY <1>19, RecordStatType DEF DeleteDead, StatKinds
  <2> QED BY <1>19, <2>1 DEF DeleteDead, Without, Commit
<1>20. ASSUME NEW t \in TopicIDs, DeleteTopic(t) PROVE TypeOK'
  <2>1. counters' \in CounterTables
    BY <1>20 DEF DeleteTopic, DiscardStats, CounterTables
  <2>2. /\ DOMAIN deliveries' \subseteq DeliveryIDs
        /\ deliveries' \in [DOMAIN deliveries' -> Delivery]
    BY <1>20 DEF DeleteTopic, Without
  <2>3. /\ DOMAIN messages' \subseteq MessageIDs
        /\ messages' \in [DOMAIN messages' -> [topic_id : TopicIDs, expires_at : Nat]]
    BY <1>20 DEF DeleteTopic, Without
  <2>4. /\ DOMAIN channels' \subseteq ChannelIDs
        /\ channels' \in [DOMAIN channels' -> [topic_id : TopicIDs, name : ChannelNames]]
    BY <1>20 DEF DeleteTopic, Without
  <2>5. /\ DOMAIN topics' \subseteq TopicIDs
        /\ topics' \in [DOMAIN topics' -> TopicNames]
    BY <1>20 DEF DeleteTopic, Without
  <2> QED BY <1>20, <2>1, <2>2, <2>3, <2>4, <2>5 DEF DeleteTopic, Commit
<1>21. ASSUME NEW c \in ChannelIDs, DeleteChannel(c) PROVE TypeOK'
  <2>1. counters' \in CounterTables
    BY <1>21 DEF DeleteChannel, DiscardStats, CounterTables
  <2> QED BY <1>21, <2>1 DEF DeleteChannel, Without, Commit
<1> QED
  BY <1>1, <1>2, <1>3, <1>4, <1>5, <1>6, <1>7, <1>8, <1>9, <1>10, <1>11, <1>12,
     <1>13, <1>14, <1>15, <1>16, <1>17, <1>18, <1>19, <1>20, <1>21
  DEF Next, Topology, Publishing, Consuming, Maintenance, Purging, Admin

(* Every reachable state is well typed: no statement, in whatever order    *)
(* the callers' statements run, writes a row the schema does not allow, a  *)
(* counter below zero, or leaves a call outside its program points.        *)
THEOREM TypeCorrect == Spec => []TypeOK
<1>1. Init => TypeOK
  BY SqliteStoreAssumption
  DEF Init, TypeOK, CounterTables, ClaimCalls, PurgeCalls, NoClaim, NoPurge
<1>2. TypeOK /\ [Next]_vars => TypeOK'
  BY TypeStep
<1> QED BY <1>1, <1>2, PTL DEF Spec

----------------------------------------------------------------------------
(* The life of a row.  The steps below are all that can happen to one.     *)

Kept(d) == d \in DOMAIN deliveries /\ deliveries'[d] = deliveries[d]

Inserted(d) ==
  /\ MessageOf(d) = lastID.message + 1
  /\ lastID'.message = lastID.message + 1
  /\ \E a, e \in Nat, n \in Nat \ {0} : deliveries'[d] = NewRow(a, e, n)

LeasedOrBuried(d) ==
  /\ d \in DOMAIN deliveries
  /\ Ready(deliveries[d], now)
  /\ deliveries'[d] = Leased(deliveries[d], lastID.lease + 1, now + LeaseSec)
  /\ lastID'.lease = lastID.lease + 1
  /\ deliveries'[d].status = "in_flight" => <<d, lastID.lease + 1>> \in issued'

LeaseReturned(d) ==
  /\ d \in DOMAIN deliveries
  /\ deliveries[d].status = "in_flight"
  /\ \E a \in Nat : deliveries'[d] = Released(deliveries[d], a)

Resurrected(d) ==
  /\ d \in DOMAIN deliveries
  /\ deliveries[d].status = "dead"
  /\ \E t \in Nat : deliveries'[d] = Revived(deliveries[d], t, FreshTTLSec)

RowStep(d) == \/ Kept(d) \/ Inserted(d) \/ LeasedOrBuried(d)
              \/ LeaseReturned(d) \/ Resurrected(d)

(* Whatever step is taken, a row of the new table was there before and is  *)
(* unchanged, or was just inserted under a new message id, leased out of   *)
(* pending inside its window, released out of in_flight or revived out of  *)
(* dead.                                                                   *)
LEMMA RowSteps ==
  ASSUME TypeOK, [Next]_vars
  PROVE  \A d \in DOMAIN deliveries' : RowStep(d)
<1> USE SqliteStoreAssumption
<1>a. CASE deliveries' = deliveries
  BY <1>a DEF RowStep, Kept
<1>b. ASSUME NEW S, deliveries' = Without(deliveries, S)
      PROVE  \A d \in DOMAIN deliveries' : RowStep(d)
  BY <1>b DEF RowStep, Kept, Without
<1>1. CASE UNCHANGED vars
  BY <1>1, <1>a DEF vars
<1>2. CASE Tick
  BY <1>2, <1>a DEF Tick
<1>3. CASE Topology
  BY <1>3, <1>a DEF Topology, EnsureTopic, EnsureChannel
<1>4. ASSUME NEW t \in TopicIDs, NEW opts \in Opts, NEW nowUnix \in ClockReads,
             Publish(t, opts, nowUnix)
      PROVE  \A d \in DOMAIN deliveries' : RowStep(d)
  <2> DEFINE id     == lastID.message + 1
             a      == AvailableAt(opts, nowUnix)
             e      == ExpiresAt(opts, nowUnix)
             n      == MaxAttemptsOf(opts)
             new    == {id} \X ChannelsOf(t)
  <2>1. opts \in PublishOpts /\ nowUnix \in Nat
    BY DEF ClockReads, TypeOK
  <2>2. a \in Nat /\ e \in Nat /\ n \in Nat \ {0}
    BY <2>1, PublishTimes
  <2>3. /\ lastID' = [lastID EXCEPT !.message = id]
        /\ deliveries' = [d \in DOMAIN deliveries \cup new |->
                            IF d \in new THEN NewRow(a, e, n) ELSE deliveries[d]]
    BY <1>4 DEF Publish
  <2>4. \A d \in new : MessageOf(d) = id
    BY DEF MessageOf
  <2>5. lastID'.message = id
    BY <2>3 DEF TypeOK
  <2> HIDE DEF id, a, e, n, new
  <2> SUFFICES ASSUME NEW d \in DOMAIN deliveries' PROVE RowStep(d)
    OBVIOUS
  <2>6. CASE d \in new
    <3>1. deliveries'[d] = NewRow(a, e, n)
      BY <2>3, <2>6
    <3> QED BY <2>2, <2>4, <2>5, <2>6, <3>1 DEF RowStep, Inserted, id
  <2>7. CASE d \notin new
    BY <2>3, <2>7 DEF RowStep, Kept
  <2> QED BY <2>6, <2>7
<1>5. ASSUME NEW p \in Claimers, NEW c, ClaimPoll(p, c) \/ ClaimBusy(p) \/ ClaimAbort(p)
      PROVE  \A d \in DOMAIN deliveries' : RowStep(d)
  BY <1>5, <1>a DEF ClaimPoll, ClaimBusy, ClaimAbort
<1>6. ASSUME NEW p \in Claimers, ClaimLease(p)
      PROVE  \A d \in DOMAIN deliveries' : RowStep(d)
  <2> DEFINE token  == lastID.lease + 1
             leased == Leasable(claim[p].ids)
             New(d) == Leased(deliveries[d], token, now + LeaseSec)
             dead   == {d \in leased : New(d).status = "dead"}
  <2>1. CASE leased = {}
    BY <1>6, <1>a, <2>1 DEF ClaimLease
  <2>2. CASE leased # {}
    <3>1. /\ lastID' = [lastID EXCEPT !.lease = token]
          /\ deliveries' = [d \in DOMAIN deliveries |->
                              IF d \in leased THEN New(d) ELSE deliveries[d]]
          /\ issued' = issued \cup ((leased \ dead) \X {token})
      BY <1>6, <2>2 DEF ClaimLease, Updated
    <3>2. lastID'.lease = token
      BY <3>1 DEF TypeOK
    <3> SUFFICES ASSUME NEW d \in DOMAIN deliveries' PROVE RowStep(d)
      OBVIOUS
    <3>3. d \in DOMAIN deliveries
      BY <3>1
    <3>4. CASE d \in leased
      <4>1. Ready(deliveries[d], now)
        BY <3>4 DEF Leasable
      <4>2. deliveries'[d] = New(d)
        BY <3>1, <3>3, <3>4
      <4>3. New(d).status = "in_flight" => d \notin dead
        OBVIOUS
      <4>4. deliveries'[d].status = "in_flight" => <<d, token>> \in issued'
        BY <3>1, <3>4, <4>2, <4>3
      <4> QED BY <3>2, <3>3, <4>1, <4>2, <4>4 DEF RowStep, LeasedOrBuried
    <3>5. CASE d \notin leased
      BY <3>1, <3>3, <3>5 DEF RowStep, Kept
    <3> QED BY <3>4, <3>5
  <2> QED BY <2>1, <2>2
<1>7. ASSUME NEW i \in issued, Ack(i[1], i[2])
      PROVE  \A d \in DOMAIN deliveries' : RowStep(d)
  BY <1>7, <1>b DEF Ack
<1>8. ASSUME NEW i \in issued, NEW at \in RequeueAt, Requeue(i[1], i[2], at)
      PROVE  \A d \in DOMAIN deliveries' : RowStep(d)
  <2> DEFINE a == IF at = 0 THEN now ELSE at
  <2>1. a \in Nat
    BY DEF TypeOK
  <2>2. deliveries' = [deliveries EXCEPT ![i[1]] = Released(deliveries[i[1]], a)]
    BY <1>8 DEF Requeue
  <2>3. deliveries[i[1]].status = "in_flight" /\ i[1] \in DOMAIN deliveries
    BY <1>8 DEF Requeue, HoldsLease
  <2> HIDE DEF a
  <2> QED BY <2>1, <2>2, <2>3 DEF RowStep, Kept, LeaseReturned
<1>9. CASE ReapExpiredLeases
  <2>1. PICK ids \in Batches(LapsedLeases, ReapOrder, ReapLimit) :
          deliveries' = Updated(ids, LAMBDA d : Released(deliveries[d], now))
    BY <1>9 DEF ReapExpiredLeases
  <2>2. \A d \in ids : d \in DOMAIN deliveries /\ deliveries[d].status = "in_flight"
    BY DEF Batches, LapsedLeases, LeaseLapsed
  <2>3. now \in Nat
    BY DEF TypeOK
  <2> QED BY <2>1, <2>2, <2>3 DEF Updated, RowStep, Kept, LeaseReturned
<1>10. ASSUME NEW q \in Purgers,
              PurgeSelect(q) \/ PurgeSelectOrphans(q) \/ PurgeAbort(q)
       PROVE  \A d \in DOMAIN deliveries' : RowStep(d)
  BY <1>10, <1>a DEF PurgeSelect, PurgeSelectOrphans, PurgeAbort
<1>11. ASSUME NEW q \in Purgers, PurgeDelete(q) \/ PurgeDeleteOrphans(q)
       PROVE  \A d \in DOMAIN deliveries' : RowStep(d)
  BY <1>11, <1>b DEF PurgeDelete, PurgeDeleteOrphans
<1>12. ASSUME NEW d \in DeliveryIDs, NEW c \in ChannelIDs, NEW nowUnix \in ClockReads,
              RequeueDead(d, c, nowUnix)
       PROVE  \A x \in DOMAIN deliveries' : RowStep(x)
  <2>1. nowUnix \in Nat
    BY DEF ClockReads, TypeOK
  <2> QED BY <1>12, <2>1 DEF RequeueDead, RowStep, Kept, Resurrected
<1>13. ASSUME NEW d \in DeliveryIDs, NEW c \in ChannelIDs, DeleteDead(d, c)
       PROVE  \A x \in DOMAIN deliveries' : RowStep(x)
  BY <1>13, <1>b DEF DeleteDead
<1>14. ASSUME NEW t \in TopicIDs, DeleteTopic(t)
       PROVE  \A x \in DOMAIN deliveries' : RowStep(x)
  BY <1>14, <1>b DEF DeleteTopic
<1>15. ASSUME NEW c \in ChannelIDs, DeleteChannel(c)
       PROVE  \A x \in DOMAIN deliveries' : RowStep(x)
  BY <1>15, <1>b DEF DeleteChannel
<1> QED
  BY <1>1, <1>2, <1>3, <1>4, <1>5, <1>6, <1>7, <1>8, <1>9, <1>10, <1>11, <1>12,
     <1>13, <1>14, <1>15
  DEF Next, Publishing, Consuming, Maintenance, Purging, Admin

(* For every delivery, attempts and max_attempts: a handler is never given *)
(* a delivery more than max_attempts times in one life, and what is dead   *)
(* got there by exactly one claim too many.                                *)
THEOREM PoisonBounded == Spec => []PoisonBound
<1>1. Init => PoisonBound
  BY DEF Init, PoisonBound
<1>2. TypeOK /\ PoisonBound /\ [Next]_vars => PoisonBound'
  <2> SUFFICES ASSUME TypeOK, PoisonBound, [Next]_vars,
                      NEW d \in DOMAIN deliveries'
               PROVE  AttemptsInBounds(deliveries'[d])
    BY DEF PoisonBound
  <2>0. \A x \in DOMAIN deliveries :
          deliveries[x] \in Delivery /\ AttemptsInBounds(deliveries[x])
    BY DEF TypeOK, PoisonBound
  <2>1. CASE Kept(d)
    BY <2>0, <2>1 DEF Kept
  <2>2. CASE Inserted(d)
    <3>1. PICK a \in Nat, e \in Nat, n \in Nat \ {0} : deliveries'[d] = NewRow(a, e, n)
      BY <2>2 DEF Inserted
    <3> QED BY <3>1 DEF NewRow, AttemptsInBounds
  <2>3. CASE LeasedOrBuried(d)
    <3> DEFINE r == deliveries[d]
               s == deliveries'[d]
    <3>1. /\ r \in Delivery /\ AttemptsInBounds(r) /\ r.status = "pending"
          /\ s = Leased(r, lastID.lease + 1, now + LeaseSec)
      BY <2>0, <2>3 DEF LeasedOrBuried, Ready
    <3> HIDE DEF r, s
    <3>2. /\ r.attempts \in Nat /\ r.max_attempts \in Nat \ {0}
          /\ r.attempts <= r.max_attempts
      BY <3>1 DEF AttemptsInBounds, Delivery
    <3>3. /\ s.attempts = r.attempts + 1 /\ s.max_attempts = r.max_attempts
          /\ s.status = IF r.attempts + 1 > r.max_attempts THEN "dead" ELSE "in_flight"
      BY <3>1 DEF Leased, Delivery
    <3>4. AttemptsInBounds(s)
      BY <3>2, <3>3 DEF AttemptsInBounds
    <3> QED BY <3>4 DEF s
  <2>4. CASE LeaseReturned(d)
    <3> DEFINE r == deliveries[d]
               s == deliveries'[d]
    <3>1. PICK a \in Nat : s = Released(r, a)
      BY <2>4 DEF LeaseReturned
    <3>2. r \in Delivery /\ AttemptsInBounds(r) /\ r.status = "in_flight"
      BY <2>0, <2>4 DEF LeaseReturned
    <3> HIDE DEF r, s
    <3>3. /\ s.attempts = r.attempts /\ s.max_attempts = r.max_attempts
          /\ s.status = "pending"
      BY <3>1, <3>2 DEF Released, Delivery
    <3>4. AttemptsInBounds(s)
      BY <3>2, <3>3 DEF AttemptsInBounds, Delivery
    <3> QED BY <3>4 DEF s
  <2>5. CASE Resurrected(d)
    <3> DEFINE r == deliveries[d]
               s == deliveries'[d]
    <3>1. PICK t \in Nat : s = Revived(r, t, FreshTTLSec)
      BY <2>5 DEF Resurrected
    <3>2. r \in Delivery
      BY <2>0, <2>5 DEF Resurrected
    <3> HIDE DEF r, s
    <3>3. /\ s.attempts = 0 /\ s.max_attempts = r.max_attempts /\ s.status = "pending"
      BY <3>1, <3>2 DEF Revived, Delivery
    <3>4. AttemptsInBounds(s)
      BY <3>2, <3>3 DEF AttemptsInBounds, Delivery
    <3> QED BY <3>4 DEF s
  <2> QED
    BY RowSteps, <2>1, <2>2, <2>3, <2>4, <2>5 DEF RowStep
<1> QED BY <1>1, <1>2, TypeCorrect, PTL DEF Spec

----------------------------------------------------------------------------
(* Leases and acks. *)

NewlyIssued(i) ==
  /\ i = <<i[1], lastID.lease + 1>>
  /\ i[1] \in DOMAIN deliveries /\ i[1] \in DOMAIN deliveries'
  /\ deliveries[i[1]].status = "pending"
  /\ lastID'.lease = lastID.lease + 1

NewlyAcked(a) ==
  /\ a \in issued
  /\ HoldsLease(a[1], a[2])
  /\ a[1] \notin DOMAIN deliveries'

(* Sequences only grow; tokens are handed out for rows that were pending;  *)
(* an ack needs the current token and removes the row.                     *)
LEMMA LeaseSteps ==
  ASSUME TypeOK, [Next]_vars
  PROVE  /\ lastID'.lease >= lastID.lease
         /\ lastID'.message >= lastID.message
         /\ issued \subseteq issued'
         /\ \A i \in issued' : i \in issued \/ NewlyIssued(i)
         /\ \A a \in acked' : a \in acked \/ NewlyAcked(a)
<1> DEFINE Goal == /\ lastID'.lease >= lastID.lease
                   /\ lastID'.message >= lastID.message
                   /\ issued \subseteq issued'
                   /\ \A i \in issued' : i \in issued \/ NewlyIssued(i)
                   /\ \A a \in acked' : a \in acked \/ NewlyAcked(a)
<1> SUFFICES Goal
  OBVIOUS
<1>0. lastID.lease \in Nat /\ lastID.message \in Nat
  BY SqliteStoreAssumption DEF TypeOK
<1>a. CASE UNCHANGED <<lastID, issued, acked>>
  BY <1>0, <1>a
<1>1. CASE UNCHANGED vars
  BY <1>1, <1>a DEF vars
<1>2. CASE Tick
  BY <1>2, <1>a DEF Tick
<1>3. CASE Topology
  <2>1. /\ lastID'.lease = lastID.lease /\ lastID'.message = lastID.message
        /\ UNCHANGED <<issued, acked>>
    BY <1>3 DEF Topology, EnsureTopic, EnsureChannel, TypeOK
  <2> QED BY <1>0, <2>1
<1>4. CASE Publishing
  <2>1. /\ lastID'.lease = lastID.lease /\ lastID'.message = lastID.message + 1
        /\ UNCHANGED <<issued, acked>>
    BY <1>4 DEF Publishing, Publish, TypeOK
  <2> QED BY <1>0, <2>1
<1>5. ASSUME NEW p \in Claimers, NEW c, ClaimPoll(p, c) \/ ClaimBusy(p) \/ ClaimAbort(p)
      PROVE  Goal
  BY <1>5, <1>a DEF ClaimPoll, ClaimBusy, ClaimAbort
<1>6. ASSUME NEW p \in Claimers, ClaimLease(p) PROVE Goal
  <2> DEFINE token  == lastID.lease + 1
             leased == Leasable(claim[p].ids)
             New(d) == Leased(deliveries[d], token, now + LeaseSec)
             dead   == {d \in leased : New(d).status = "dead"}
  <2>1. CASE leased = {}
    BY <1>6, <1>a, <2>1 DEF ClaimLease
  <2>2. CASE leased # {}
    <3>1. /\ lastID' = [lastID EXCEPT !.lease = token]
          /\ DOMAIN deliveries' = DOMAIN deliveries
          /\ issued' = issued \cup ((leased \ dead) \X {token})
          /\ acked' = acked
      BY <1>6, <2>2 DEF ClaimLease, Updated
    <3>2. lastID'.lease = token /\ lastID'.message = lastID.message
      BY <3>1 DEF TypeOK
    <3>3. \A d \in leased : d \in DOMAIN deliveries /\ deliveries[d].status = "pending"
      BY DEF Leasable, Ready
    <3>4. \A i \in issued' : i \in issued \/ NewlyIssued(i)
      BY <3>1, <3>2, <3>3 DEF NewlyIssued
    <3> QED BY <1>0, <3>1, <3>2, <3>4
  <2> QED BY <2>1, <2>2
<1>7. ASSUME NEW i \in issued, Ack(i[1], i[2]) PROVE Goal
  <2>1. i = <<i[1], i[2]>>
    BY DEF TypeOK
  <2>2. /\ acked' = acked \cup {i}
        /\ i[1] \notin DOMAIN deliveries'
        /\ HoldsLease(i[1], i[2])
        /\ UNCHANGED <<lastID, issued>>
    BY <1>7, <2>1 DEF Ack, Without
  <2> QED BY <1>0, <2>2 DEF NewlyAcked
<1>8. ASSUME NEW i \in issued, NEW at \in RequeueAt, Requeue(i[1], i[2], at) PROVE Goal
  BY <1>8, <1>a DEF Requeue
<1>9. CASE Maintenance
  BY <1>9, <1>a DEF Maintenance, Purging, ReapExpiredLeases, PurgeSelect, PurgeDelete,
                    PurgeSelectOrphans, PurgeDeleteOrphans, PurgeAbort
<1>10. CASE Admin
  BY <1>10, <1>a DEF Admin, RequeueDead, DeleteDead, DeleteTopic, DeleteChannel
<1> QED
  BY <1>1, <1>2, <1>3, <1>4, <1>5, <1>6, <1>7, <1>8, <1>9, <1>10
  DEF Next, Consuming

(* Nothing carries an id or a token that was not handed out yet. *)
IDsHandedOut ==
  /\ \A d \in DOMAIN deliveries : MessageOf(d) <= lastID.message
  /\ \A i \in issued : i[2] <= lastID.lease /\ MessageOf(i[1]) <= lastID.message

(* The invariant behind the lease theorems: the two properties are only    *)
(* inductive together with the bound on what the sequences handed out.     *)
FencingInv == IDsHandedOut /\ LeaseFencing /\ AckIsFinal

(* Claims, acks, requeues, reaps and cascades preserve FencingInv: only a  *)
(* claim adds tokens, and it takes a new one from the sequence.            *)
LEMMA FencingStep ==
  ASSUME TypeOK, FencingInv, [Next]_vars
  PROVE  FencingInv'
<1> USE SqliteStoreAssumption
<1>0. /\ lastID.lease \in Nat /\ lastID.message \in Nat /\ now \in Nat
      /\ lastID'.lease \in Int /\ lastID'.message \in Int
  BY TypeStep DEF TypeOK
<1>1. \A d \in DOMAIN deliveries : deliveries[d] \in Delivery /\ MessageOf(d) \in Nat
  BY DEF TypeOK, DeliveryIDs, MessageIDs, MessageOf
<1>2. \A i \in issued : /\ i = <<i[1], i[2]>> /\ i[2] \in Nat
                        /\ MessageOf(i[1]) \in Nat
  BY DEF TypeOK, DeliveryIDs, MessageIDs, MessageOf, Tokens
<1>3. IDsHandedOut'
  <2>1. \A d \in DOMAIN deliveries' : MessageOf(d) <= lastID'.message
    <3> SUFFICES ASSUME NEW d \in DOMAIN deliveries' PROVE MessageOf(d) <= lastID'.message
      OBVIOUS
    <3>1. CASE d \in DOMAIN deliveries
      BY <1>0, <1>1, <3>1, LeaseSteps DEF FencingInv, IDsHandedOut
    <3>2. CASE Inserted(d)
      BY <1>0, <3>2 DEF Inserted
    <3> QED
      BY <3>1, <3>2, RowSteps
      DEF RowStep, Kept, LeasedOrBuried, LeaseReturned, Resurrected
  <2>2. \A i \in issued' : i[2] <= lastID'.lease /\ MessageOf(i[1]) <= lastID'.message
    <3> SUFFICES ASSUME NEW i \in issued'
                 PROVE  i[2] <= lastID'.lease /\ MessageOf(i[1]) <= lastID'.message
      OBVIOUS
    <3>1. CASE i \in issued
      BY <1>0, <1>2, <3>1, LeaseSteps DEF FencingInv, IDsHandedOut
    <3>2. CASE NewlyIssued(i)
      <4>1. i[2] = lastID.lease + 1 /\ i[1] \in DOMAIN deliveries
        BY <3>2 DEF NewlyIssued
      <4>2. i[2] <= lastID'.lease
        BY <1>0, <3>2, <4>1 DEF NewlyIssued
      <4>3. MessageOf(i[1]) <= lastID'.message
        BY <1>0, <1>1, <4>1, LeaseSteps DEF FencingInv, IDsHandedOut
      <4> QED BY <4>2, <4>3
    <3> QED BY <3>1, <3>2, LeaseSteps
  <2> QED BY <2>1, <2>2 DEF IDsHandedOut
<1>4. LeaseFencing'
  <2> SUFFICES ASSUME NEW d \in DOMAIN deliveries'
               PROVE  /\ LeaseColumns(deliveries'[d])
                      /\ deliveries'[d].status = "in_flight" =>
                           /\ <<d, deliveries'[d].lease_token>> \in issued'
                           /\ \A i \in issued' : i[1] = d => i[2] <= deliveries'[d].lease_token
    BY DEF LeaseFencing, LeaseColumns
  <2> DEFINE r == deliveries[d]
             s == deliveries'[d]
  <2>1. CASE Kept(d)
    <3>1. /\ LeaseColumns(r)
          /\ r.status = "in_flight" =>
               /\ <<d, r.lease_token>> \in issued
               /\ \A i \in issued : i[1] = d => i[2] <= r.lease_token
      BY <2>1 DEF Kept, FencingInv, LeaseFencing
    <3>2. r.status = "in_flight" => \A i \in issued' : i[1] = d => i \in issued
      BY LeaseSteps DEF NewlyIssued
    <3> QED BY <2>1, <3>1, <3>2, LeaseSteps DEF Kept
  <2>2. CASE Inserted(d)
    <3>1. PICK a \in Nat, e \in Nat, n \in Nat \ {0} : s = NewRow(a, e, n)
      BY <2>2 DEF Inserted
    <3>2. s.status = "pending" /\ s.lease_token = 0 /\ s.lease_until = 0
      BY <3>1 DEF NewRow, NULL
    <3> QED BY <3>2 DEF LeaseColumns, NULL
  <2>3. CASE LeasedOrBuried(d)
    <3>1. r \in Delivery /\ s = Leased(r, lastID.lease + 1, now + LeaseSec)
      BY <1>1, <2>3 DEF LeasedOrBuried
    <3> HIDE DEF r, s
    <3>2. \/ s.status = "dead" /\ s.lease_token = 0 /\ s.lease_until = 0
          \/ /\ s.status = "in_flight" /\ s.lease_token = lastID.lease + 1
             /\ s.lease_until = now + LeaseSec
      BY <3>1 DEF Leased, Delivery, NULL
    <3>3. LeaseColumns(s)
      BY <1>0, <3>2 DEF LeaseColumns, NULL
    <3>4. \A i \in issued' : i[1] = d => i[2] <= lastID.lease + 1
      BY <1>0, <1>2, LeaseSteps DEF NewlyIssued, FencingInv, IDsHandedOut
    <3> QED BY <2>3, <3>2, <3>3, <3>4 DEF LeasedOrBuried, s
  <2>4. CASE LeaseReturned(d)
    <3>1. PICK a \in Nat : s = Released(r, a)
      BY <2>4 DEF LeaseReturned
    <3>2. r \in Delivery
      BY <1>1, <2>4 DEF LeaseReturned
    <3> HIDE DEF r, s
    <3>3. s.status = "pending" /\ s.lease_token = 0 /\ s.lease_until = 0
      BY <3>1, <3>2 DEF Released, Delivery, NULL
    <3> QED BY <3>3 DEF LeaseColumns, NULL, s
  <2>5. CASE Resurrected(d)
    <3>1. PICK t \in Nat : s = Revived(r, t, FreshTTLSec)
      BY <2>5 DEF Resurrected
    <3>2. r \in Delivery
      BY <1>1, <2>5 DEF Resurrected
    <3> HIDE DEF r, s
    <3>3. s.status = "pending" /\ s.lease_token = 0 /\ s.lease_until = 0
      BY <3>1, <3>2 DEF Revived, Delivery, NULL
    <3> QED BY <3>3 DEF LeaseColumns, NULL, s
  <2> QED BY <2>1, <2>2, <2>3, <2>4, <2>5, RowSteps DEF RowStep
<1>5. AckIsFinal'
  <2> SUFFICES ASSUME NEW a \in acked'
               PROVE  /\ a[1] \notin DOMAIN deliveries'
                      /\ MessageOf(a[1]) <= lastID'.message
                      /\ \A i \in issued' : i[1] = a[1] => i[2] <= a[2]
    BY DEF AckIsFinal
  <2>1. CASE a \in acked
    <3>1. /\ a[1] \notin DOMAIN deliveries
          /\ MessageOf(a[1]) <= lastID.message /\ MessageOf(a[1]) \in Nat
          /\ \A i \in issued : i[1] = a[1] => i[2] <= a[2]
      BY <1>2, <2>1 DEF FencingInv, AckIsFinal, TypeOK
    <3>2. ~Inserted(a[1])
      BY <1>0, <3>1 DEF Inserted
    <3>3. a[1] \notin DOMAIN deliveries'
      BY <3>1, <3>2, RowSteps
      DEF RowStep, Kept, LeasedOrBuried, LeaseReturned, Resurrected
    <3>4. \A i \in issued' : i[1] = a[1] => i \in issued
      BY <3>1, LeaseSteps DEF NewlyIssued
    <3>5. MessageOf(a[1]) <= lastID'.message
      BY <1>0, <3>1, LeaseSteps
    <3> QED BY <3>1, <3>3, <3>4, <3>5
  <2>2. CASE NewlyAcked(a)
    <3>1. /\ a \in issued /\ a[1] \in DOMAIN deliveries
          /\ deliveries[a[1]].status = "in_flight"
          /\ deliveries[a[1]].lease_token = a[2]
          /\ a[1] \notin DOMAIN deliveries'
      BY <2>2 DEF NewlyAcked, HoldsLease
    <3>2. \A i \in issued : i[1] = a[1] => i[2] <= a[2]
      BY <3>1 DEF FencingInv, LeaseFencing
    <3>3. \A i \in issued' : i[1] = a[1] => i \in issued
      BY <3>1, LeaseSteps DEF NewlyIssued
    <3>4. MessageOf(a[1]) <= lastID'.message
      BY <1>0, <1>1, <3>1, LeaseSteps DEF FencingInv, IDsHandedOut
    <3> QED BY <3>1, <3>2, <3>3, <3>4
  <2> QED BY <2>1, <2>2, LeaseSteps
<1> QED BY <1>3, <1>4, <1>5 DEF FencingInv

(* FencingInv holds throughout. *)
THEOREM FencingHolds == Spec => []FencingInv
<1>1. Init => FencingInv
  BY DEF Init, FencingInv, IDsHandedOut, LeaseFencing, AckIsFinal
<1>2. TypeOK /\ FencingInv /\ [Next]_vars => FencingInv'
  BY FencingStep
<1> QED BY <1>1, <1>2, TypeCorrect, PTL DEF Spec

(* Only the last claimer of a delivery can settle it, however many claims, *)
(* reaps and late acks interleave and whatever the limits of the instance. *)
THEOREM LeasesFenced == Spec => []LeaseFencing
<1>1. FencingInv => LeaseFencing
  BY DEF FencingInv
<1> QED BY <1>1, FencingHolds, PTL

(* A delivery that was acked never comes back. *)
THEOREM AckedForGood == Spec => []AckIsFinal
<1>1. FencingInv => AckIsFinal
  BY DEF FencingInv
<1> QED BY <1>1, FencingHolds, PTL

----------------------------------------------------------------------------
(* Foreign keys and orphans. *)

(* No row, and no batch of orphans, has an id that was not handed out yet. *)
RowIDsHandedOut ==
  /\ \A c \in DOMAIN channels : c <= lastID.channel
  /\ \A m \in DOMAIN messages : m <= lastID.message
  /\ \A q \in Purgers : \A m \in purge[q].msgs : m <= lastID.message

(* The invariant behind ReferencesHold and OrphanDeleteSafe. *)
IntegrityInv == RowIDsHandedOut /\ Integrity /\ OrphansStayOrphans

(* Steps that insert no row and touch no topic, channel or message. *)
LEMMA QuietStep ==
  ASSUME TypeOK, IntegrityInv,
         UNCHANGED <<topics, channels, messages, lastID>>,
         DOMAIN deliveries' \subseteq DOMAIN deliveries,
         \A q \in Purgers : purge'[q].msgs \subseteq purge[q].msgs
  PROVE  IntegrityInv'
<1>1. RowIDsHandedOut'
  BY DEF IntegrityInv, RowIDsHandedOut
<1>2. Integrity'
  BY DEF IntegrityInv, Integrity, TopicOf
<1>3. OrphansStayOrphans'
  BY DEF IntegrityInv, OrphansStayOrphans, Cascaded
<1> QED BY <1>1, <1>2, <1>3 DEF IntegrityInv

(* Every insert finds its parents and every delete takes the children of   *)
(* what it removes, so IntegrityInv is preserved, one case per action.     *)
LEMMA IntegrityStep ==
  ASSUME TypeOK, IntegrityInv, [Next]_vars
  PROVE  IntegrityInv'
<1> USE SqliteStoreAssumption
<1>0. lastID.message \in Nat /\ lastID.channel \in Nat
  BY DEF TypeOK
<1>1. CASE UNCHANGED vars
  BY <1>1, QuietStep DEF vars
<1>2. CASE Tick
  BY <1>2, QuietStep DEF Tick
<1>3. ASSUME NEW name \in TopicNames, EnsureTopic(name) PROVE IntegrityInv'
  <2>1. /\ lastID'.channel = lastID.channel /\ lastID'.message = lastID.message
        /\ DOMAIN topics \subseteq DOMAIN topics'
        /\ UNCHANGED <<channels, messages, deliveries, purge>>
    BY <1>3 DEF EnsureTopic, TypeOK
  <2> QED BY <2>1 DEF IntegrityInv, RowIDsHandedOut, Integrity, OrphansStayOrphans,
                      TopicOf, Cascaded
<1>4. ASSUME NEW t \in TopicIDs, NEW name \in ChannelNames, EnsureChannel(t, name)
      PROVE  IntegrityInv'
  <2> DEFINE id == lastID.channel + 1
  <2>1. /\ lastID'.channel = id /\ lastID'.message = lastID.message
        /\ t \in DOMAIN topics
        /\ channels' = [c \in DOMAIN channels \cup {id} |->
                          IF c = id THEN [topic_id |-> t, name |-> name] ELSE channels[c]]
        /\ UNCHANGED <<topics, messages, deliveries, purge>>
    BY <1>4 DEF EnsureChannel, TypeOK
  <2>2. id \notin DOMAIN channels
    BY <1>0 DEF IntegrityInv, RowIDsHandedOut
  <2>3. /\ \A c \in DOMAIN channels : c \in DOMAIN channels' /\ channels'[c] = channels[c]
        /\ DOMAIN channels' = DOMAIN channels \cup {id}
        /\ channels'[id].topic_id = t
    BY <2>1, <2>2
  <2> HIDE DEF id
  <2>4. RowIDsHandedOut'
    <3>1. \A c \in DOMAIN channels : c <= id
      BY <1>0 DEF id, IntegrityInv, RowIDsHandedOut, TypeOK, ChannelIDs
    <3>2. id <= id
      BY <1>0 DEF id
    <3> QED BY <2>1, <2>3, <3>1, <3>2 DEF IntegrityInv, RowIDsHandedOut
  <2>5. Integrity'
    BY <2>1, <2>3 DEF IntegrityInv, Integrity, TopicOf
  <2> QED BY <2>1, <2>4, <2>5 DEF IntegrityInv, OrphansStayOrphans, Cascaded
<1>5. ASSUME NEW t \in TopicIDs, NEW opts \in Opts, NEW nowUnix \in ClockReads,
             Publish(t, opts, nowUnix)
      PROVE  IntegrityInv'
  <2> DEFINE id  == lastID.message + 1
             new == {id} \X ChannelsOf(t)
             e   == ExpiresAt(opts, nowUnix)
  <2>1. /\ lastID'.message = id /\ lastID'.channel = lastID.channel
        /\ t \in DOMAIN topics
        /\ messages' = [m \in DOMAIN messages \cup {id} |->
                          IF m = id THEN [topic_id |-> t, expires_at |-> e] ELSE messages[m]]
        /\ DOMAIN deliveries' = DOMAIN deliveries \cup new
        /\ UNCHANGED <<topics, channels, purge>>
    BY <1>5 DEF Publish, TypeOK
  <2>2. \A m \in Nat : m <= lastID.message => m <= id /\ m # id
    BY <1>0
  <2>3. /\ id \notin DOMAIN messages
        /\ \A d \in DOMAIN deliveries : MessageOf(d) # id
        /\ \A q \in Purgers : id \notin purge[q].msgs
    BY <1>0, <2>2 DEF IntegrityInv, RowIDsHandedOut, Integrity, TypeOK
  <2>4. \A d \in new : MessageOf(d) = id /\ ChannelOf(d) \in ChannelsOf(t)
    BY DEF MessageOf, ChannelOf
  <2>5. /\ \A m \in DOMAIN messages : m \in DOMAIN messages' /\ messages'[m] = messages[m]
        /\ DOMAIN messages' = DOMAIN messages \cup {id}
        /\ messages'[id].topic_id = t
    BY <2>1, <2>3
  <2> HIDE DEF new, e
  <2>6. RowIDsHandedOut'
    <3>1. \A m \in DOMAIN messages : m <= id
      BY <2>2 DEF IntegrityInv, RowIDsHandedOut, TypeOK, MessageIDs
    <3>2. \A q \in Purgers : \A m \in purge[q].msgs : m <= id
      BY <2>2 DEF IntegrityInv, RowIDsHandedOut, TypeOK, PurgeCalls, MessageIDs
    <3>3. id <= id
      BY <1>0
    <3> QED BY <2>1, <2>5, <3>1, <3>2, <3>3 DEF IntegrityInv, RowIDsHandedOut
  <2>7. Integrity'
    <3>1. \A d \in DOMAIN deliveries' :
            /\ MessageOf(d) \in DOMAIN messages' /\ ChannelOf(d) \in DOMAIN channels'
            /\ channels'[ChannelOf(d)].topic_id = messages'[MessageOf(d)].topic_id
      BY <2>1, <2>4, <2>5 DEF IntegrityInv, Integrity, TopicOf, ChannelsOf
    <3>2. \A m \in DOMAIN messages' : messages'[m].topic_id \in DOMAIN topics'
      BY <2>1, <2>5 DEF IntegrityInv, Integrity
    <3> QED BY <2>1, <3>1, <3>2 DEF IntegrityInv, Integrity, TopicOf
  <2>8. OrphansStayOrphans'
    BY <2>1, <2>3, <2>4 DEF IntegrityInv, OrphansStayOrphans, Cascaded
  <2> QED BY <2>6, <2>7, <2>8 DEF IntegrityInv
<1>6. ASSUME NEW p \in Claimers, NEW c, ClaimPoll(p, c) \/ ClaimBusy(p) \/ ClaimAbort(p)
      PROVE  IntegrityInv'
  BY <1>6, QuietStep DEF ClaimPoll, ClaimBusy, ClaimAbort
<1>7. ASSUME NEW p \in Claimers, ClaimLease(p) PROVE IntegrityInv'
  <2>1. /\ DOMAIN deliveries' = DOMAIN deliveries
        /\ lastID'.channel = lastID.channel /\ lastID'.message = lastID.message
        /\ UNCHANGED <<topics, channels, messages, purge>>
    BY <1>7 DEF ClaimLease, Updated, TypeOK
  <2> QED BY <2>1 DEF IntegrityInv, RowIDsHandedOut, Integrity, OrphansStayOrphans,
                      TopicOf, Cascaded
<1>8. ASSUME NEW i \in issued,
             Ack(i[1], i[2]) \/ \E at \in RequeueAt : Requeue(i[1], i[2], at)
      PROVE  IntegrityInv'
  BY <1>8, QuietStep DEF Ack, Requeue, Without
<1>9. CASE ReapExpiredLeases
  BY <1>9, QuietStep DEF ReapExpiredLeases, Updated
<1>10. ASSUME NEW q \in Purgers, PurgeSelect(q) \/ PurgeDelete(q) \/ PurgeAbort(q)
       PROVE  IntegrityInv'
  <2>1. \A x \in Purgers : purge'[x].msgs \subseteq purge[x].msgs
    BY <1>10, SMTT(30) DEF PurgeSelect, PurgeDelete, PurgeAbort, NoPurge, TypeOK, PurgeCalls
  <2> QED BY <1>10, <2>1, QuietStep DEF PurgeSelect, PurgeDelete, PurgeAbort, Without
<1>11. ASSUME NEW q \in Purgers, PurgeSelectOrphans(q) PROVE IntegrityInv'
  <2>1. PICK ms \in Batches(Orphans, OrphanOrder, PurgeLimit) :
          purge' = [purge EXCEPT ![q] =
                      IF ms = {} THEN NoPurge
                      ELSE [pc |-> "delete_orphans", ids |-> {}, msgs |-> ms]]
    BY <1>11 DEF PurgeSelectOrphans
  <2>2. ms \subseteq Orphans
    BY DEF Batches
  <2>3. \A x \in Purgers : purge'[x].msgs = IF x = q THEN ms ELSE purge[x].msgs
    BY <2>1 DEF NoPurge, TypeOK
  <2>4. UNCHANGED <<topics, channels, messages, deliveries, lastID>>
    BY <1>11 DEF PurgeSelectOrphans
  <2>5. Cascaded(ms) = {} /\ ms \subseteq DOMAIN messages
    BY <2>2 DEF Orphans, Cascaded
  <2>6. RowIDsHandedOut'
    BY <2>3, <2>4, <2>5 DEF IntegrityInv, RowIDsHandedOut
  <2>7. OrphansStayOrphans'
    BY <2>3, <2>4, <2>5 DEF IntegrityInv, OrphansStayOrphans, Cascaded
  <2> QED BY <2>4, <2>6, <2>7 DEF IntegrityInv, Integrity, TopicOf
<1>12. ASSUME NEW q \in Purgers, PurgeDeleteOrphans(q) PROVE IntegrityInv'
  <2> DEFINE gone == purge[q].msgs \cap DOMAIN messages
  <2>1. /\ messages' = Without(messages, gone)
        /\ deliveries' = Without(deliveries, Cascaded(gone))
        /\ purge' = [purge EXCEPT ![q] = NoPurge]
        /\ UNCHANGED <<topics, channels, lastID>>
    BY <1>12 DEF PurgeDeleteOrphans
  <2>2. \A x \in Purgers : purge'[x].msgs \subseteq purge[x].msgs
    BY <2>1 DEF NoPurge, TypeOK, PurgeCalls
  <2> HIDE DEF gone
  <2>3. /\ DOMAIN messages' = DOMAIN messages \ gone
        /\ \A m \in DOMAIN messages' : messages'[m] = messages[m]
        /\ DOMAIN deliveries' = DOMAIN deliveries \ Cascaded(gone)
    BY <2>1 DEF Without
  <2>4. \A d \in DOMAIN deliveries' : MessageOf(d) \notin gone
    BY <2>3 DEF Cascaded
  <2>5. Integrity'
    BY <2>1, <2>3, <2>4 DEF IntegrityInv, Integrity, TopicOf
  <2>6. RowIDsHandedOut'
    BY <2>1, <2>2, <2>3 DEF IntegrityInv, RowIDsHandedOut
  <2>7. OrphansStayOrphans'
    BY <2>2, <2>3 DEF IntegrityInv, OrphansStayOrphans, Cascaded
  <2> QED BY <2>5, <2>6, <2>7 DEF IntegrityInv
<1>13. ASSUME NEW d \in DeliveryIDs, NEW c \in ChannelIDs, NEW nowUnix \in ClockReads,
              RequeueDead(d, c, nowUnix)
       PROVE  IntegrityInv'
  <2>1. /\ DOMAIN deliveries' = DOMAIN deliveries
        /\ UNCHANGED <<topics, channels, lastID, purge>>
    BY <1>13 DEF RequeueDead
  <2>2. /\ DOMAIN messages' = DOMAIN messages
        /\ \A m \in DOMAIN messages : messages'[m].topic_id = messages[m].topic_id
    BY <1>13 DEF RequeueDead, TypeOK
  <2> QED BY <2>1, <2>2 DEF IntegrityInv, RowIDsHandedOut, Integrity, OrphansStayOrphans,
                            TopicOf, Cascaded
<1>14. ASSUME NEW d \in DeliveryIDs, NEW c \in ChannelIDs, DeleteDead(d, c)
       PROVE  IntegrityInv'
  BY <1>14, QuietStep DEF DeleteDead, Without
<1>15. ASSUME NEW t \in TopicIDs, DeleteTopic(t) PROVE IntegrityInv'
  <2>1. /\ DOMAIN deliveries' = DOMAIN deliveries \ Cascaded(MessagesOf(t))
        /\ \A d \in DOMAIN deliveries' : ChannelOf(d) \notin ChannelsOf(t)
        /\ DOMAIN messages' = DOMAIN messages \ MessagesOf(t)
        /\ \A m \in DOMAIN messages' : messages'[m] = messages[m]
        /\ DOMAIN channels' = DOMAIN channels \ ChannelsOf(t)
        /\ \A c \in DOMAIN channels' : channels'[c] = channels[c]
        /\ DOMAIN topics' = DOMAIN topics \ {t}
        /\ UNCHANGED <<lastID, purge>>
    BY <1>15 DEF DeleteTopic, Without
  <2>2. Integrity'
    <3>1. \A c \in DOMAIN channels' : channels'[c].topic_id \in DOMAIN topics'
      BY <2>1 DEF IntegrityInv, Integrity, TopicOf, ChannelsOf
    <3>2. \A m \in DOMAIN messages' : messages'[m].topic_id \in DOMAIN topics'
      BY <2>1 DEF IntegrityInv, Integrity, MessagesOf
    <3>3. \A d \in DOMAIN deliveries' :
            /\ MessageOf(d) \in DOMAIN messages' /\ ChannelOf(d) \in DOMAIN channels'
            /\ channels'[ChannelOf(d)].topic_id = messages'[MessageOf(d)].topic_id
      BY <2>1 DEF IntegrityInv, Integrity, TopicOf, Cascaded
    <3> QED BY <3>1, <3>2, <3>3 DEF Integrity, TopicOf
  <2>3. RowIDsHandedOut'
    BY <2>1 DEF IntegrityInv, RowIDsHandedOut
  <2>4. OrphansStayOrphans'
    BY <2>1 DEF IntegrityInv, OrphansStayOrphans, Cascaded
  <2> QED BY <2>2, <2>3, <2>4 DEF IntegrityInv
<1>16. ASSUME NEW c \in ChannelIDs, DeleteChannel(c) PROVE IntegrityInv'
  <2>1. /\ DOMAIN deliveries' = DOMAIN deliveries \ DeliveriesOf(c)
        /\ DOMAIN channels' = DOMAIN channels \ {c}
        /\ \A x \in DOMAIN channels' : channels'[x] = channels[x]
        /\ UNCHANGED <<topics, messages, lastID, purge>>
    BY <1>16 DEF DeleteChannel, Without
  <2>2. Integrity'
    BY <2>1 DEF IntegrityInv, Integrity, TopicOf, DeliveriesOf
  <2>3. RowIDsHandedOut'
    BY <2>1 DEF IntegrityInv, RowIDsHandedOut
  <2>4. OrphansStayOrphans'
    BY <2>1 DEF IntegrityInv, OrphansStayOrphans, Cascaded
  <2> QED BY <2>2, <2>3, <2>4 DEF IntegrityInv
<1> QED
  BY <1>1, <1>2, <1>3, <1>4, <1>5, <1>6, <1>7, <1>8, <1>9, <1>10, <1>11, <1>12,
     <1>13, <1>14, <1>15, <1>16
  DEF Next, Topology, Publishing, Consuming, Maintenance, Purging, Admin

(* IntegrityInv holds throughout. *)
THEOREM IntegrityInvHolds == Spec => []IntegrityInv
<1>1. Init => IntegrityInv
  BY DEF Init, IntegrityInv, RowIDsHandedOut, Integrity, OrphansStayOrphans, Cascaded, NoPurge
<1>2. TypeOK /\ IntegrityInv /\ [Next]_vars => IntegrityInv'
  BY IntegrityStep
<1> QED BY <1>1, <1>2, TypeCorrect, PTL DEF Spec

(* No interleaving of publishes, purges and cascades leaves a delivery     *)
(* without its message or channel, or lets the two belong to different     *)
(* topics.                                                                 *)
THEOREM ReferencesHold == Spec => []Integrity
<1>1. IntegrityInv => Integrity
  BY DEF IntegrityInv
<1> QED BY <1>1, IntegrityInvHolds, PTL

(* PurgeExpired's unconditional DELETE of the messages it selected is      *)
(* safe: none of them ever has a delivery again.                           *)
THEOREM OrphanDeleteSafe == Spec => []OrphansStayOrphans
<1>1. IntegrityInv => OrphansStayOrphans
  BY DEF IntegrityInv
<1> QED BY <1>1, IntegrityInvHolds, PTL

----------------------------------------------------------------------------
(* What a step may never do. *)

(* No claim leases or buries a delivery outside [available_at, expires_at), *)
(* even when the clock moved between its poll and its lease.               *)
THEOREM LeasesInWindow == Spec => LeaseInWindow
<1> DEFINE Window ==
      \A d \in DOMAIN deliveries \cap DOMAIN deliveries' :
        deliveries'[d].attempts > deliveries[d].attempts =>
          /\ deliveries[d].status = "pending"
          /\ deliveries[d].available_at <= now
          /\ now < deliveries[d].expires_at
<1>1. TypeOK /\ FencingInv /\ [Next]_vars => [Window]_vars
  <2> SUFFICES ASSUME TypeOK, FencingInv, [Next]_vars,
                      NEW d \in DOMAIN deliveries \cap DOMAIN deliveries',
                      deliveries'[d].attempts > deliveries[d].attempts
               PROVE  /\ deliveries[d].status = "pending"
                      /\ deliveries[d].available_at <= now
                      /\ now < deliveries[d].expires_at
    OBVIOUS
  <2> DEFINE r == deliveries[d]
             s == deliveries'[d]
  <2>1. r \in Delivery /\ r.attempts \in Nat /\ now \in Nat
    BY SqliteStoreAssumption DEF TypeOK, Delivery
  <2>2. ~Kept(d)
    BY <2>1 DEF Kept
  <2>3. ~Inserted(d)
    <3>1. MessageOf(d) <= lastID.message
      BY DEF FencingInv, IDsHandedOut
    <3>2. lastID.message \in Nat
      BY SqliteStoreAssumption DEF TypeOK
    <3> QED BY <3>1, <3>2 DEF Inserted
  <2>4. ~LeaseReturned(d)
    <3> SUFFICES ASSUME NEW a \in Nat, s = Released(r, a) PROVE FALSE
      BY DEF LeaseReturned
    <3>1. s.attempts = r.attempts
      BY <2>1 DEF Released, Delivery
    <3> QED BY <2>1, <3>1
  <2>5. ~Resurrected(d)
    <3> SUFFICES ASSUME NEW t \in Nat, s = Revived(r, t, FreshTTLSec) PROVE FALSE
      BY DEF Resurrected
    <3>1. s.attempts = 0
      BY <2>1 DEF Revived, Delivery
    <3> QED BY <2>1, <3>1
  <2>6. LeasedOrBuried(d)
    BY <2>2, <2>3, <2>4, <2>5, RowSteps DEF RowStep
  <2> QED BY <2>1, <2>6 DEF LeasedOrBuried, Ready, Delivery
<1> QED BY <1>1, TypeCorrect, FencingHolds, PTL DEF Spec, LeaseInWindow

LossExplained(d) ==
  \/ <<d, deliveries[d].lease_token>> \in acked'
  \/ deliveries[d].status = "dead"
  \/ deliveries[d].expires_at < now
  \/ ChannelOf(d) \notin DOMAIN channels'

(* Every row that leaves the table is accounted for.  PurgeExpired's       *)
(* second DELETE removes none, because its messages stayed orphans;        *)
(* DeleteTopic removes only rows whose channels go with it, because        *)
(* channel and message belong to one topic.                                *)
LEMMA LossStep ==
  ASSUME TypeOK, IntegrityInv, [Next]_vars,
         NEW d \in DOMAIN deliveries, d \notin DOMAIN deliveries'
  PROVE  LossExplained(d)
<1>a. CASE DOMAIN deliveries \subseteq DOMAIN deliveries'
  BY <1>a
<1>1. CASE UNCHANGED vars
  BY <1>1, <1>a DEF vars
<1>2. CASE Tick
  BY <1>2, <1>a DEF Tick
<1>3. CASE Topology
  BY <1>3, <1>a DEF Topology, EnsureTopic, EnsureChannel
<1>4. CASE Publishing
  BY <1>4, <1>a DEF Publishing, Publish
<1>5. ASSUME NEW p \in Claimers, NEW c,
             ClaimPoll(p, c) \/ ClaimBusy(p) \/ ClaimAbort(p) \/ ClaimLease(p)
      PROVE  LossExplained(d)
  BY <1>5, <1>a DEF ClaimPoll, ClaimBusy, ClaimAbort, ClaimLease, Updated
<1>6. ASSUME NEW i \in issued, Ack(i[1], i[2]) PROVE LossExplained(d)
  <2>1. d = i[1]
    BY <1>6 DEF Ack, Without
  <2> QED BY <1>6, <2>1 DEF Ack, HoldsLease, LossExplained
<1>7. ASSUME NEW i \in issued, NEW at \in RequeueAt, Requeue(i[1], i[2], at)
      PROVE  LossExplained(d)
  BY <1>7, <1>a DEF Requeue
<1>8. CASE ReapExpiredLeases
  BY <1>8, <1>a DEF ReapExpiredLeases, Updated
<1>9. ASSUME NEW q \in Purgers, PurgeSelect(q) \/ PurgeSelectOrphans(q) \/ PurgeAbort(q)
      PROVE  LossExplained(d)
  BY <1>9, <1>a DEF PurgeSelect, PurgeSelectOrphans, PurgeAbort
<1>10. ASSUME NEW q \in Purgers, PurgeDelete(q) PROVE LossExplained(d)
  <2>1. d \in Doomed
    BY <1>10 DEF PurgeDelete, StillDoomed, Without
  <2> QED BY <2>1 DEF Doomed, Purgeable, LossExplained
<1>11. ASSUME NEW q \in Purgers, PurgeDeleteOrphans(q) PROVE LossExplained(d)
  <2>1. MessageOf(d) \in purge[q].msgs
    BY <1>11 DEF PurgeDeleteOrphans, Without, Cascaded
  <2> QED BY <2>1 DEF IntegrityInv, OrphansStayOrphans, Cascaded
<1>12. ASSUME NEW e \in DeliveryIDs, NEW c \in ChannelIDs, NEW nowUnix \in ClockReads,
              RequeueDead(e, c, nowUnix)
       PROVE  LossExplained(d)
  BY <1>12, <1>a DEF RequeueDead
<1>13. ASSUME NEW e \in DeliveryIDs, NEW c \in ChannelIDs, DeleteDead(e, c)
       PROVE  LossExplained(d)
  BY <1>13 DEF DeleteDead, Without, LossExplained
<1>14. ASSUME NEW t \in TopicIDs, DeleteTopic(t) PROVE LossExplained(d)
  <2>1. d \in Cascaded(MessagesOf(t)) /\ DOMAIN channels' = DOMAIN channels \ ChannelsOf(t)
    BY <1>14 DEF DeleteTopic, Without
  <2>2. messages[MessageOf(d)].topic_id = t
    BY <2>1 DEF Cascaded, MessagesOf
  <2>3. channels[ChannelOf(d)].topic_id = t
    BY <2>2 DEF IntegrityInv, Integrity, TopicOf
  <2>4. ChannelOf(d) \notin DOMAIN channels'
    BY <2>1, <2>3 DEF ChannelsOf
  <2> QED BY <2>4 DEF LossExplained
<1>15. ASSUME NEW c \in ChannelIDs, DeleteChannel(c) PROVE LossExplained(d)
  <2>1. ChannelOf(d) = c /\ DOMAIN channels' = DOMAIN channels \ {c}
    BY <1>15 DEF DeleteChannel, Without, DeliveriesOf
  <2> QED BY <2>1 DEF LossExplained
<1> QED
  BY <1>1, <1>2, <1>3, <1>4, <1>5, <1>6, <1>7, <1>8, <1>9, <1>10, <1>11, <1>12,
     <1>13, <1>14, <1>15
  DEF Next, Consuming, Maintenance, Purging, Admin

(* No delivery is lost: one that is neither acked, dead, expired nor in a  *)
(* deleted channel is in the table after every step, although PurgeExpired *)
(* decides in one statement what it deletes in another.                    *)
THEOREM NothingLostEarly == Spec => NoEarlyLoss
<1>1. TypeOK /\ IntegrityInv /\ [Next]_vars =>
        [\A d \in DOMAIN deliveries \ DOMAIN deliveries' :
           \/ <<d, deliveries[d].lease_token>> \in acked'
           \/ deliveries[d].status = "dead"
           \/ deliveries[d].expires_at < now
           \/ ChannelOf(d) \notin DOMAIN channels']_vars
  BY LossStep DEF LossExplained
<1> QED BY <1>1, TypeCorrect, IntegrityInvHolds, PTL DEF Spec, NoEarlyLoss

----------------------------------------------------------------------------
(* Event counters and valid leases. *)

(* The stats coordinate of channel c, and the rows of ids that are its. *)
CoordOf(c) == <<TopicOf(c), c>>
RowsIn(ids, c) == {d \in ids : ChannelOf(d) = c}

(* recordStat adds to one kind of one channel's counters the number of the *)
(* deliveries that are the channel's, and to no other.                     *)
LEMMA RecordStatAdds ==
  ASSUME TypeOK, NEW cnt \in CounterTables, NEW kind \in StatKinds,
         NEW ids \in SUBSET DeliveryIDs, NEW c \in DOMAIN channels
  PROVE  /\ CoordOf(c) \in StatCoords
         /\ recordStat(cnt, kind, ids)[CoordOf(c)][kind] =
              cnt[CoordOf(c)][kind] + Cardinality(RowsIn(ids, c))
         /\ \A s \in StatKinds \ {kind} : recordStat(cnt, kind, ids)[CoordOf(c)][s] = cnt[CoordOf(c)][s]
         /\ IsFiniteSet(RowsIn(ids, c)) /\ Cardinality(RowsIn(ids, c)) \in Nat
<1>1. CoordOf(c) \in StatCoords
  BY DEF CoordOf, TopicOf, TypeOK, StatCoords
<1>2. {d \in ids : <<TopicOf(ChannelOf(d)), ChannelOf(d)>> = CoordOf(c)} = RowsIn(ids, c)
  BY DEF CoordOf, RowsIn
<1>3. recordStat(cnt, kind, ids)[CoordOf(c)] =
        [cnt[CoordOf(c)] EXCEPT ![kind] = cnt[CoordOf(c)][kind] + Cardinality(RowsIn(ids, c))]
  BY <1>1, <1>2 DEF recordStat
<1>4. RowsIn(ids, c) \subseteq DeliveryIDs
  BY DEF RowsIn
<1>5. IsFiniteSet(RowsIn(ids, c)) /\ Cardinality(RowsIn(ids, c)) \in Nat
  BY <1>4, DeliveryIDsFinite, FS_Subset, FS_CardinalityType
<1>6. cnt[CoordOf(c)] \in [StatKinds -> Nat]
  BY <1>1 DEF CounterTables
<1> QED BY <1>1, <1>3, <1>5, <1>6

(* The channel's rows after a DELETE. *)
LEMMA RowsLeft ==
  ASSUME TypeOK, NEW S \in SUBSET DOMAIN deliveries,
         DOMAIN deliveries' = DOMAIN deliveries \ S, NEW c
  PROVE  /\ Cardinality(DeliveriesOf(c)) \in Nat
         /\ Cardinality(DeliveriesOf(c)') = Cardinality(DeliveriesOf(c)) - Cardinality(RowsIn(S, c))
<1>1. DeliveriesOf(c) \subseteq DeliveryIDs /\ RowsIn(S, c) \subseteq DeliveriesOf(c)
  BY DEF DeliveriesOf, RowsIn, TypeOK
<1>2. IsFiniteSet(DeliveriesOf(c)) /\ IsFiniteSet(RowsIn(S, c))
  BY <1>1, DeliveryIDsFinite, FS_Subset
<1>3. DeliveriesOf(c)' = DeliveriesOf(c) \ RowsIn(S, c)
  BY DEF DeliveriesOf, RowsIn
<1>4. DeliveriesOf(c) \cap RowsIn(S, c) = RowsIn(S, c)
  BY <1>1
<1>5. Cardinality(DeliveriesOf(c) \ RowsIn(S, c)) =
        Cardinality(DeliveriesOf(c)) - Cardinality(DeliveriesOf(c) \cap RowsIn(S, c))
  BY <1>2, FS_Difference
<1> QED BY <1>2, <1>3, <1>4, <1>5, FS_CardinalityType

LEMMA SameRowsLeft ==
  ASSUME DOMAIN deliveries' = DOMAIN deliveries, NEW c
  PROVE  DeliveriesOf(c)' = DeliveriesOf(c)
  BY DEF DeliveriesOf

LeaseKeeps(d) ==
  \/ d \in DOMAIN deliveries' /\ deliveries'[d] = deliveries[d]
  \/ <<d, deliveries[d].lease_token>> \in (acked' \cup requeued')
  \/ ChannelOf(d) \notin DOMAIN channels'

(* What each action does to a delivery under a valid lease. *)
LEMMA LeaseHeldStep ==
  ASSUME TypeOK, FencingInv, IntegrityInv, [Next]_vars,
         NEW d \in DOMAIN deliveries,
         deliveries[d].status = "in_flight", deliveries[d].lease_until >= now
  PROVE  LeaseKeeps(d)
<1>0. /\ deliveries[d] \in Delivery /\ now \in Nat /\ deliveries[d].lease_until \in Nat
      /\ deliveries[d].lease_until # NULL /\ ~(deliveries[d].lease_until < now)
  <2>1. deliveries[d] \in Delivery /\ now \in Nat
    BY SqliteStoreAssumption DEF TypeOK
  <2>2. deliveries[d].lease_until # NULL
    BY DEF FencingInv, LeaseFencing, LeaseColumns
  <2> QED BY <2>1, <2>2 DEF Delivery
<1>a. ASSUME d \in DOMAIN deliveries', deliveries'[d] = deliveries[d]
      PROVE  LeaseKeeps(d)
  BY <1>a DEF LeaseKeeps
<1>b. ASSUME deliveries' = deliveries PROVE LeaseKeeps(d)
  BY <1>b DEF LeaseKeeps
<1>c. ASSUME NEW S, deliveries' = Without(deliveries, S), d \notin S
      PROVE  LeaseKeeps(d)
  BY <1>c DEF LeaseKeeps, Without
<1>1. CASE UNCHANGED vars
  BY <1>1, <1>b DEF vars
<1>2. CASE Tick
  BY <1>2, <1>b DEF Tick
<1>3. CASE Topology
  BY <1>3, <1>b DEF Topology, EnsureTopic, EnsureChannel
<1>4. ASSUME NEW t \in TopicIDs, NEW opts \in Opts, NEW nowUnix \in ClockReads,
             Publish(t, opts, nowUnix)
      PROVE  LeaseKeeps(d)
  <2>1. MessageOf(d) <= lastID.message /\ lastID.message \in Nat
    BY SqliteStoreAssumption DEF FencingInv, IDsHandedOut, TypeOK
  <2>2. d \notin {lastID.message + 1} \X ChannelsOf(t)
    BY <2>1 DEF MessageOf
  <2> QED BY <1>4, <1>a, <2>2 DEF Publish
<1>5. ASSUME NEW p \in Claimers, NEW c, ClaimPoll(p, c) \/ ClaimBusy(p) \/ ClaimAbort(p)
      PROVE  LeaseKeeps(d)
  BY <1>5, <1>b DEF ClaimPoll, ClaimBusy, ClaimAbort
<1>6. ASSUME NEW p \in Claimers, ClaimLease(p) PROVE LeaseKeeps(d)
  <2>1. d \notin Leasable(claim[p].ids)
    BY DEF Leasable, Ready
  <2> QED BY <1>6, <1>a, <2>1 DEF ClaimLease, Updated
<1>7. ASSUME NEW i \in issued, Ack(i[1], i[2]) PROVE LeaseKeeps(d)
  <2>1. CASE d = i[1]
    BY <1>7, <2>1 DEF Ack, HoldsLease, LeaseKeeps
  <2>2. CASE d # i[1]
    BY <1>7, <1>c, <2>2 DEF Ack
  <2> QED BY <2>1, <2>2
<1>8. ASSUME NEW i \in issued, NEW at \in RequeueAt, Requeue(i[1], i[2], at)
      PROVE  LeaseKeeps(d)
  <2>1. CASE d = i[1]
    BY <1>8, <2>1 DEF Requeue, HoldsLease, LeaseKeeps
  <2>2. CASE d # i[1]
    BY <1>8, <1>a, <2>2 DEF Requeue
  <2> QED BY <2>1, <2>2
<1>9. CASE ReapExpiredLeases
  <2>1. PICK ids \in Batches(LapsedLeases, ReapOrder, ReapLimit) :
          deliveries' = Updated(ids, LAMBDA x : Released(deliveries[x], now))
    BY <1>9 DEF ReapExpiredLeases
  <2>2. d \notin ids
    BY <1>0 DEF Batches, LapsedLeases, LeaseLapsed
  <2> QED BY <1>a, <2>1, <2>2 DEF Updated
<1>10. ASSUME NEW q \in Purgers, PurgeSelect(q) \/ PurgeSelectOrphans(q) \/ PurgeAbort(q)
       PROVE  LeaseKeeps(d)
  BY <1>10, <1>b DEF PurgeSelect, PurgeSelectOrphans, PurgeAbort
<1>11. ASSUME NEW q \in Purgers, PurgeDelete(q) PROVE LeaseKeeps(d)
  <2>1. d \notin StillDoomed(purge[q].ids)
    BY <1>0 DEF StillDoomed, Doomed, Purgeable
  <2> QED BY <1>11, <1>c, <2>1 DEF PurgeDelete
<1>12. ASSUME NEW q \in Purgers, PurgeDeleteOrphans(q) PROVE LeaseKeeps(d)
  <2>1. d \notin Cascaded(purge[q].msgs \cap DOMAIN messages)
    BY DEF IntegrityInv, OrphansStayOrphans, Cascaded
  <2> QED BY <1>12, <1>c, <2>1 DEF PurgeDeleteOrphans
<1>13. ASSUME NEW e \in DeliveryIDs, NEW c \in ChannelIDs, NEW nowUnix \in ClockReads,
              RequeueDead(e, c, nowUnix)
       PROVE  LeaseKeeps(d)
  <2>1. d # e
    BY <1>13 DEF RequeueDead
  <2> QED BY <1>13, <1>a, <2>1 DEF RequeueDead
<1>14. ASSUME NEW e \in DeliveryIDs, NEW c \in ChannelIDs, DeleteDead(e, c)
       PROVE  LeaseKeeps(d)
  <2>1. d \notin {e}
    BY <1>14 DEF DeleteDead
  <2> QED BY <1>14, <1>c, <2>1 DEF DeleteDead
<1>15. ASSUME NEW t \in TopicIDs, DeleteTopic(t) PROVE LeaseKeeps(d)
  <2>1. CASE d \in Cascaded(MessagesOf(t))
    <3>1. channels[ChannelOf(d)].topic_id = t
      BY <2>1 DEF Cascaded, MessagesOf, IntegrityInv, Integrity, TopicOf
    <3>2. ChannelOf(d) \notin DOMAIN channels'
      BY <1>15, <3>1 DEF DeleteTopic, Without, ChannelsOf
    <3> QED BY <3>2 DEF LeaseKeeps
  <2>2. CASE d \notin Cascaded(MessagesOf(t))
    BY <1>15, <1>c, <2>2 DEF DeleteTopic
  <2> QED BY <2>1, <2>2
<1>16. ASSUME NEW c \in ChannelIDs, DeleteChannel(c) PROVE LeaseKeeps(d)
  <2>1. CASE d \in DeliveriesOf(c)
    <3>1. ChannelOf(d) \notin DOMAIN channels'
      BY <1>16, <2>1 DEF DeleteChannel, Without, DeliveriesOf
    <3> QED BY <3>1 DEF LeaseKeeps
  <2>2. CASE d \notin DeliveriesOf(c)
    BY <1>16, <1>c, <2>2 DEF DeleteChannel
  <2> QED BY <2>1, <2>2
<1> QED
  BY <1>1, <1>2, <1>3, <1>4, <1>5, <1>6, <1>7, <1>8, <1>9, <1>10, <1>11, <1>12,
     <1>13, <1>14, <1>15, <1>16
  DEF Next, Publishing, Consuming, Maintenance, Purging, Admin

(* A lease that is still valid is its holder's: no reaper, purger, other   *)
(* claimer or holder of an older token, in whatever order their statements *)
(* run, takes the delivery away or changes it; an Ack or a Requeue that    *)
(* ends the lease came with the lease's own token.                         *)
THEOREM ValidLeasesHeld == Spec => ValidLeaseHeld
<1>1. TypeOK /\ FencingInv /\ IntegrityInv /\ [Next]_vars =>
        [\A d \in DOMAIN deliveries :
           LET r == deliveries[d] IN
           r.status = "in_flight" /\ r.lease_until >= now =>
             \/ d \in DOMAIN deliveries' /\ deliveries'[d] = r
             \/ <<d, r.lease_token>> \in (acked' \cup requeued')
             \/ ChannelOf(d) \notin DOMAIN channels']_vars
  BY LeaseHeldStep DEF LeaseKeeps
<1> QED
  BY <1>1, TypeCorrect, FencingHolds, IntegrityInvHolds, PTL DEF Spec, ValidLeaseHeld

(* A channel id that was not handed out yet has no counters. *)
NoEarlyStats ==
  \A k \in StatCoords : k[2] > lastID.channel => counters[k] = [s \in StatKinds |-> 0]

(* The invariant behind CountersBalance. *)
StatsInv == NoEarlyStats /\ StatsConserved

Balanced(c) ==
  counters[CoordOf(c)]["publish"] =
    Cardinality(DeliveriesOf(c)) + counters[CoordOf(c)]["ack"] + counters[CoordOf(c)]["purged"]

(* Counting deliveries of live channels touches no coordinate of a channel *)
(* id to come.                                                             *)
LEMMA RecordStatNotEarly ==
  ASSUME TypeOK, IntegrityInv, NEW cnt \in CounterTables, NEW kind \in StatKinds,
         NEW ids, \A d \in ids : ChannelOf(d) \in DOMAIN channels,
         NEW k \in StatCoords, k[2] > lastID.channel
  PROVE  recordStat(cnt, kind, ids)[k] = cnt[k]
<1> DEFINE S == {d \in ids : <<TopicOf(ChannelOf(d)), ChannelOf(d)>> = k}
<1>1. S = {}
  <2> SUFFICES ASSUME NEW d \in S PROVE FALSE
    OBVIOUS
  <2>1. ChannelOf(d) = k[2] /\ ChannelOf(d) \in DOMAIN channels
    OBVIOUS
  <2>2. ChannelOf(d) <= lastID.channel /\ ChannelOf(d) \in Nat /\ lastID.channel \in Nat
    BY <2>1, SqliteStoreAssumption DEF IntegrityInv, RowIDsHandedOut, TypeOK, ChannelIDs
  <2> QED BY <2>1, <2>2
<1>2. cnt[k] \in [StatKinds -> Nat] /\ cnt[k][kind] \in Nat
  BY DEF CounterTables
<1>3. recordStat(cnt, kind, ids)[k] = [cnt[k] EXCEPT ![kind] = cnt[k][kind] + Cardinality(S)]
  BY DEF recordStat
<1>4. Cardinality(S) = 0
  BY <1>1, FS_EmptySet
<1>5. cnt[k][kind] + Cardinality(S) = cnt[k][kind]
  BY <1>2, <1>4
<1> HIDE DEF S
<1> QED BY <1>2, <1>3, <1>5

(* Two ways to keep the balance.  A statement that counts deliveries under *)
(* a kind the balance does not mention, and keeps the rows.                *)
LEMMA BalanceKept ==
  ASSUME TypeOK, NEW c \in DOMAIN channels, Balanced(c),
         c \in DOMAIN channels', channels'[c] = channels[c],
         DeliveriesOf(c)' = DeliveriesOf(c),
         \A s \in {"publish", "ack", "purged"} : counters'[CoordOf(c)][s] = counters[CoordOf(c)][s]
  PROVE  Balanced(c)'
<1>1. CoordOf(c)' = CoordOf(c)
  BY DEF CoordOf, TopicOf
<1> QED BY <1>1 DEF Balanced

(* A DELETE that counts the rows it removes as acked or as purged.         *)
LEMMA BalanceMoved ==
  ASSUME TypeOK, NEW c \in DOMAIN channels, Balanced(c), UNCHANGED channels,
         NEW S \in SUBSET DOMAIN deliveries, deliveries' = Without(deliveries, S),
         NEW kind \in {"ack", "purged"}, counters' = recordStat(counters, kind, S)
  PROVE  Balanced(c)'
<1>1. CoordOf(c)' = CoordOf(c)
  BY DEF CoordOf, TopicOf
<1> DEFINE n == Cardinality(RowsIn(S, c))
<1>2. /\ CoordOf(c) \in StatCoords /\ n \in Nat
      /\ counters'[CoordOf(c)][kind] = counters[CoordOf(c)][kind] + n
      /\ \A s \in StatKinds \ {kind} : counters'[CoordOf(c)][s] = counters[CoordOf(c)][s]
  <2>1. S \in SUBSET DeliveryIDs /\ counters \in CounterTables /\ kind \in StatKinds
    BY DEF TypeOK, StatKinds
  <2> QED BY <2>1, RecordStatAdds
<1>3. counters[CoordOf(c)] \in [StatKinds -> Nat]
  BY <1>2 DEF TypeOK, CounterTables
<1>4. /\ Cardinality(DeliveriesOf(c)) \in Nat
      /\ Cardinality(DeliveriesOf(c)') = Cardinality(DeliveriesOf(c)) - n
  BY RowsLeft DEF Without
<1>5. /\ counters[CoordOf(c)]["publish"] \in Nat /\ counters[CoordOf(c)]["ack"] \in Nat
      /\ counters[CoordOf(c)]["purged"] \in Nat
  BY <1>3 DEF StatKinds
<1>6. counters'[CoordOf(c)]["publish"] = counters[CoordOf(c)]["publish"]
  BY <1>2 DEF StatKinds
<1>7. counters'[CoordOf(c)]["ack"] + counters'[CoordOf(c)]["purged"] =
        counters[CoordOf(c)]["ack"] + counters[CoordOf(c)]["purged"] + n
  <2>1. CASE kind = "ack"
    <3>1. /\ counters'[CoordOf(c)]["ack"] = counters[CoordOf(c)]["ack"] + n
          /\ counters'[CoordOf(c)]["purged"] = counters[CoordOf(c)]["purged"]
      BY <1>2, <2>1 DEF StatKinds
    <3> QED BY <1>2, <1>5, <3>1
  <2>2. CASE kind = "purged"
    <3>1. /\ counters'[CoordOf(c)]["purged"] = counters[CoordOf(c)]["purged"] + n
          /\ counters'[CoordOf(c)]["ack"] = counters[CoordOf(c)]["ack"]
      BY <1>2, <2>2 DEF StatKinds
    <3> QED BY <1>2, <1>5, <3>1
  <2> QED BY <2>1, <2>2
<1>8. counters'[CoordOf(c)]["ack"] \in Nat /\ counters'[CoordOf(c)]["purged"] \in Nat
  BY <1>2, <1>5 DEF StatKinds
<1> HIDE DEF n
<1> QED BY <1>1, <1>2, <1>4, <1>5, <1>6, <1>7, <1>8 DEF Balanced

(* A publish gives each channel of its topic one row and one count.        *)
LEMMA PublishBalance ==
  ASSUME TypeOK, FencingInv, IntegrityInv, NEW c \in DOMAIN channels, Balanced(c),
         NEW t \in TopicIDs, NEW opts \in Opts, NEW nowUnix \in ClockReads,
         Publish(t, opts, nowUnix)
  PROVE  Balanced(c)'
<1> DEFINE id  == lastID.message + 1
           new == {id} \X ChannelsOf(t)
<1>1. /\ DOMAIN deliveries' = DOMAIN deliveries \cup new /\ UNCHANGED channels
      /\ counters' = IF new = {} THEN [counters EXCEPT ![<<t, 0>>]["publish"] = @ + 1]
                                 ELSE recordStat(counters, "publish", new)
      /\ lastID.message \in Nat /\ id \in MessageIDs
  BY SqliteStoreAssumption DEF Publish, TypeOK, MessageIDs
<1>2. CoordOf(c)' = CoordOf(c) /\ CoordOf(c) \in StatCoords /\ CoordOf(c) # <<t, 0>>
  BY <1>1 DEF CoordOf, TopicOf, TypeOK, StatCoords, ChannelIDs
<1>3. new \in SUBSET DeliveryIDs /\ \A d \in new : ChannelOf(d) \in ChannelsOf(t)
  BY <1>1 DEF TypeOK, DeliveryIDs, ChannelsOf, ChannelOf
<1>4. DeliveriesOf(c)' = DeliveriesOf(c) \cup RowsIn(new, c)
  BY <1>1 DEF DeliveriesOf, RowsIn
<1>5. /\ IsFiniteSet(DeliveriesOf(c)) /\ Cardinality(DeliveriesOf(c)) \in Nat
  <2>1. DeliveriesOf(c) \subseteq DeliveryIDs
    BY DEF DeliveriesOf, TypeOK
  <2> QED BY <2>1, DeliveryIDsFinite, FS_Subset, FS_CardinalityType
<1>6. /\ counters[CoordOf(c)] \in [StatKinds -> Nat]
      /\ counters[CoordOf(c)]["publish"] \in Nat /\ counters[CoordOf(c)]["ack"] \in Nat
      /\ counters[CoordOf(c)]["purged"] \in Nat
  BY <1>2 DEF TypeOK, CounterTables, StatKinds
<1>7. CASE c \in ChannelsOf(t)
  <2>1. RowsIn(new, c) = {<<id, c>>}
    BY <1>7 DEF RowsIn, ChannelOf
  <2>2. <<id, c>> \notin DeliveriesOf(c)
    <3>1. \A d \in DOMAIN deliveries : MessageOf(d) <= lastID.message
      BY DEF FencingInv, IDsHandedOut
    <3> QED BY <1>1, <3>1 DEF DeliveriesOf, MessageOf
  <2>3. Cardinality(DeliveriesOf(c)') = Cardinality(DeliveriesOf(c)) + 1
    <3> DEFINE D == DeliveriesOf(c)
               x == <<id, c>>
    <3>1. DeliveriesOf(c)' = D \cup {x} /\ x \notin D /\ IsFiniteSet(D)
      BY <1>4, <1>5, <2>1, <2>2
    <3> HIDE DEF D, x
    <3>2. Cardinality(D \cup {x}) = Cardinality(D) + 1
      BY <3>1, FS_AddElement
    <3> QED BY <3>1, <3>2 DEF D
  <2>4. Cardinality(RowsIn(new, c)) = 1
    BY <2>1, FS_Singleton
  <2>5. new # {}
    BY <2>1 DEF RowsIn
  <2> HIDE DEF new
  <2>6. /\ recordStat(counters, "publish", new)[CoordOf(c)]["publish"] =
             counters[CoordOf(c)]["publish"] + Cardinality(RowsIn(new, c))
        /\ \A s \in StatKinds \ {"publish"} :
             recordStat(counters, "publish", new)[CoordOf(c)][s] = counters[CoordOf(c)][s]
    BY <1>3, RecordStatAdds DEF StatKinds, TypeOK
  <2>7. /\ counters'[CoordOf(c)]["publish"] = counters[CoordOf(c)]["publish"] + 1
        /\ counters'[CoordOf(c)]["ack"] = counters[CoordOf(c)]["ack"]
        /\ counters'[CoordOf(c)]["purged"] = counters[CoordOf(c)]["purged"]
    BY <1>1, <2>4, <2>5, <2>6 DEF StatKinds
  <2> QED BY <1>2, <1>5, <1>6, <2>3, <2>7 DEF Balanced
<1>8. CASE c \notin ChannelsOf(t)
  <2>1. RowsIn(new, c) = {}
    BY <1>3, <1>8 DEF RowsIn
  <2>2. DeliveriesOf(c)' = DeliveriesOf(c)
    BY <1>4, <2>1
  <2>3. \A s \in {"publish", "ack", "purged"} : counters'[CoordOf(c)][s] = counters[CoordOf(c)][s]
    <3>1. CASE new = {}
      BY <1>1, <1>2, <1>6, <3>1 DEF TypeOK, CounterTables, StatKinds
    <3>2. CASE new # {}
      <4> HIDE DEF new
      <4>1. /\ recordStat(counters, "publish", new)[CoordOf(c)]["publish"] =
                 counters[CoordOf(c)]["publish"] + Cardinality(RowsIn(new, c))
            /\ \A s \in StatKinds \ {"publish"} :
                 recordStat(counters, "publish", new)[CoordOf(c)][s] = counters[CoordOf(c)][s]
        BY <1>3, RecordStatAdds DEF StatKinds, TypeOK
      <4>2. Cardinality(RowsIn(new, c)) = 0
        BY <2>1, FS_EmptySet
      <4> QED BY <1>1, <1>6, <3>2, <4>1, <4>2 DEF StatKinds
    <3> QED BY <3>1, <3>2
  <2> QED BY <1>1, <2>2, <2>3, BalanceKept
<1> QED BY <1>7, <1>8

(* Every step keeps the balance of every channel that is there after it.   *)
LEMMA BalanceStep ==
  ASSUME TypeOK, FencingInv, IntegrityInv, StatsInv, [Next]_vars,
         NEW c \in DOMAIN channels'
  PROVE  Balanced(c)'
<1>0. \A x \in DOMAIN channels : Balanced(x)
  BY DEF StatsInv, StatsConserved, Balanced, CoordOf
<1>a. ASSUME UNCHANGED <<channels, counters>>, DOMAIN deliveries' = DOMAIN deliveries
      PROVE  Balanced(c)'
  BY <1>0, <1>a, BalanceKept, SameRowsLeft
<1>b. ASSUME UNCHANGED channels, NEW S \in SUBSET DOMAIN deliveries,
             deliveries' = Without(deliveries, S), NEW kind \in {"ack", "purged"},
             counters' = recordStat(counters, kind, S)
      PROVE  Balanced(c)'
  BY <1>0, <1>b, BalanceMoved
<1>c. ASSUME UNCHANGED channels, DOMAIN deliveries' = DOMAIN deliveries,
             NEW S \in SUBSET DeliveryIDs, counters' = recordStat(counters, "requeue", S)
      PROVE  Balanced(c)'
  <2>1. c \in DOMAIN channels
    BY <1>c
  <2>2. \A s \in StatKinds \ {"requeue"} : counters'[CoordOf(c)][s] = counters[CoordOf(c)][s]
    BY <1>c, <2>1, RecordStatAdds DEF TypeOK, StatKinds
  <2>3. \A s \in {"publish", "ack", "purged"} : counters'[CoordOf(c)][s] = counters[CoordOf(c)][s]
    BY <2>2 DEF StatKinds
  <2> QED BY <1>0, <1>c, <2>1, <2>3, BalanceKept, SameRowsLeft
<1>1. CASE UNCHANGED vars
  BY <1>1, <1>a DEF vars
<1>2. CASE Tick
  BY <1>2, <1>a DEF Tick
<1>3. ASSUME NEW name \in TopicNames, EnsureTopic(name) PROVE Balanced(c)'
  BY <1>3, <1>a DEF EnsureTopic
<1>4. ASSUME NEW t \in TopicIDs, NEW name \in ChannelNames, EnsureChannel(t, name)
      PROVE  Balanced(c)'
  <2> DEFINE id == lastID.channel + 1
  <2>1. /\ channels' = [x \in DOMAIN channels \cup {id} |->
                          IF x = id THEN [topic_id |-> t, name |-> name] ELSE channels[x]]
        /\ UNCHANGED <<deliveries, counters>>
        /\ id \in ChannelIDs /\ lastID.channel \in Nat /\ lastID.channel + 1 > lastID.channel
    BY <1>4, SqliteStoreAssumption DEF EnsureChannel, TypeOK, ChannelIDs
  <2>2. DeliveriesOf(c)' = DeliveriesOf(c)
    BY <2>1 DEF DeliveriesOf
  <2>3. CASE c \in DOMAIN channels /\ c # id
    BY <1>0, <2>1, <2>2, <2>3, BalanceKept
  <2>4. CASE c = id
    <3>1. CoordOf(c)' = <<t, id>> /\ <<t, id>> \in StatCoords /\ <<t, id>>[2] > lastID.channel
      BY <2>1, <2>4 DEF CoordOf, TopicOf, StatCoords
    <3>2. counters'[CoordOf(c)'] = [s \in StatKinds |-> 0]
      BY <2>1, <3>1 DEF StatsInv, NoEarlyStats
    <3>3. DeliveriesOf(c) = {}
      <4>1. id \notin DOMAIN channels
        BY <2>1 DEF IntegrityInv, RowIDsHandedOut
      <4> QED BY <2>4, <4>1 DEF DeliveriesOf, IntegrityInv, Integrity
    <3>4. Cardinality(DeliveriesOf(c)') = 0
      BY <2>2, <3>3, FS_EmptySet
    <3>5. /\ counters'[CoordOf(c)']["publish"] = 0 /\ counters'[CoordOf(c)']["ack"] = 0
          /\ counters'[CoordOf(c)']["purged"] = 0
      BY <3>2 DEF StatKinds
    <3> QED BY <3>4, <3>5 DEF Balanced
  <2> QED BY <2>1, <2>3, <2>4
<1>5. ASSUME NEW t \in TopicIDs, NEW opts \in Opts, NEW nowUnix \in ClockReads,
             Publish(t, opts, nowUnix)
      PROVE  Balanced(c)'
  <2>1. c \in DOMAIN channels
    BY <1>5 DEF Publish
  <2> QED BY <1>0, <1>5, <2>1, PublishBalance
<1>6. ASSUME NEW p \in Claimers, NEW x, ClaimPoll(p, x) \/ ClaimBusy(p) \/ ClaimAbort(p)
      PROVE  Balanced(c)'
  BY <1>6, <1>a DEF ClaimPoll, ClaimBusy, ClaimAbort
<1>7. ASSUME NEW p \in Claimers, ClaimLease(p) PROVE Balanced(c)'
  <2> DEFINE leased == Leasable(claim[p].ids)
             dead   == {d \in leased :
                          Leased(deliveries[d], lastID.lease + 1, now + LeaseSec).status = "dead"}
             cnt    == recordStat(counters, "claim", leased)
  <2>1. CASE leased = {}
    BY <1>7, <1>a, <2>1 DEF ClaimLease
  <2>2. CASE leased # {}
    <3>1. /\ counters' = recordStat(cnt, "dead", dead)
          /\ DOMAIN deliveries' = DOMAIN deliveries /\ UNCHANGED channels
      BY <1>7, <2>2 DEF ClaimLease, Updated
    <3>2. leased \in SUBSET DeliveryIDs /\ dead \in SUBSET DeliveryIDs
      BY DEF Leasable, TypeOK
    <3>3. counters \in CounterTables /\ "claim" \in StatKinds /\ "dead" \in StatKinds
      BY DEF TypeOK, StatKinds
    <3> HIDE DEF leased, dead
    <3>4. cnt \in CounterTables
      BY <3>2, <3>3, RecordStatType
    <3>5. c \in DOMAIN channels
      BY <3>1
    <3>6. \A s \in StatKinds \ {"claim"} : cnt[CoordOf(c)][s] = counters[CoordOf(c)][s]
      BY <3>2, <3>3, <3>5, RecordStatAdds
    <3> HIDE DEF cnt
    <3>7. \A s \in StatKinds \ {"dead"} : counters'[CoordOf(c)][s] = cnt[CoordOf(c)][s]
      BY <3>1, <3>2, <3>3, <3>4, <3>5, RecordStatAdds
    <3>8. \A s \in {"publish", "ack", "purged"} : counters'[CoordOf(c)][s] = counters[CoordOf(c)][s]
      BY <3>6, <3>7 DEF StatKinds
    <3> QED BY <1>0, <3>1, <3>5, <3>8, BalanceKept, SameRowsLeft
  <2> QED BY <2>1, <2>2
<1>8. ASSUME NEW i \in issued, Ack(i[1], i[2]) PROVE Balanced(c)'
  BY <1>8, <1>b DEF Ack, HoldsLease
<1>9. ASSUME NEW i \in issued, NEW at \in RequeueAt, Requeue(i[1], i[2], at)
      PROVE  Balanced(c)'
  <2>1. {i[1]} \in SUBSET DeliveryIDs /\ DOMAIN deliveries' = DOMAIN deliveries
    BY <1>9 DEF Requeue, HoldsLease, TypeOK
  <2> QED BY <1>9, <1>c, <2>1 DEF Requeue
<1>10. CASE ReapExpiredLeases
  BY <1>10, <1>a DEF ReapExpiredLeases, Updated
<1>11. ASSUME NEW q \in Purgers, PurgeSelect(q) \/ PurgeSelectOrphans(q) \/ PurgeAbort(q)
       PROVE  Balanced(c)'
  BY <1>11, <1>a DEF PurgeSelect, PurgeSelectOrphans, PurgeAbort
<1>12. ASSUME NEW q \in Purgers, PurgeDelete(q) PROVE Balanced(c)'
  <2>1. StillDoomed(purge[q].ids) \subseteq DOMAIN deliveries
    BY DEF StillDoomed, Doomed
  <2> QED BY <1>12, <1>b, <2>1 DEF PurgeDelete
<1>13. ASSUME NEW q \in Purgers, PurgeDeleteOrphans(q) PROVE Balanced(c)'
  <2>1. Cascaded(purge[q].msgs \cap DOMAIN messages) = {}
    BY DEF IntegrityInv, OrphansStayOrphans, Cascaded
  <2> QED BY <1>13, <1>a, <2>1 DEF PurgeDeleteOrphans, Without
<1>14. ASSUME NEW d \in DeliveryIDs, NEW x \in ChannelIDs, NEW nowUnix \in ClockReads,
              RequeueDead(d, x, nowUnix)
       PROVE  Balanced(c)'
  BY <1>14, <1>c DEF RequeueDead
<1>15. ASSUME NEW d \in DeliveryIDs, NEW x \in ChannelIDs, DeleteDead(d, x)
       PROVE  Balanced(c)'
  BY <1>15, <1>b DEF DeleteDead
<1>16. ASSUME NEW t \in TopicIDs, DeleteTopic(t) PROVE Balanced(c)'
  <2>1. c \in DOMAIN channels /\ TopicOf(c) # t /\ channels'[c] = channels[c]
    BY <1>16 DEF DeleteTopic, Without, ChannelsOf, TopicOf
  <2>2. \A d \in Cascaded(MessagesOf(t)) : TopicOf(ChannelOf(d)) = t
    BY DEF Cascaded, MessagesOf, IntegrityInv, Integrity
  <2>3. DeliveriesOf(c)' = DeliveriesOf(c)
    BY <1>16, <2>1, <2>2 DEF DeleteTopic, Without, DeliveriesOf
  <2>4. counters'[CoordOf(c)] = counters[CoordOf(c)]
    <3>1. CoordOf(c) \in StatCoords /\ CoordOf(c)[1] # t
      BY <2>1 DEF CoordOf, TypeOK, StatCoords, TopicOf
    <3> QED BY <1>16, <3>1 DEF DeleteTopic, DiscardStats
  <2> QED BY <1>0, <1>16, <2>1, <2>3, <2>4, BalanceKept DEF DeleteTopic
<1>17. ASSUME NEW x \in ChannelIDs, DeleteChannel(x) PROVE Balanced(c)'
  <2>1. c \in DOMAIN channels /\ c # x /\ channels'[c] = channels[c]
    BY <1>17 DEF DeleteChannel, Without
  <2>2. DeliveriesOf(c)' = DeliveriesOf(c)
    BY <1>17, <2>1 DEF DeleteChannel, Without, DeliveriesOf
  <2>3. counters'[CoordOf(c)] = counters[CoordOf(c)]
    <3>1. CoordOf(c) \in StatCoords /\ CoordOf(c)[2] # x
      BY <2>1 DEF CoordOf, TypeOK, StatCoords, TopicOf
    <3> QED BY <1>17, <3>1 DEF DeleteChannel, DiscardStats
  <2> QED BY <1>0, <1>17, <2>1, <2>2, <2>3, BalanceKept DEF DeleteChannel
<1> QED
  BY <1>1, <1>2, <1>3, <1>4, <1>5, <1>6, <1>7, <1>8, <1>9, <1>10, <1>11, <1>12,
     <1>13, <1>14, <1>15, <1>16, <1>17
  DEF Next, Topology, Publishing, Consuming, Maintenance, Purging, Admin

(* No step counts for a channel id that was not handed out yet.            *)
LEMMA NoEarlyStatsStep ==
  ASSUME TypeOK, IntegrityInv, StatsInv, [Next]_vars,
         NEW k \in StatCoords, k[2] > lastID'.channel
  PROVE  counters'[k] = [s \in StatKinds |-> 0]
<1>0. /\ lastID.channel \in Nat /\ lastID'.channel \in Nat /\ k[2] \in Nat
      /\ k[1] \in TopicIDs
  BY TypeStep, SqliteStoreAssumption DEF TypeOK, StatCoords, ChannelIDs
<1>1. lastID'.channel >= lastID.channel
  <2>1. CASE Topology
    BY <1>0, <2>1 DEF Topology, EnsureTopic, EnsureChannel, TypeOK
  <2>2. CASE \/ lastID' = lastID
             \/ \E n : lastID' = [lastID EXCEPT !.message = n]
             \/ \E n : lastID' = [lastID EXCEPT !.lease = n]
    BY <1>0, <2>2 DEF TypeOK
  <2>3. ASSUME NEW p \in Claimers, ClaimLease(p) PROVE lastID'.channel >= lastID.channel
    BY <1>0, <2>2, <2>3 DEF ClaimLease
  <2>4. CASE Publishing
    BY <2>2, <2>4 DEF Publishing, Publish
  <2>5. CASE Tick \/ Maintenance \/ Admin \/ UNCHANGED vars
    BY <2>2, <2>5 DEF Tick, Maintenance, ReapExpiredLeases, Purging, PurgeSelect, PurgeDelete,
       PurgeSelectOrphans, PurgeDeleteOrphans, PurgeAbort, Admin, RequeueDead, DeleteDead,
       DeleteTopic, DeleteChannel, vars
  <2> QED BY <2>1, <2>2, <2>3, <2>4, <2>5
          DEF Next, Consuming, ClaimPoll, ClaimBusy, ClaimAbort, Ack, Requeue
<1>2. k[2] > lastID.channel
  BY <1>0, <1>1
<1>3. counters[k] = [s \in StatKinds |-> 0]
  BY <1>2 DEF StatsInv, NoEarlyStats
<1>a. CASE counters' = counters
  BY <1>3, <1>a
<1>b. ASSUME NEW kind \in StatKinds, NEW ids \in SUBSET DOMAIN deliveries,
             counters' = recordStat(counters, kind, ids)
      PROVE  counters'[k] = [s \in StatKinds |-> 0]
  <2>1. \A d \in ids : ChannelOf(d) \in DOMAIN channels
    BY DEF IntegrityInv, Integrity
  <2> QED BY <1>2, <1>3, <1>b, <2>1, RecordStatNotEarly DEF TypeOK
<1>c. ASSUME NEW coords, counters' = DiscardStats(coords)
      PROVE  counters'[k] = [s \in StatKinds |-> 0]
  BY <1>3, <1>c DEF DiscardStats
<1>4. CASE Tick \/ Topology \/ UNCHANGED vars \/ ReapExpiredLeases
  BY <1>4, <1>a DEF Tick, Topology, EnsureTopic, EnsureChannel, vars, ReapExpiredLeases
<1>5. ASSUME NEW t \in TopicIDs, NEW opts \in Opts, NEW nowUnix \in ClockReads,
             Publish(t, opts, nowUnix)
      PROVE  counters'[k] = [s \in StatKinds |-> 0]
  <2> DEFINE new == {lastID.message + 1} \X ChannelsOf(t)
  <2>1. counters' = IF new = {} THEN [counters EXCEPT ![<<t, 0>>]["publish"] = @ + 1]
                                ELSE recordStat(counters, "publish", new)
    BY <1>5 DEF Publish
  <2>2. \A d \in new : ChannelOf(d) \in DOMAIN channels
    BY DEF ChannelOf, ChannelsOf
  <2>3. k # <<t, 0>>
    BY <1>0, <1>2
  <2> HIDE DEF new
  <2>4. CASE new = {}
    BY <1>3, <2>1, <2>3, <2>4 DEF TypeOK, CounterTables
  <2>5. CASE new # {}
    <3>1. counters \in CounterTables /\ "publish" \in StatKinds
      BY DEF TypeOK, StatKinds
    <3>2. recordStat(counters, "publish", new)[k] = counters[k]
      BY <1>2, <2>2, <3>1, RecordStatNotEarly
    <3> QED BY <1>3, <2>1, <2>5, <3>2
  <2> QED BY <2>4, <2>5
<1>6. ASSUME NEW p \in Claimers, NEW x, ClaimPoll(p, x) \/ ClaimBusy(p) \/ ClaimAbort(p)
      PROVE  counters'[k] = [s \in StatKinds |-> 0]
  BY <1>6, <1>a DEF ClaimPoll, ClaimBusy, ClaimAbort
<1>7. ASSUME NEW p \in Claimers, ClaimLease(p)
      PROVE  counters'[k] = [s \in StatKinds |-> 0]
  <2> DEFINE leased == Leasable(claim[p].ids)
             dead   == {d \in leased :
                          Leased(deliveries[d], lastID.lease + 1, now + LeaseSec).status = "dead"}
             cnt    == recordStat(counters, "claim", leased)
  <2>1. CASE leased = {}
    BY <1>7, <1>a, <2>1 DEF ClaimLease
  <2>2. CASE leased # {}
    <3>1. counters' = recordStat(cnt, "dead", dead)
      BY <1>7, <2>2 DEF ClaimLease
    <3>2. \A d \in leased : d \in DeliveryIDs /\ ChannelOf(d) \in DOMAIN channels
      BY DEF Leasable, IntegrityInv, Integrity, TypeOK
    <3>3. \A d \in dead : ChannelOf(d) \in DOMAIN channels
      BY <3>2
    <3>4. counters \in CounterTables /\ "claim" \in StatKinds /\ "dead" \in StatKinds
      BY DEF TypeOK, StatKinds
    <3> HIDE DEF leased, dead
    <3>5. cnt \in CounterTables
      BY <3>2, <3>4, RecordStatType
    <3>6. cnt[k] = counters[k]
      BY <1>2, <3>2, <3>4, RecordStatNotEarly
    <3> HIDE DEF cnt
    <3>7. recordStat(cnt, "dead", dead)[k] = cnt[k]
      BY <1>2, <3>3, <3>4, <3>5, RecordStatNotEarly
    <3> QED BY <1>3, <3>1, <3>6, <3>7
  <2> QED BY <2>1, <2>2
<1>8. ASSUME NEW i \in issued,
             Ack(i[1], i[2]) \/ \E at \in RequeueAt : Requeue(i[1], i[2], at)
      PROVE  counters'[k] = [s \in StatKinds |-> 0]
  BY <1>8, <1>b DEF Ack, Requeue, HoldsLease, StatKinds
<1>9. ASSUME NEW q \in Purgers, Purging(q) \/ PurgeAbort(q)
      PROVE  counters'[k] = [s \in StatKinds |-> 0]
  <2>1. StillDoomed(purge[q].ids) \subseteq DOMAIN deliveries /\ "purged" \in StatKinds
    BY DEF StillDoomed, Doomed, StatKinds
  <2> QED BY <1>9, <1>a, <1>b, <2>1 DEF Purging, PurgeSelect, PurgeDelete,
                                 PurgeSelectOrphans, PurgeDeleteOrphans, PurgeAbort
<1>10. ASSUME NEW d \in DeliveryIDs, NEW x \in ChannelIDs,
              DeleteDead(d, x) \/ \E nowUnix \in ClockReads : RequeueDead(d, x, nowUnix)
       PROVE  counters'[k] = [s \in StatKinds |-> 0]
  BY <1>10, <1>b DEF DeleteDead, RequeueDead, StatKinds
<1>11. ASSUME NEW t \in TopicIDs, DeleteTopic(t)
       PROVE  counters'[k] = [s \in StatKinds |-> 0]
  <2>1. counters' = DiscardStats({x \in StatCoords : x[1] = t})
    BY <1>11 DEF DeleteTopic
  <2> QED BY <1>c, <2>1
<1>12. ASSUME NEW c \in ChannelIDs, DeleteChannel(c)
       PROVE  counters'[k] = [s \in StatKinds |-> 0]
  <2>1. counters' = DiscardStats({x \in StatCoords : x[2] = c})
    BY <1>12 DEF DeleteChannel
  <2> QED BY <1>c, <2>1
<1> QED
  BY <1>4, <1>5, <1>6, <1>7, <1>8, <1>9, <1>10, <1>11, <1>12
  DEF Next, Publishing, Consuming, Maintenance, Admin

(* The counters of every live channel account for all its deliveries:      *)
(* publishes = rows stored + acks + purges, whatever interleaving of       *)
(* claims, acks, two-statement purges, dead-letter operations and cascades *)
(* ran before.                                                             *)
THEOREM CountersBalance == Spec => []StatsConserved
<1>1. Init => StatsInv
  BY DEF Init, StatsInv, NoEarlyStats, StatsConserved
<1>2. TypeOK /\ FencingInv /\ IntegrityInv /\ StatsInv /\ [Next]_vars => StatsInv'
  <2> SUFFICES ASSUME TypeOK, FencingInv, IntegrityInv, StatsInv, [Next]_vars
               PROVE  StatsInv'
    OBVIOUS
  <2>1. NoEarlyStats'
    BY NoEarlyStatsStep DEF NoEarlyStats, StatCoords, TopicIDs, ChannelIDs, StatKinds
  <2>2. \A c \in DOMAIN channels' : Balanced(c)'
    BY BalanceStep
  <2>3. StatsConserved'
    BY <2>2 DEF StatsConserved, Balanced, CoordOf
  <2> QED BY <2>1, <2>3 DEF StatsInv
<1>3. StatsInv => StatsConserved
  BY DEF StatsInv
<1> QED BY <1>1, <1>2, <1>3, TypeCorrect, FencingHolds, IntegrityInvHolds, PTL DEF Spec

----------------------------------------------------------------------------
(* The SQLite driver implements LeaseQueue: each of its steps, seen        *)
(* through the mapping of SqliteQueue, is a step of the lease queue or     *)
(* changes nothing of it.                                                  *)

(* The mapping, id by id, before and after a step. *)
LEMMA QueueRows ==
  /\ DOMAIN queueOfTable = DeliveryIDs /\ DOMAIN queueOfTable' = DeliveryIDs
  /\ \A d \in DeliveryIDs : queueOfTable[d] = QueueRowOf(d)
  /\ \A d \in DeliveryIDs : queueOfTable'[d] = QueueRowOf(d)'
  /\ \A d \in DOMAIN deliveries : QueueRowOf(d) = Shown(deliveries[d])
  /\ \A d \in DOMAIN deliveries' : QueueRowOf(d)' = Shown(deliveries'[d])
  /\ \A d : d \notin DOMAIN deliveries /\ MessageOf(d) <= lastID.message
              => QueueRowOf(d) = Queue!Absent("gone")
  /\ \A d : d \notin DOMAIN deliveries' /\ MessageOf(d) <= lastID'.message
              => QueueRowOf(d)' = Queue!Absent("gone")
  /\ \A d : d \notin DOMAIN deliveries /\ ~(MessageOf(d) <= lastID.message)
              => QueueRowOf(d) = Queue!Absent("new")
  /\ \A d : d \notin DOMAIN deliveries' /\ ~(MessageOf(d) <= lastID'.message)
              => QueueRowOf(d)' = Queue!Absent("new")
<1>1. /\ DOMAIN queueOfTable = DeliveryIDs /\ DOMAIN queueOfTable' = DeliveryIDs
      /\ \A d \in DeliveryIDs : queueOfTable[d] = QueueRowOf(d)
      /\ \A d \in DeliveryIDs : queueOfTable'[d] = QueueRowOf(d)'
  BY DEF queueOfTable, DeliveryIDs, MessageIDs, ChannelIDs
<1>2. /\ \A d \in DOMAIN deliveries : QueueRowOf(d) = Shown(deliveries[d])
      /\ \A d \in DOMAIN deliveries' : QueueRowOf(d)' = Shown(deliveries'[d])
  BY DEF QueueRowOf, Shown
<1>3. /\ \A d : d \notin DOMAIN deliveries /\ MessageOf(d) <= lastID.message
                  => QueueRowOf(d) = Queue!Absent("gone")
      /\ \A d : d \notin DOMAIN deliveries /\ ~(MessageOf(d) <= lastID.message)
                  => QueueRowOf(d) = Queue!Absent("new")
  BY DEF QueueRowOf, PhaseOfMissing, Queue!Absent
<1>4. /\ \A d : d \notin DOMAIN deliveries' /\ MessageOf(d) <= lastID'.message
                  => QueueRowOf(d)' = Queue!Absent("gone")
      /\ \A d : d \notin DOMAIN deliveries' /\ ~(MessageOf(d) <= lastID'.message)
                  => QueueRowOf(d)' = Queue!Absent("new")
  BY DEF QueueRowOf, PhaseOfMissing, Queue!Absent
<1> QED BY <1>1, <1>2, <1>3, <1>4

(* A step that leaves the delivery table and the two sequences alone is    *)
(* no step of the queue.                                                   *)
LEMMA QuietForQueue ==
  ASSUME deliveries' = deliveries, lastID'.message = lastID.message,
         lastID'.lease = lastID.lease
  PROVE  UNCHANGED Queue!queueVars
<1>1. \A d \in DeliveryIDs : QueueRowOf(d)' = QueueRowOf(d)
  BY DEF QueueRowOf, PhaseOfMissing
<1>2. queueOfTable' = queueOfTable
  BY <1>1 DEF queueOfTable, DeliveryIDs, MessageIDs, ChannelIDs
<1> QED BY <1>2 DEF Queue!queueVars

(* A DELETE of stored rows. *)
LEMMA RemoveMaps ==
  ASSUME TypeOK, IDsHandedOut, NEW S \in SUBSET DOMAIN deliveries,
         deliveries' = Without(deliveries, S), lastID' = lastID
  PROVE  Queue!QueueNext
<1>1. /\ DOMAIN deliveries' = DOMAIN deliveries \ S
      /\ \A d \in DOMAIN deliveries' : deliveries'[d] = deliveries[d]
  BY DEF Without
<1>2. S \subseteq Queue!Stored
  <2>1. \A d \in S : /\ d \in DeliveryIDs
                     /\ queueOfTable[d].phase \in {"pending", "in_flight", "dead"}
    BY QueueRows DEF Shown, TypeOK, Delivery, Status
  <2> QED BY <2>1 DEF Queue!Stored, Queue!In
<1>3. \A d \in DeliveryIDs :
        QueueRowOf(d)' = IF d \in S THEN Queue!Absent("gone") ELSE queueOfTable[d]
  <2> SUFFICES ASSUME NEW d \in DeliveryIDs
               PROVE  QueueRowOf(d)' = IF d \in S THEN Queue!Absent("gone")
                                                  ELSE queueOfTable[d]
    OBVIOUS
  <2>1. CASE d \in S
    <3>1. MessageOf(d) <= lastID'.message /\ d \notin DOMAIN deliveries'
      BY <1>1, <2>1 DEF IDsHandedOut
    <3> QED BY <2>1, <3>1, QueueRows
  <2>2. CASE d \in DOMAIN deliveries /\ d \notin S
    BY <1>1, <2>2, QueueRows
  <2>3. CASE d \notin DOMAIN deliveries
    BY <1>1, <2>3, QueueRows
  <2> QED BY <2>1, <2>2, <2>3
<1>4. queueOfTable' = [d \in DeliveryIDs |->
                         IF d \in S THEN Queue!Absent("gone") ELSE queueOfTable[d]]
  BY <1>3 DEF queueOfTable, DeliveryIDs, MessageIDs, ChannelIDs
<1>5. Queue!Remove(S)
  BY <1>2, <1>4 DEF Queue!Remove
<1> QED BY <1>2, <1>5 DEF Queue!QueueNext

(* The row a claim writes is the row a lease of the queue makes. *)
LEMMA LeaseRowShown ==
  ASSUME NEW r \in Delivery, r.lease_token = 0, NEW token \in Nat, NEW time \in Nat
  PROVE  Shown(Leased(r, token, time)) = Queue!LeaseRow(Shown(r), token)
<1>1. Shown(r).attempts = r.attempts /\ Shown(r).budget = r.max_attempts
  BY DEF Shown
<1> DEFINE q == Shown(r)
           n == r.attempts + 1
<1>2. q.attempts + 1 = n /\ q.budget = r.max_attempts
  BY <1>1
<1>3. Queue!LeaseRow(q, token) =
        IF n > r.max_attempts
          THEN [q EXCEPT !.phase = "dead", !.attempts = n]
          ELSE [q EXCEPT !.phase = "in_flight", !.attempts = n, !.token = token]
  <2> HIDE DEF q, n
  <2> QED BY <1>2, Zenon DEF Queue!LeaseRow
<1>4. Shown(Leased(r, token, time)) =
        IF n > r.max_attempts
          THEN [q EXCEPT !.phase = "dead", !.attempts = n]
          ELSE [q EXCEPT !.phase = "in_flight", !.attempts = n, !.token = token]
  BY ShownLeased, Zenon
<1> QED BY <1>3, <1>4, Zenon

(* A step that only rewrites rows leaves the image of the others alone. *)
LEMMA OthersStay ==
  ASSUME DOMAIN deliveries' = DOMAIN deliveries, lastID'.message = lastID.message,
         NEW S, \A d \in DOMAIN deliveries \ S : deliveries'[d] = deliveries[d]
  PROVE  \A d \in DeliveryIDs \ (S \cap DOMAIN deliveries) :
           queueOfTable'[d] = queueOfTable[d]
  BY QueueRows

(* A publish: the deliveries of the new message exist for the channels the *)
(* topic has now, and will never exist for any other channel.              *)
LEMMA PublishMaps ==
  ASSUME TypeOK, IDsHandedOut, NEW t \in TopicIDs, NEW opts \in Opts,
         NEW nowUnix \in ClockReads, Publish(t, opts, nowUnix)
  PROVE  Queue!QueueNext
<1> DEFINE id   == lastID.message + 1
           new  == {id} \X ChannelsOf(t)
           b    == MaxAttemptsOf(opts)
           row  == NewRow(AvailableAt(opts, nowUnix), ExpiresAt(opts, nowUnix), b)
           rest == {d \in DeliveryIDs : MessageOf(d) = id} \ new
<1>1. /\ lastID' = [lastID EXCEPT !.message = id]
      /\ deliveries' = [d \in DOMAIN deliveries \cup new |->
                          IF d \in new THEN row ELSE deliveries[d]]
  BY DEF Publish
<1>2. /\ lastID.message \in Nat /\ id \in MessageIDs
      /\ lastID'.message = id /\ lastID'.lease = lastID.lease
  BY <1>1, SqliteStoreAssumption DEF TypeOK, Publish, MessageIDs
<1>3. /\ new \subseteq DeliveryIDs /\ \A d \in new : MessageOf(d) = id
  BY <1>2 DEF ChannelsOf, TypeOK, DeliveryIDs, MessageOf
<1>4. \A d \in DeliveryIDs : MessageOf(d) \in Nat
  BY DEF DeliveryIDs, MessageIDs, MessageOf
<1>5. \A d \in DOMAIN deliveries : d \in DeliveryIDs /\ MessageOf(d) <= lastID.message
  BY DEF TypeOK, IDsHandedOut
<1>6. Shown(row) = Queue!Pending(b)
  BY DEF Shown, NewRow, NULL, Queue!Pending
<1> HIDE DEF id, new, b, row
<1>7. \A d \in new \cup rest : d \in DeliveryIDs /\ queueOfTable[d].phase = "new"
  <2> SUFFICES ASSUME NEW d \in new \cup rest
               PROVE  d \in DeliveryIDs /\ queueOfTable[d].phase = "new"
    OBVIOUS
  <2>1. d \in DeliveryIDs /\ MessageOf(d) = id
    BY <1>3
  <2>2. ~(MessageOf(d) <= lastID.message)
    BY <1>2, <2>1 DEF id
  <2>3. queueOfTable[d] = Queue!Absent("new")
    BY <1>5, <2>1, <2>2, QueueRows
  <2> QED BY <2>1, <2>3 DEF Queue!Absent
<1>8. \A d \in DeliveryIDs :
        QueueRowOf(d)' = IF d \in new THEN Queue!Pending(b)
                         ELSE IF d \in rest THEN Queue!Absent("gone")
                         ELSE queueOfTable[d]
  <2> SUFFICES ASSUME NEW d \in DeliveryIDs
               PROVE  QueueRowOf(d)' = IF d \in new THEN Queue!Pending(b)
                                       ELSE IF d \in rest THEN Queue!Absent("gone")
                                       ELSE queueOfTable[d]
    OBVIOUS
  <2>1. CASE d \in new
    <3>1. d \in DOMAIN deliveries' /\ deliveries'[d] = row
      BY <1>1, <2>1
    <3> QED BY <1>6, <2>1, <3>1, QueueRows
  <2>2. CASE d \in rest
    <3>1. d \notin DOMAIN deliveries' /\ MessageOf(d) <= lastID'.message
      BY <1>1, <1>2, <1>5, <2>2 DEF id
    <3> QED BY <2>2, <3>1, QueueRows
  <2>3. CASE d \in DOMAIN deliveries /\ d \notin new /\ d \notin rest
    <3>1. d \in DOMAIN deliveries' /\ deliveries'[d] = deliveries[d]
      BY <1>1, <2>3
    <3> QED BY <2>3, <3>1, QueueRows
  <2>4. CASE d \notin DOMAIN deliveries /\ d \notin new /\ d \notin rest
    <3>1. d \notin DOMAIN deliveries'
      BY <1>1, <2>4
    <3>2. MessageOf(d) # id
      BY <2>4
    <3>3. (MessageOf(d) <= lastID'.message) <=> (MessageOf(d) <= lastID.message)
      BY <1>2, <1>4, <3>2 DEF id
    <3>4. QueueRowOf(d)' = QueueRowOf(d)
      BY <2>4, <3>1, <3>3, QueueRows
    <3> QED BY <2>4, <3>4, QueueRows
  <2> QED BY <2>1, <2>2, <2>3, <2>4
<1>9. queueOfTable' = [d \in DeliveryIDs |->
                         IF d \in new THEN Queue!Pending(b)
                         ELSE IF d \in rest THEN Queue!Absent("gone")
                         ELSE queueOfTable[d]]
  BY <1>8 DEF queueOfTable, DeliveryIDs, MessageIDs, ChannelIDs
<1>10. Queue!Enqueue(new, rest, b)
  <2>1. new \cup rest \subseteq Queue!In("new")
    BY <1>7 DEF Queue!In
  <2> HIDE DEF rest
  <2> QED BY <1>2, <1>9, <2>1 DEF Queue!Enqueue
<1>11. /\ new \in SUBSET Queue!In("new")
       /\ rest \in SUBSET (Queue!In("new") \ new)
  BY <1>7 DEF Queue!In
<1>12. b \in {MaxAttemptsOf(o) : o \in Opts}
  BY DEF b
<1> HIDE DEF rest
<1> QED BY <1>10, <1>11, <1>12 DEF Queue!QueueNext

(* A claim that leases a row is a lease of all the rows of its batch that  *)
(* are still ready, those it buries included.                              *)
LEMMA ClaimMaps ==
  ASSUME TypeOK, FencingInv, NEW p \in Claimers, ClaimLease(p)
  PROVE  [Queue!QueueNext]_Queue!queueVars
<1> DEFINE token  == lastID.lease + 1
           leased == Leasable(claim[p].ids)
           New(d) == Leased(deliveries[d], token, now + LeaseSec)
<1>1. CASE leased = {}
  BY <1>1, QuietForQueue DEF ClaimLease
<1>2. CASE leased # {}
  <2>1. /\ lastID' = [lastID EXCEPT !.lease = token]
        /\ deliveries' = [d \in DOMAIN deliveries |->
                            IF d \in leased THEN New(d) ELSE deliveries[d]]
    BY <1>2 DEF ClaimLease, Updated
  <2>2. /\ lastID'.lease = token /\ lastID'.message = lastID.message
        /\ token \in Nat /\ now + LeaseSec \in Nat
    BY <2>1, SqliteStoreAssumption DEF TypeOK
  <2>3. \A d \in leased : /\ d \in DOMAIN deliveries
                          /\ deliveries[d] \in Delivery
                          /\ deliveries[d].status = "pending"
                          /\ deliveries[d].lease_token = 0
    BY DEF Leasable, Ready, TypeOK, FencingInv, LeaseFencing, LeaseColumns, NULL
  <2> HIDE DEF leased
  <2>4. \A d \in leased : /\ d \in DOMAIN deliveries' /\ deliveries'[d] = New(d)
                          /\ Shown(New(d)) = Queue!LeaseRow(Shown(deliveries[d]), token)
    <3> SUFFICES ASSUME NEW d \in leased
                 PROVE  /\ d \in DOMAIN deliveries' /\ deliveries'[d] = New(d)
                        /\ Shown(New(d)) = Queue!LeaseRow(Shown(deliveries[d]), token)
      OBVIOUS
    <3>1. d \in DOMAIN deliveries' /\ deliveries'[d] = New(d)
      BY <2>1, <2>3
    <3> HIDE DEF token
    <3>2. Shown(New(d)) = Queue!LeaseRow(Shown(deliveries[d]), token)
      BY <2>2, <2>3, LeaseRowShown
    <3> QED BY <3>1, <3>2
  <2> HIDE DEF New, token
  <2>5. leased \subseteq Queue!In("pending")
    <3>1. \A d \in leased : d \in DeliveryIDs /\ queueOfTable[d].phase = "pending"
      BY <2>3, QueueRows DEF Shown, TypeOK
    <3> QED BY <3>1 DEF Queue!In
  <2>6. \A d \in DeliveryIDs :
          queueOfTable'[d] = IF d \in leased THEN Queue!LeaseRow(queueOfTable[d], token)
                                             ELSE queueOfTable[d]
    <3> SUFFICES ASSUME NEW d \in DeliveryIDs
                 PROVE  queueOfTable'[d] =
                          IF d \in leased THEN Queue!LeaseRow(queueOfTable[d], token)
                                          ELSE queueOfTable[d]
      OBVIOUS
    <3>1. CASE d \in leased
      BY <2>3, <2>4, <3>1, QueueRows
    <3>2. CASE d \notin leased
      BY <2>1, <2>2, <3>2, OthersStay
    <3> QED BY <3>1, <3>2
  <2>7. queueOfTable' = [d \in DeliveryIDs |->
                           IF d \in leased THEN Queue!LeaseRow(queueOfTable[d], token)
                                           ELSE queueOfTable[d]]
    BY <2>6 DEF queueOfTable, DeliveryIDs, MessageIDs, ChannelIDs
  <2>8. Queue!Lease(leased)
    BY <1>2, <2>2, <2>5, <2>7 DEF Queue!Lease, token
  <2> QED BY <2>5, <2>8 DEF Queue!QueueNext
<1> QED BY <1>1, <1>2

(* Ack: the holder of the current token settles the delivery. *)
LEMMA AckMaps ==
  ASSUME TypeOK, FencingInv, NEW i \in issued, Ack(i[1], i[2])
  PROVE  Queue!QueueNext
<1> DEFINE d == i[1]
           k == i[2]
<1>1. /\ HoldsLease(d, k) /\ deliveries' = Without(deliveries, {d})
      /\ lastID' = lastID
  BY DEF Ack
<1>2. /\ d \in DeliveryIDs /\ d \in DOMAIN deliveries /\ k \in 1..lastID.lease
  BY <1>1 DEF HoldsLease, TypeOK, FencingInv, IDsHandedOut, Tokens
<1>3. Queue!Holds(d, k)
  BY <1>1, <1>2, QueueRows DEF Queue!Holds, HoldsLease, Shown
<1>4. /\ DOMAIN deliveries' = DOMAIN deliveries \ {d}
      /\ \A x \in DOMAIN deliveries' : deliveries'[x] = deliveries[x]
  BY <1>1 DEF Without
<1> HIDE DEF d, k
<1>5. \A x \in DeliveryIDs :
        queueOfTable'[x] = IF x = d THEN Queue!Absent("gone") ELSE queueOfTable[x]
  <2> SUFFICES ASSUME NEW x \in DeliveryIDs
               PROVE  queueOfTable'[x] = IF x = d THEN Queue!Absent("gone")
                                                  ELSE queueOfTable[x]
    OBVIOUS
  <2>1. CASE x = d
    <3>1. x \notin DOMAIN deliveries' /\ MessageOf(x) <= lastID'.message
      BY <1>1, <1>2, <1>4, <2>1 DEF FencingInv, IDsHandedOut
    <3> QED BY <2>1, <3>1, QueueRows
  <2>2. CASE x # d /\ x \in DOMAIN deliveries
    BY <1>4, <2>2, QueueRows
  <2>3. CASE x # d /\ x \notin DOMAIN deliveries
    BY <1>1, <1>4, <2>3, QueueRows
  <2> QED BY <2>1, <2>2, <2>3
<1>6. queueOfTable' = [queueOfTable EXCEPT ![d] = Queue!Absent("gone")]
  BY <1>2, <1>5 DEF queueOfTable, DeliveryIDs, MessageIDs, ChannelIDs
<1>7. Queue!Settle(d, k)
  BY <1>1, <1>3, <1>6 DEF Queue!Settle
<1> QED BY <1>2, <1>7 DEF Queue!QueueNext

(* Requeue: the holder of the current token puts the delivery back. *)
LEMMA RequeueMaps ==
  ASSUME TypeOK, FencingInv, NEW i \in issued, NEW at \in RequeueAt,
         Requeue(i[1], i[2], at)
  PROVE  Queue!QueueNext
<1> DEFINE d == i[1]
           k == i[2]
           a == IF at = 0 THEN now ELSE at
<1>1. /\ HoldsLease(d, k) /\ lastID' = lastID
      /\ deliveries' = [deliveries EXCEPT ![d] = Released(deliveries[d], a)]
  BY DEF Requeue
<1>2. /\ d \in DeliveryIDs /\ d \in DOMAIN deliveries /\ k \in 1..lastID.lease
      /\ deliveries[d] \in Delivery
  BY <1>1 DEF HoldsLease, TypeOK, FencingInv, IDsHandedOut, Tokens
<1>3. a \in Nat
  BY SqliteStoreAssumption DEF TypeOK
<1>4. Queue!Holds(d, k)
  BY <1>1, <1>2, QueueRows DEF Queue!Holds, HoldsLease, Shown
<1> HIDE DEF d, k, a
<1>5. Shown(Released(deliveries[d], a)) =
        [Shown(deliveries[d]) EXCEPT !.phase = "pending", !.token = 0]
  BY <1>2, <1>3, ShownReleased
<1>6. /\ DOMAIN deliveries' = DOMAIN deliveries
      /\ deliveries'[d] = Released(deliveries[d], a)
      /\ \A x \in DOMAIN deliveries \ {d} : deliveries'[x] = deliveries[x]
  BY <1>1, <1>2
<1>7. \A x \in DeliveryIDs \ {d} : queueOfTable'[x] = queueOfTable[x]
  BY <1>1, <1>6, OthersStay
<1>8. queueOfTable'[d] = [queueOfTable[d] EXCEPT !.phase = "pending", !.token = 0]
  BY <1>2, <1>5, <1>6, QueueRows
<1>9. queueOfTable' = [queueOfTable EXCEPT ![d].phase = "pending", ![d].token = 0]
  BY <1>2, <1>7, <1>8, QueueRows DEF queueOfTable
<1>10. Queue!Release(d, k)
  BY <1>1, <1>4, <1>9 DEF Queue!Release
<1> QED BY <1>2, <1>10 DEF Queue!QueueNext

(* The reaper: a batch of leases whose time is over lapses. *)
LEMMA ReapMaps ==
  ASSUME TypeOK, ReapExpiredLeases
  PROVE  Queue!QueueNext
<1>1. PICK ids \in Batches(LapsedLeases, ReapOrder, ReapLimit) :
        deliveries' = Updated(ids, LAMBDA d : Released(deliveries[d], now))
  BY DEF ReapExpiredLeases
<1>2. /\ lastID' = lastID /\ now \in Nat
  BY SqliteStoreAssumption DEF ReapExpiredLeases, TypeOK
<1>3. \A d \in ids : /\ d \in DOMAIN deliveries /\ deliveries[d] \in Delivery
                     /\ deliveries[d].status = "in_flight"
  BY DEF Batches, LapsedLeases, LeaseLapsed, TypeOK
<1>4. /\ DOMAIN deliveries' = DOMAIN deliveries
      /\ \A d \in ids : deliveries'[d] = Released(deliveries[d], now)
      /\ \A d \in DOMAIN deliveries \ ids : deliveries'[d] = deliveries[d]
  BY <1>1, <1>3 DEF Updated
<1>5. ids \subseteq Queue!In("in_flight")
  <2>1. \A d \in ids : d \in DeliveryIDs /\ queueOfTable[d].phase = "in_flight"
    BY <1>3, QueueRows DEF Shown, TypeOK
  <2> QED BY <2>1 DEF Queue!In
<1>6. \A d \in DeliveryIDs :
        queueOfTable'[d] =
          IF d \in ids THEN [queueOfTable[d] EXCEPT !.phase = "pending", !.token = 0]
                       ELSE queueOfTable[d]
  <2> SUFFICES ASSUME NEW d \in DeliveryIDs
               PROVE  queueOfTable'[d] =
                        IF d \in ids
                          THEN [queueOfTable[d] EXCEPT !.phase = "pending", !.token = 0]
                          ELSE queueOfTable[d]
    OBVIOUS
  <2>1. CASE d \in ids
    <3>1. Shown(deliveries'[d]) =
            [Shown(deliveries[d]) EXCEPT !.phase = "pending", !.token = 0]
      <4>1. deliveries[d] \in Delivery /\ deliveries'[d] = Released(deliveries[d], now)
        BY <1>3, <1>4, <2>1
      <4> QED BY <1>2, <4>1, ShownReleased
    <3>2. d \in DOMAIN deliveries /\ d \in DOMAIN deliveries'
      BY <1>3, <1>4, <2>1
    <3> QED BY <2>1, <3>1, <3>2, QueueRows
  <2>2. CASE d \notin ids
    BY <1>2, <1>4, <2>2, OthersStay
  <2> QED BY <2>1, <2>2
<1>7. queueOfTable' =
        [d \in DeliveryIDs |->
           IF d \in ids THEN [queueOfTable[d] EXCEPT !.phase = "pending", !.token = 0]
                        ELSE queueOfTable[d]]
  BY <1>6 DEF queueOfTable, DeliveryIDs, MessageIDs, ChannelIDs
<1>8. Queue!Lapse(ids)
  BY <1>2, <1>5, <1>7 DEF Queue!Lapse
<1> QED BY <1>5, <1>8 DEF Queue!QueueNext

(* The admin's requeue of a dead letter. *)
LEMMA RequeueDeadMaps ==
  ASSUME TypeOK, FencingInv, NEW d \in DeliveryIDs, NEW c \in ChannelIDs,
         NEW nowUnix \in ClockReads, RequeueDead(d, c, nowUnix)
  PROVE  Queue!QueueNext
<1>1. /\ d \in DOMAIN deliveries /\ deliveries[d].status = "dead" /\ lastID' = lastID
      /\ deliveries' = [deliveries EXCEPT ![d] =
                          Revived(deliveries[d], nowUnix, FreshTTLSec)]
  BY DEF RequeueDead
<1>2. /\ deliveries[d] \in Delivery /\ nowUnix \in Nat /\ FreshTTLSec \in Nat
      /\ deliveries[d].lease_token = 0
  <2>1. deliveries[d].lease_token = 0
    BY <1>1 DEF FencingInv, LeaseFencing, LeaseColumns, NULL
  <2>2. deliveries[d] \in Delivery
    BY <1>1 DEF TypeOK
  <2>3. nowUnix \in Nat /\ FreshTTLSec \in Nat
    BY SqliteStoreAssumption DEF ClockReads, TypeOK
  <2> QED BY <2>1, <2>2, <2>3
<1>3. Shown(Revived(deliveries[d], nowUnix, FreshTTLSec)) =
        [Shown(deliveries[d]) EXCEPT !.phase = "pending", !.attempts = 0]
  BY <1>2, ShownRevived
<1>4. /\ DOMAIN deliveries' = DOMAIN deliveries
      /\ deliveries'[d] = Revived(deliveries[d], nowUnix, FreshTTLSec)
      /\ \A x \in DOMAIN deliveries \ {d} : deliveries'[x] = deliveries[x]
  BY <1>1
<1>5. \A x \in DeliveryIDs \ {d} : queueOfTable'[x] = queueOfTable[x]
  BY <1>1, <1>4, OthersStay
<1>6. queueOfTable'[d] = [queueOfTable[d] EXCEPT !.phase = "pending", !.attempts = 0]
  BY <1>1, <1>3, <1>4, QueueRows
<1>7. queueOfTable' = [queueOfTable EXCEPT ![d].phase = "pending", ![d].attempts = 0]
  BY <1>5, <1>6, QueueRows DEF queueOfTable
<1>8. queueOfTable[d].phase = "dead"
  BY <1>1, QueueRows DEF Shown
<1>9. Queue!Revive(d)
  BY <1>1, <1>7, <1>8 DEF Queue!Revive
<1> QED BY <1>9 DEF Queue!QueueNext

(* Every step of the driver, one case per action. *)
LEMMA QueueStep ==
  ASSUME TypeOK, FencingInv, [Next]_vars
  PROVE  [Queue!QueueNext]_Queue!queueVars
<1> DEFINE Goal == [Queue!QueueNext]_Queue!queueVars
<1> SUFFICES Goal
  OBVIOUS
<1>0. IDsHandedOut
  BY DEF FencingInv
<1>a. ASSUME UNCHANGED <<deliveries, lastID>> PROVE Goal
  BY <1>a, QuietForQueue
<1>b. ASSUME NEW S \in SUBSET DOMAIN deliveries,
             deliveries' = Without(deliveries, S), lastID' = lastID
      PROVE  Goal
  BY <1>0, <1>b, RemoveMaps
<1> HIDE DEF Goal
<1>1. CASE UNCHANGED vars
  BY <1>1, <1>a DEF vars
<1>2. CASE Tick
  BY <1>2, <1>a DEF Tick
<1>3. CASE Topology
  <2>1. /\ deliveries' = deliveries /\ lastID'.message = lastID.message
        /\ lastID'.lease = lastID.lease
    BY <1>3 DEF Topology, EnsureTopic, EnsureChannel, TypeOK
  <2> QED BY <2>1, QuietForQueue DEF Goal
<1>4. CASE Publishing
  BY <1>0, <1>4, PublishMaps DEF Publishing, Goal
<1>5. ASSUME NEW p \in Claimers, NEW c, ClaimPoll(p, c) \/ ClaimBusy(p) \/ ClaimAbort(p)
      PROVE  Goal
  BY <1>5, <1>a DEF ClaimPoll, ClaimBusy, ClaimAbort
<1>6. ASSUME NEW p \in Claimers, ClaimLease(p) PROVE Goal
  BY <1>6, ClaimMaps DEF Goal
<1>7. ASSUME NEW i \in issued, Ack(i[1], i[2]) PROVE Goal
  BY <1>7, AckMaps DEF Goal
<1>8. ASSUME NEW i \in issued, NEW at \in RequeueAt, Requeue(i[1], i[2], at) PROVE Goal
  BY <1>8, RequeueMaps DEF Goal
<1>9. CASE ReapExpiredLeases
  BY <1>9, ReapMaps DEF Goal
<1>10. ASSUME NEW q \in Purgers, PurgeSelect(q) \/ PurgeSelectOrphans(q) \/ PurgeAbort(q)
       PROVE  Goal
  BY <1>10, <1>a DEF PurgeSelect, PurgeSelectOrphans, PurgeAbort
<1>11. ASSUME NEW q \in Purgers, PurgeDelete(q) PROVE Goal
  <2>1. StillDoomed(purge[q].ids) \subseteq DOMAIN deliveries
    BY DEF StillDoomed, Doomed
  <2> QED BY <1>11, <1>b, <2>1 DEF PurgeDelete
<1>12. ASSUME NEW q \in Purgers, PurgeDeleteOrphans(q) PROVE Goal
  <2> DEFINE gone == purge[q].msgs \cap DOMAIN messages
  <2>1. Cascaded(gone) \subseteq DOMAIN deliveries
    BY DEF Cascaded
  <2>2. deliveries' = Without(deliveries, Cascaded(gone)) /\ lastID' = lastID
    BY <1>12 DEF PurgeDeleteOrphans
  <2> HIDE DEF gone
  <2> QED BY <1>b, <2>1, <2>2
<1>13. ASSUME NEW d \in DeliveryIDs, NEW c \in ChannelIDs, NEW nowUnix \in ClockReads,
              RequeueDead(d, c, nowUnix)
       PROVE  Goal
  BY <1>13, RequeueDeadMaps DEF Goal
<1>14. ASSUME NEW d \in DeliveryIDs, NEW c \in ChannelIDs, DeleteDead(d, c) PROVE Goal
  BY <1>14, <1>b DEF DeleteDead
<1>15. ASSUME NEW t \in TopicIDs, DeleteTopic(t) PROVE Goal
  <2>1. Cascaded(MessagesOf(t)) \subseteq DOMAIN deliveries
    BY DEF Cascaded
  <2> QED BY <1>15, <1>b, <2>1 DEF DeleteTopic
<1>16. ASSUME NEW c \in ChannelIDs, DeleteChannel(c) PROVE Goal
  <2>1. DeliveriesOf(c) \subseteq DOMAIN deliveries
    BY DEF DeliveriesOf
  <2> QED BY <1>16, <1>b, <2>1 DEF DeleteChannel
<1> QED
  BY <1>1, <1>2, <1>3, <1>4, <1>5, <1>6, <1>7, <1>8, <1>9, <1>10, <1>11, <1>12,
     <1>13, <1>14, <1>15, <1>16
  DEF Next, Consuming, Maintenance, Purging, Admin

(* driver/sqlite keeps the promise of store.Store: its behaviours, seen    *)
(* through the delivery table, are behaviours of the lease queue, whatever *)
(* the number of topics, channels, claimers and purgers.                   *)
THEOREM SqliteImplementsQueue == Spec => ImplementsQueue
<1>1. Init => Queue!QueueInit
  <2> SUFFICES ASSUME Init PROVE Queue!QueueInit
    OBVIOUS
  <2>1. \A d \in DeliveryIDs : queueOfTable[d] = Queue!Absent("new")
    <3>1. \A d \in DeliveryIDs : MessageOf(d) \in Nat \ {0}
      BY DEF DeliveryIDs, MessageIDs, MessageOf
    <3>2. DOMAIN deliveries = {} /\ lastID.message = 0
      BY DEF Init
    <3>3. \A d \in DeliveryIDs : d \notin DOMAIN deliveries /\ ~(MessageOf(d) <= lastID.message)
      BY <3>1, <3>2
    <3> QED BY <3>3, QueueRows
  <2>2. queueOfTable = [d \in DeliveryIDs |-> Queue!Absent("new")]
    BY <2>1 DEF queueOfTable, DeliveryIDs, MessageIDs, ChannelIDs
  <2>3. lastID.lease = 0
    BY DEF Init
  <2> QED BY <2>2, <2>3 DEF Queue!QueueInit
<1>2. TypeOK /\ FencingInv /\ [Next]_vars => [Queue!QueueNext]_Queue!queueVars
  BY QueueStep
<1> QED
  BY <1>1, <1>2, TypeCorrect, FencingHolds, PTL DEF Spec, ImplementsQueue, Queue!QueueSpec
=============================================================================
