------------------------- MODULE CachingStoreProofs -------------------------
(***************************************************************************)
(* MemoNeverWrong for any number of processes, goroutines and names.       *)
(*                                                                         *)
(* The property is not inductive: what a goroutine is about to store in    *)
(* the memo must be right or dead as well, an id in hand must not be given *)
(* out again, and a channel must not outlive its topic.  MemoInv says so.  *)
(***************************************************************************)
EXTENDS CachingStore, TLAPS

(* A call is at a program point of its operation, with the names that      *)
(* operation has.                                                          *)
CallShape(r) ==
  /\ r.pc \in {"load", "insert", "memo", "send", "invalidate", "inner", "channel",
               "memo_channel"} => r.op \in {"publish", "subscribe"}
  /\ r.pc \in {"send", "invalidate"} => r.op = "publish"
  /\ r.pc \in {"inner", "channel", "memo_channel"} => r.op = "subscribe"
  /\ r.pc = "sweep" => r.op \in {"publish", "delete_topic"}
  /\ r.op \in {"publish", "subscribe"} => r.topic \in TopicNames
  /\ r.op = "subscribe" /\ r.pc \notin {"ok", "gone", "error"} => r.channel \in ChannelNames

(* An id in hand was given out. *)
CallIDs(r) ==
  /\ r.pc \in {"memo", "send", "inner", "channel"} => r.id \in 1..lastID.topic
  /\ r.pc = "memo_channel" => r.id \in 1..lastID.channel

(* No channel outlives its topic. *)
ChannelsHaveTopics ==
  \A c \in DOMAIN channels : channels[c].topic_id \in DOMAIN topics

(* The types of the database and of the memos. *)
RowTypes ==
  /\ lastID \in [topic : Nat, channel : Nat]
  /\ DOMAIN topics \subseteq 1..lastID.topic
  /\ topics \in [DOMAIN topics -> TopicNames]
  /\ DOMAIN channels \subseteq 1..lastID.channel
  /\ channels \in [DOMAIN channels -> [topic_id : Nat, name : ChannelNames]]

MemoTypes ==
  /\ topicMemo \in [Procs -> [TopicNames -> 0..lastID.topic]]
  /\ channelMemo \in [Procs -> [ChannelKeys -> 0..lastID.channel]]
  /\ call \in [Threads -> Call]

(* What the calls hold is right or dead. *)
CallRight(r) ==
  /\ r.pc \in {"memo", "send", "channel"} => TopicIs(r.id, r.topic)
  /\ r.pc = "memo_channel" => ChannelIs(r.id, <<r.topic, r.channel>>)

MemoRight ==
  /\ \A p \in Procs, n \in TopicNames : TopicIs(topicMemo[p][n], n)
  /\ \A p \in Procs, k \in ChannelKeys : ChannelIs(channelMemo[p][k], k)

(* The inductive invariant. *)
MemoInv ==
  /\ RowTypes
  /\ MemoTypes
  /\ ChannelsHaveTopics
  /\ MemoRight
  /\ \A th \in Threads : CallShape(call[th]) /\ CallIDs(call[th]) /\ CallRight(call[th])

----------------------------------------------------------------------------
(* What the driver's two inserts do to the tables: an existing row is      *)
(* returned, or a row is added under an id nobody has seen.                *)
LEMMA InsertTopicAdds ==
  ASSUME RowTypes, NEW name \in TopicNames, NEW id \in 1..MaxTopicID,
         InsertTopic(name, id), UNCHANGED channels
  PROVE  /\ RowTypes'
         /\ lastID'.topic >= lastID.topic /\ lastID'.channel = lastID.channel
         /\ id \in 1..lastID'.topic
         /\ id \in DOMAIN topics' /\ topics'[id] = name
         /\ DOMAIN topics \subseteq DOMAIN topics'
         /\ \A t \in DOMAIN topics : topics'[t] = topics[t]
         /\ \A t \in DOMAIN topics' \ DOMAIN topics : t > lastID.topic
<1>1. CASE \E t \in DOMAIN topics : topics[t] = name
  BY <1>1 DEF InsertTopic, RowTypes
<1>2. CASE ~ \E t \in DOMAIN topics : topics[t] = name
  <2>1. /\ id = lastID.topic + 1
        /\ topics' = [i \in DOMAIN topics \cup {id} |-> IF i = id THEN name ELSE topics[i]]
        /\ lastID' = [lastID EXCEPT !.topic = id]
    BY <1>2 DEF InsertTopic, NextID, With
  <2>2. lastID' \in [topic : Nat, channel : Nat] /\ lastID'.topic = id
        /\ lastID'.channel = lastID.channel
    BY <2>1 DEF RowTypes
  <2>3. DOMAIN topics' = DOMAIN topics \cup {id}
    BY <2>1
  <2>4. \A t \in DOMAIN topics : t # id
    BY <2>1 DEF RowTypes
  <2> QED BY <2>1, <2>2, <2>3, <2>4 DEF RowTypes
<1> QED BY <1>1, <1>2

(* The same for channels. *)
LEMMA InsertChannelAdds ==
  ASSUME RowTypes, NEW t \in DOMAIN topics, NEW name \in ChannelNames,
         NEW id \in 1..MaxChannelID, InsertChannel(t, name, id), UNCHANGED topics
  PROVE  /\ RowTypes'
         /\ lastID'.topic = lastID.topic /\ lastID'.channel >= lastID.channel
         /\ id \in 1..lastID'.channel
         /\ id \in DOMAIN channels' /\ channels'[id] = [topic_id |-> t, name |-> name]
         /\ DOMAIN channels \subseteq DOMAIN channels'
         /\ \A c \in DOMAIN channels : channels'[c] = channels[c]
         /\ \A c \in DOMAIN channels' \ DOMAIN channels : c = id /\ c > lastID.channel
<1>0. t \in Nat
  BY DEF RowTypes
<1>1. CASE ChannelsNamed(t, name) # {}
  BY <1>1 DEF InsertChannel, RowTypes, ChannelsNamed
<1>2. CASE ChannelsNamed(t, name) = {}
  <2> DEFINE row == [topic_id |-> t, name |-> name]
  <2>1. /\ id = lastID.channel + 1
        /\ channels' = [i \in DOMAIN channels \cup {id} |-> IF i = id THEN row ELSE channels[i]]
        /\ lastID' = [lastID EXCEPT !.channel = id]
    BY <1>2 DEF InsertChannel, NextID, With
  <2>2. lastID' \in [topic : Nat, channel : Nat] /\ lastID'.channel = id
        /\ lastID'.topic = lastID.topic
    BY <2>1 DEF RowTypes
  <2>3. row \in [topic_id : Nat, name : ChannelNames]
    BY <1>0
  <2> HIDE DEF row
  <2>4. DOMAIN channels' = DOMAIN channels \cup {id}
    BY <2>1
  <2>5. \A c \in DOMAIN channels : c # id
    BY <2>1 DEF RowTypes
  <2>6. RowTypes'
    BY <2>1, <2>2, <2>3, <2>4, <2>5 DEF RowTypes
  <2>7. channels'[id] = row
    BY <2>1
  <2> QED BY <2>1, <2>2, <2>4, <2>5, <2>6, <2>7 DEF RowTypes, row
<1> QED BY <1>1, <1>2

----------------------------------------------------------------------------
(* What every step does to the database: rows are added under new ids or   *)
(* removed, never changed, and channels go with their topics.              *)
Grows ==
  /\ RowTypes'
  /\ lastID'.topic >= lastID.topic /\ lastID'.channel >= lastID.channel
  /\ \A t \in DOMAIN topics' : (t \in DOMAIN topics /\ topics'[t] = topics[t]) \/ t > lastID.topic
  /\ \A c \in DOMAIN channels' : \/ c \in DOMAIN channels /\ channels'[c] = channels[c]
                                 \/ c > lastID.channel
  /\ ChannelsHaveTopics'

(* So an id that is right or dead stays right or dead. *)
LEMMA RightStays ==
  ASSUME RowTypes, ChannelsHaveTopics, Grows
  PROVE  /\ \A t \in 0..lastID.topic, n \in TopicNames : TopicIs(t, n) => TopicIs(t, n)'
         /\ \A c \in 0..lastID.channel, k \in ChannelKeys : ChannelIs(c, k) => ChannelIs(c, k)'
<1>1. ASSUME NEW t \in 0..lastID.topic, NEW n \in TopicNames, TopicIs(t, n)
      PROVE  TopicIs(t, n)'
  BY <1>1 DEF TopicIs, Grows, RowTypes
<1>2. ASSUME NEW c \in 0..lastID.channel, NEW k \in ChannelKeys, ChannelIs(c, k)
      PROVE  ChannelIs(c, k)'
  <2> SUFFICES ASSUME c \in DOMAIN channels'
               PROVE  /\ channels'[c].name = k[2]
                      /\ channels'[c].topic_id \in DOMAIN topics'
                      /\ topics'[channels'[c].topic_id] = k[1]
    BY DEF ChannelIs
  <2>1. c \in DOMAIN channels /\ channels'[c] = channels[c]
    BY DEF Grows, RowTypes
  <2>2. channels[c].name = k[2] /\ topics[channels[c].topic_id] = k[1]
        /\ channels[c].topic_id \in DOMAIN topics
    BY <1>2, <2>1 DEF ChannelIs
  <2>3. channels[c].topic_id \in DOMAIN topics'
    BY <2>1 DEF Grows, ChannelsHaveTopics
  <2>4. topics'[channels[c].topic_id] = topics[channels[c].topic_id]
    BY <2>2, <2>3 DEF Grows, RowTypes
  <2> QED BY <2>1, <2>2, <2>3, <2>4
<1> QED BY <1>1, <1>2

(* A call that does not move stays as it should be. *)
LEMMA CallStays ==
  ASSUME MemoInv, Grows, NEW u \in Threads, call'[u] = call[u]
  PROVE  (CallShape(call[u]) /\ CallIDs(call[u]) /\ CallRight(call[u]))'
<1> DEFINE r == call[u]
<1>1. CallShape(r) /\ CallIDs(r) /\ CallRight(r) /\ r \in Call
  BY DEF MemoInv, MemoTypes
<1>2. CallShape(call'[u])
  BY <1>1
<1>3. lastID.topic \in Nat /\ lastID.channel \in Nat /\ lastID'.topic \in Nat /\ lastID'.channel \in Nat
  BY DEF Grows, RowTypes, MemoInv
<1>4. CallIDs(call[u])'
  BY <1>1, <1>3 DEF CallIDs, Grows
<1>5. (r.pc \in {"memo", "send", "channel"} => TopicIs(r.id, r.topic))'
  <2> SUFFICES ASSUME r.pc \in {"memo", "send", "channel"} PROVE TopicIs(r.id, r.topic)'
    OBVIOUS
  <2>1. r.id \in 0..lastID.topic /\ r.topic \in TopicNames /\ TopicIs(r.id, r.topic)
    BY <1>1, <1>3 DEF CallIDs, CallShape, CallRight
  <2> QED BY <2>1, RightStays DEF MemoInv, TopicIs
<1>6. (r.pc = "memo_channel" => ChannelIs(r.id, <<r.topic, r.channel>>))'
  <2> SUFFICES ASSUME r.pc = "memo_channel" PROVE ChannelIs(r.id, <<r.topic, r.channel>>)'
    OBVIOUS
  <2>1. r.id \in 0..lastID.channel /\ <<r.topic, r.channel>> \in ChannelKeys
        /\ ChannelIs(r.id, <<r.topic, r.channel>>)
    BY <1>1, <1>3 DEF CallIDs, CallShape, CallRight, ChannelKeys
  <2> QED BY <2>1, RightStays DEF MemoInv, ChannelIs
<1> QED BY <1>2, <1>4, <1>5, <1>6 DEF CallRight

(* A memo whose entries are old ones, or empty, stays right. *)
LEMMA MemoStays ==
  ASSUME MemoInv, Grows,
         topicMemo' \in [Procs -> [TopicNames -> 0..lastID.topic]],
         channelMemo' \in [Procs -> [ChannelKeys -> 0..lastID.channel]],
         \A p \in Procs, n \in TopicNames : topicMemo'[p][n] \in {topicMemo[p][n], None},
         \A p \in Procs, k \in ChannelKeys : channelMemo'[p][k] \in {channelMemo[p][k], None}
  PROVE  /\ topicMemo' \in [Procs -> [TopicNames -> 0..lastID'.topic]]
         /\ channelMemo' \in [Procs -> [ChannelKeys -> 0..lastID'.channel]]
         /\ MemoRight'
<1>1. lastID.topic \in Nat /\ lastID.channel \in Nat /\ lastID'.topic \in Nat /\ lastID'.channel \in Nat
      /\ 0..lastID.topic \subseteq 0..lastID'.topic /\ 0..lastID.channel \subseteq 0..lastID'.channel
  BY DEF Grows, RowTypes, MemoInv
<1>2. ASSUME NEW p \in Procs, NEW n \in TopicNames PROVE TopicIs(topicMemo[p][n], n)'
  <2>1. topicMemo'[p][n] = None => TopicIs(topicMemo[p][n], n)'
    BY DEF TopicIs, None, Grows, RowTypes
  <2>2. topicMemo[p][n] \in 0..lastID.topic /\ TopicIs(topicMemo[p][n], n)
    BY DEF MemoInv, MemoTypes, MemoRight
  <2>3. topicMemo'[p][n] = topicMemo[p][n] => TopicIs(topicMemo[p][n], n)'
    BY <2>2, RightStays DEF MemoInv, TopicIs
  <2> QED BY <2>1, <2>3
<1>3. ASSUME NEW p \in Procs, NEW k \in ChannelKeys PROVE ChannelIs(channelMemo[p][k], k)'
  <2>1. channelMemo'[p][k] = None => ChannelIs(channelMemo[p][k], k)'
    BY DEF ChannelIs, None, Grows, RowTypes
  <2>2. channelMemo[p][k] \in 0..lastID.channel /\ ChannelIs(channelMemo[p][k], k)
    BY DEF MemoInv, MemoTypes, MemoRight
  <2>3. channelMemo'[p][k] = channelMemo[p][k] => ChannelIs(channelMemo[p][k], k)'
    BY <2>2, RightStays DEF MemoInv, ChannelIs
  <2> QED BY <2>1, <2>3
<1>4. topicMemo' \in [Procs -> [TopicNames -> 0..lastID'.topic]]
  BY <1>1
<1>5. channelMemo' \in [Procs -> [ChannelKeys -> 0..lastID'.channel]]
  BY <1>1
<1> QED BY <1>2, <1>3, <1>4, <1>5 DEF MemoRight

(* A step that leaves the database alone. *)
LEMMA QuietGrows ==
  ASSUME MemoInv, UNCHANGED <<topics, channels, lastID>>
  PROVE  Grows
<1>1. RowTypes'
  BY DEF MemoInv, RowTypes
<1> QED BY <1>1 DEF MemoInv, RowTypes, Grows, ChannelsHaveTopics

(* What is left to show for a step of one thread. *)
LEMMA ThreadStep ==
  ASSUME MemoInv, Grows, NEW th \in Threads,
         call' \in [Threads -> Call],
         \A u \in Threads \ {th} : call'[u] = call[u],
         (CallShape(call[th]) /\ CallIDs(call[th]) /\ CallRight(call[th]))',
         topicMemo' \in [Procs -> [TopicNames -> 0..lastID'.topic]],
         channelMemo' \in [Procs -> [ChannelKeys -> 0..lastID'.channel]],
         MemoRight'
  PROVE  MemoInv'
<1>1. \A u \in Threads : (CallShape(call[u]) /\ CallIDs(call[u]) /\ CallRight(call[u]))'
  BY CallStays
<1>2. MemoTypes'
  BY DEF MemoTypes
<1> QED BY <1>1, <1>2 DEF MemoInv, Grows

(* A thread that touches neither memo. *)
LEMMA CallOnlyStep ==
  ASSUME MemoInv, Grows, NEW th \in Threads, UNCHANGED <<topicMemo, channelMemo>>,
         call' \in [Threads -> Call],
         \A u \in Threads \ {th} : call'[u] = call[u],
         (CallShape(call[th]) /\ CallIDs(call[th]) /\ CallRight(call[th]))'
  PROVE  MemoInv'
<1>2. /\ topicMemo' \in [Procs -> [TopicNames -> 0..lastID.topic]]
      /\ channelMemo' \in [Procs -> [ChannelKeys -> 0..lastID.channel]]
  BY DEF MemoInv, MemoTypes
<1>3. /\ \A p \in Procs, n \in TopicNames : topicMemo'[p][n] \in {topicMemo[p][n], None}
      /\ \A p \in Procs, k \in ChannelKeys : channelMemo'[p][k] \in {channelMemo[p][k], None}
  OBVIOUS
<1>4. /\ topicMemo' \in [Procs -> [TopicNames -> 0..lastID'.topic]]
      /\ channelMemo' \in [Procs -> [ChannelKeys -> 0..lastID'.channel]]
      /\ MemoRight'
  BY <1>2, <1>3, MemoStays
<1> QED BY <1>4, ThreadStep

(* What Goto changes and what it leaves alone. *)
Moved(th, pc, id) ==
  /\ call' \in [Threads -> Call]
  /\ \A u \in Threads \ {th} : call'[u] = call[u]
  /\ call'[th].pc = pc
  /\ call'[th].id = id
  /\ call'[th].op = call[th].op
  /\ call'[th].topic = call[th].topic
  /\ call'[th].channel = call[th].channel

(* Goto moves one call and keeps everything else. *)
LEMMA GotoMoves ==
  ASSUME MemoTypes, NEW th \in Threads, NEW id \in Nat,
         NEW pc \in {"load", "insert", "memo", "send", "invalidate", "sweep", "inner",
                     "channel", "memo_channel", "delete"} \cup Results,
         Goto(th, pc, id)
  PROVE  Moved(th, pc, id)
<1> DEFINE q == [call[th] EXCEPT !.pc = pc, !.id = id]
<1>1. call' = [call EXCEPT ![th] = q]
  BY DEF MemoTypes, Goto, Call
<1>2. call[th] \in Call
  BY DEF MemoTypes
<1>3. /\ q \in Call /\ q.pc = pc /\ q.id = id /\ q.op = call[th].op
      /\ q.topic = call[th].topic /\ q.channel = call[th].channel
  BY <1>2 DEF Call
<1> HIDE DEF q
<1>4. call' \in [Threads -> Call] /\ call'[th] = q /\ \A u \in Threads \ {th} : call'[u] = call[u]
  BY <1>1, <1>3 DEF MemoTypes
<1> QED BY <1>3, <1>4 DEF Moved

(* A call that returns has nothing in hand that could be wrong. *)
LEMMA ReturnMoves ==
  ASSUME MemoTypes, NEW th \in Threads, CallShape(call[th]), NEW result \in Results,
         Return(th, result)
  PROVE  /\ call' \in [Threads -> Call]
         /\ \A u \in Threads \ {th} : call'[u] = call[u]
         /\ (CallShape(call[th]) /\ CallIDs(call[th]) /\ CallRight(call[th]))'
<1> DEFINE q == NewCall(call[th].op, result, call[th].topic, None, None)
<1>1. call' = [call EXCEPT ![th] = q] /\ call[th] \in Call
  BY DEF MemoTypes, Return
<1>2. /\ q \in Call /\ q.pc = result /\ q.op = call[th].op /\ q.topic = call[th].topic
  BY <1>1 DEF NewCall, Call, None
<1> HIDE DEF q
<1>3. /\ call' \in [Threads -> Call] /\ call'[th] = q
      /\ \A u \in Threads \ {th} : call'[u] = call[u]
  BY <1>1, <1>2 DEF MemoTypes
<1>4. CallShape(call'[th])
  BY <1>2, <1>3 DEF CallShape, Results
<1>5. (CallIDs(call[th]) /\ CallRight(call[th]))'
  BY <1>2, <1>3 DEF CallIDs, CallRight, Results
<1> QED BY <1>3, <1>4, <1>5

----------------------------------------------------------------------------
(* EnsureTopic of the cache keeps the invariant: a hit hands on a memoized *)
(* id, a miss what the driver answered, and that is what is memoized.      *)
LEMMA EnsureTopicStep ==
  ASSUME MemoInv, NEW th \in Threads,
         LoadTopic(th) \/ EnsureTopicInner(th) \/ StoreTopic(th)
  PROVE  MemoInv'
<1> DEFINE r == call[th]
<1>0. /\ r \in Call /\ CallShape(r) /\ CallIDs(r) /\ CallRight(r) /\ MemoTypes /\ RowTypes
      /\ Proc(th) \in Procs /\ lastID.topic \in Nat
  BY DEF MemoInv, MemoTypes, RowTypes, Threads, Proc
<1>1. CASE LoadTopic(th)
  <2> DEFINE id == topicMemo[Proc(th)][r.topic]
             pc == IF id = None THEN "insert" ELSE AfterTopic(r.op)
  <2>1. r.pc = "load" /\ r.topic \in TopicNames /\ r.op \in {"publish", "subscribe"}
    BY <1>0, <1>1 DEF LoadTopic, CallShape
  <2>2. id \in 0..lastID.topic /\ id \in Nat /\ TopicIs(id, r.topic)
    BY <1>0, <2>1 DEF MemoInv, MemoTypes, MemoRight
  <2>3. /\ pc \in {"insert", "send", "inner"} /\ (pc = "inner" => r.op = "subscribe")
        /\ (pc = "send" => r.op = "publish")
        /\ (pc # "insert" => id # 0)
    BY <2>1 DEF AfterTopic, None
  <2>4. Goto(th, pc, id) /\ UNCHANGED <<topics, channels, lastID, topicMemo, channelMemo>>
    BY <1>1 DEF LoadTopic
  <2> HIDE DEF id, pc
  <2>5. Moved(th, pc, id)
    BY <1>0, <2>2, <2>3, <2>4, GotoMoves
  <2>6. Grows
    BY <2>4, QuietGrows
  <2>7. CallShape(call'[th])
    BY <1>0, <2>1, <2>3, <2>5 DEF CallShape, Moved
  <2>8. (CallIDs(call[th]) /\ CallRight(call[th]))'
    BY <1>0, <2>2, <2>3, <2>4, <2>5 DEF CallIDs, CallRight, TopicIs, Moved
  <2> QED BY <2>4, <2>5, <2>6, <2>7, <2>8, CallOnlyStep DEF Moved
<1>2. CASE EnsureTopicInner(th)
  <2>1. PICK id \in 1..MaxTopicID : InsertTopic(r.topic, id) /\ Goto(th, "memo", id)
    BY <1>2 DEF EnsureTopicInner
  <2>2. r.pc = "insert" /\ r.topic \in TopicNames /\ r.op \in {"publish", "subscribe"}
    BY <1>0, <1>2 DEF EnsureTopicInner, CallShape
  <2>3. /\ RowTypes'
        /\ lastID'.topic >= lastID.topic /\ lastID'.channel = lastID.channel
        /\ id \in 1..lastID'.topic
        /\ id \in DOMAIN topics' /\ topics'[id] = r.topic
        /\ DOMAIN topics \subseteq DOMAIN topics'
        /\ \A t \in DOMAIN topics : topics'[t] = topics[t]
        /\ \A t \in DOMAIN topics' \ DOMAIN topics : t > lastID.topic
    BY <1>0, <1>2, <2>1, <2>2, InsertTopicAdds DEF EnsureTopicInner
  <2>4. UNCHANGED <<channels, topicMemo, channelMemo>>
    BY <1>2 DEF EnsureTopicInner
  <2>5. Grows
    BY <2>3, <2>4 DEF Grows, MemoInv, ChannelsHaveTopics, RowTypes
  <2>6. Moved(th, "memo", id)
    <3>1. id \in Nat
      OBVIOUS
    <3> QED BY <1>0, <2>1, <3>1, GotoMoves
  <2>7. CallShape(call'[th])
    BY <1>0, <2>2, <2>6 DEF CallShape, Moved
  <2>8. (CallIDs(call[th]) /\ CallRight(call[th]))'
    BY <2>3, <2>6 DEF CallIDs, CallRight, TopicIs, Moved
  <2> QED BY <2>4, <2>5, <2>6, <2>7, <2>8, CallOnlyStep DEF Moved
<1>3. CASE StoreTopic(th)
  <2> DEFINE pc == AfterTopic(r.op)
  <2>1. /\ r.pc = "memo" /\ r.topic \in TopicNames /\ r.op \in {"publish", "subscribe"}
        /\ r.id \in 1..lastID.topic /\ TopicIs(r.id, r.topic)
    BY <1>0, <1>3 DEF StoreTopic, CallShape, CallIDs, CallRight
  <2>2. /\ pc \in {"send", "inner"} /\ (pc = "inner" => r.op = "subscribe")
        /\ (pc = "send" => r.op = "publish") /\ r.id \in Nat
    BY <2>1 DEF AfterTopic
  <2>3. UNCHANGED <<topics, channels, lastID, channelMemo>> /\ Grows
    BY <1>3, QuietGrows DEF StoreTopic
  <2>4. Goto(th, pc, r.id)
    BY <1>3 DEF StoreTopic
  <2> HIDE DEF pc
  <2>5. Moved(th, pc, r.id)
    BY <1>0, <2>2, <2>4, GotoMoves
  <2>6. CallShape(call'[th])
    BY <1>0, <2>1, <2>2, <2>5 DEF CallShape, Moved
  <2>7. (CallIDs(call[th]) /\ CallRight(call[th]))'
    BY <2>1, <2>2, <2>3, <2>5 DEF CallIDs, CallRight, TopicIs, Moved
  <2>8. /\ topicMemo' \in [Procs -> [TopicNames -> 0..lastID'.topic]]
        /\ channelMemo' \in [Procs -> [ChannelKeys -> 0..lastID'.channel]]
    BY <1>0, <1>3, <2>1, <2>3 DEF StoreTopic, MemoTypes
  <2>9. \A p \in Procs, n \in TopicNames :
          topicMemo'[p][n] = IF p = Proc(th) /\ n = r.topic THEN r.id ELSE topicMemo[p][n]
    BY <1>0, <1>3, <2>1 DEF StoreTopic, MemoTypes
  <2>10. MemoRight'
    BY <2>1, <2>3, <2>9 DEF MemoRight, MemoInv, TopicIs, ChannelIs
  <2> QED BY <2>3, <2>5, <2>6, <2>7, <2>8, <2>10, ThreadStep DEF Moved
<1> QED BY <1>1, <1>2, <1>3

(* A thread that begins a call, or replaces its record altogether. *)
LEMMA NewCallMoves ==
  ASSUME MemoTypes, NEW th \in Threads, NEW q \in Call, call' = [call EXCEPT ![th] = q]
  PROVE  /\ call' \in [Threads -> Call]
         /\ call'[th] = q
         /\ \A u \in Threads \ {th} : call'[u] = call[u]
  BY DEF MemoTypes

(* Publish holds a topic id only while it is right or dead; its self-heal  *)
(* only empties memo entries.                                              *)
LEMMA PublishStep ==
  ASSUME MemoInv, NEW th \in Threads,
         \/ \E n \in TopicNames : Publish(th, n)
         \/ Send(th) \/ InvalidateTopic(th) \/ SweepChannels(th)
  PROVE  MemoInv'
<1> DEFINE r == call[th]
<1>0. /\ r \in Call /\ CallShape(r) /\ CallIDs(r) /\ CallRight(r) /\ MemoTypes /\ RowTypes
      /\ Proc(th) \in Procs /\ r.id \in Nat
  BY DEF MemoInv, MemoTypes, RowTypes, Threads, Proc, Call
<1>1. ASSUME NEW n \in TopicNames, Publish(th, n) PROVE MemoInv'
  <2> DEFINE q == NewCall("publish", "load", n, None, None)
  <2>1. /\ q \in Call /\ q.op = "publish" /\ q.pc = "load" /\ q.topic = n
    BY DEF NewCall, Call, None
  <2>2. call' = [call EXCEPT ![th] = q]
        /\ UNCHANGED <<topics, channels, lastID, topicMemo, channelMemo>>
    BY <1>1 DEF Publish
  <2> HIDE DEF q
  <2>3. /\ call' \in [Threads -> Call] /\ call'[th] = q
        /\ \A u \in Threads \ {th} : call'[u] = call[u]
    BY <1>0, <2>1, <2>2, NewCallMoves
  <2>4. Grows
    BY <2>2, QuietGrows
  <2>5. (CallShape(call[th]) /\ CallIDs(call[th]) /\ CallRight(call[th]))'
    BY <2>1, <2>3 DEF CallShape, CallIDs, CallRight
  <2> QED BY <2>2, <2>3, <2>4, <2>5, CallOnlyStep
<1>2. CASE Send(th)
  <2>1. r.pc = "send" /\ UNCHANGED <<topics, channels, lastID, topicMemo, channelMemo>>
    BY <1>2 DEF Send
  <2>2. Grows
    BY <2>1, QuietGrows
  <2>3. CASE \E result \in Results : Return(th, result)
    BY <1>0, <2>1, <2>2, <2>3, ReturnMoves, CallOnlyStep
  <2>4. CASE Goto(th, "invalidate", r.id)
    <3>1. Moved(th, "invalidate", r.id)
      BY <1>0, <2>4, GotoMoves
    <3>2. CallShape(call'[th])
      BY <1>0, <2>1, <3>1 DEF CallShape, Moved
    <3>3. (CallIDs(call[th]) /\ CallRight(call[th]))'
      BY <3>1 DEF CallIDs, CallRight, Moved
    <3> QED BY <2>1, <2>2, <3>1, <3>2, <3>3, CallOnlyStep DEF Moved
  <2> QED BY <1>2, <2>3, <2>4 DEF Send, Results
<1>3. CASE InvalidateTopic(th)
  <2> DEFINE q == [r EXCEPT !.pc = "sweep", !.retried = TRUE, !.swept = {r.topic}]
  <2>1. r.pc = "invalidate" /\ r.topic \in TopicNames
    BY <1>0, <1>3 DEF InvalidateTopic, CallShape
  <2>2. call' = [call EXCEPT ![th] = q]
    BY <1>0, <1>3 DEF InvalidateTopic, MemoTypes, Call
  <2>3. /\ q \in Call /\ q.pc = "sweep" /\ q.op = r.op /\ q.topic = r.topic
        /\ q.channel = r.channel
    BY <1>0, <2>1 DEF Call
  <2> HIDE DEF q
  <2>4. /\ call' \in [Threads -> Call] /\ call'[th] = q
        /\ \A u \in Threads \ {th} : call'[u] = call[u]
    BY <1>0, <2>2, <2>3, NewCallMoves
  <2>5. UNCHANGED <<topics, channels, lastID, channelMemo>> /\ Grows
    BY <1>3, QuietGrows DEF InvalidateTopic
  <2>6. r.op = "publish"
    BY <1>0, <2>1 DEF CallShape
  <2>7. (CallIDs(call[th]) /\ CallRight(call[th]))'
    BY <2>3, <2>4 DEF CallIDs, CallRight
  <2>8. /\ topicMemo' \in [Procs -> [TopicNames -> 0..lastID.topic]]
        /\ channelMemo' \in [Procs -> [ChannelKeys -> 0..lastID.channel]]
        /\ \A p \in Procs, n \in TopicNames : topicMemo'[p][n] \in {topicMemo[p][n], None}
        /\ \A p \in Procs, k \in ChannelKeys : channelMemo'[p][k] \in {channelMemo[p][k], None}
    BY <1>0, <1>3, <2>1, <2>5 DEF InvalidateTopic, MemoTypes, RowTypes, None
  <2>9. CallShape(call'[th])
    BY <1>0, <2>1, <2>3, <2>4, <2>6 DEF CallShape
  <2>10. /\ topicMemo' \in [Procs -> [TopicNames -> 0..lastID'.topic]]
         /\ channelMemo' \in [Procs -> [ChannelKeys -> 0..lastID'.channel]]
         /\ MemoRight'
    BY <2>5, <2>8, MemoStays
  <2> QED BY <2>4, <2>5, <2>7, <2>9, <2>10, ThreadStep
<1>4. CASE SweepChannels(th)
  <2> DEFINE pc == IF r.op = "publish" THEN "load" ELSE "delete"
             q  == [r EXCEPT !.pc = pc, !.swept = {}]
  <2>1. r.pc = "sweep" /\ pc \in {"load", "delete"} /\ (pc = "load" => r.op = "publish")
    BY <1>4 DEF SweepChannels
  <2>2. call' = [call EXCEPT ![th] = q]
    BY <1>0, <1>4 DEF SweepChannels, MemoTypes, Call
  <2> HIDE DEF pc
  <2>3. /\ q \in Call /\ q.pc = pc /\ q.op = r.op /\ q.topic = r.topic
        /\ q.channel = r.channel
    BY <1>0, <2>1 DEF Call
  <2> HIDE DEF q
  <2>4. /\ call' \in [Threads -> Call] /\ call'[th] = q
        /\ \A u \in Threads \ {th} : call'[u] = call[u]
    BY <1>0, <2>2, <2>3, NewCallMoves
  <2>5. UNCHANGED <<topics, channels, lastID, topicMemo>> /\ Grows
    BY <1>4, QuietGrows DEF SweepChannels
  <2>6. CallShape(call'[th]) /\ (CallIDs(call[th]) /\ CallRight(call[th]))'
    BY <1>0, <2>1, <2>3, <2>4 DEF CallShape, CallIDs, CallRight
  <2>7. /\ topicMemo' \in [Procs -> [TopicNames -> 0..lastID.topic]]
        /\ channelMemo' \in [Procs -> [ChannelKeys -> 0..lastID.channel]]
        /\ \A p \in Procs, n \in TopicNames : topicMemo'[p][n] \in {topicMemo[p][n], None}
        /\ \A p \in Procs, k \in ChannelKeys : channelMemo'[p][k] \in {channelMemo[p][k], None}
    BY <1>0, <1>4, <2>5 DEF SweepChannels, MemoTypes, RowTypes, None
  <2>8. /\ topicMemo' \in [Procs -> [TopicNames -> 0..lastID'.topic]]
        /\ channelMemo' \in [Procs -> [ChannelKeys -> 0..lastID'.channel]]
        /\ MemoRight'
    BY <2>5, <2>7, MemoStays
  <2> QED BY <2>4, <2>5, <2>6, <2>8, ThreadStep
<1> QED BY <1>1, <1>2, <1>3, <1>4

(* Subscribe: what the driver answers is memoized under the name it was    *)
(* asked for; the row may be gone by then, but it is no other name's.      *)
LEMMA SubscribeStep ==
  ASSUME MemoInv, NEW th \in Threads,
         \/ \E n \in TopicNames, c \in ChannelNames : Subscribe(th, n, c)
         \/ EnsureChannelTopic(th) \/ EnsureChannelInner(th) \/ StoreChannel(th)
  PROVE  MemoInv'
<1> DEFINE r == call[th]
<1>0. /\ r \in Call /\ CallShape(r) /\ CallIDs(r) /\ CallRight(r) /\ MemoTypes /\ RowTypes
      /\ Proc(th) \in Procs /\ r.id \in Nat
  BY DEF MemoInv, MemoTypes, RowTypes, Threads, Proc, Call
<1>1. ASSUME NEW n \in TopicNames, NEW c \in ChannelNames, Subscribe(th, n, c) PROVE MemoInv'
  <2> DEFINE miss == NewCall("subscribe", "load", n, c, None)
             hit  == NewCall("subscribe", "ok", n, None, None)
  <2>1. /\ miss \in Call /\ miss.op = "subscribe" /\ miss.pc = "load" /\ miss.topic = n
        /\ miss.channel = c
        /\ hit \in Call /\ hit.op = "subscribe" /\ hit.pc = "ok" /\ hit.topic = n
    BY DEF NewCall, Call, Results, None
  <2>2. PICK q \in {miss, hit} : call' = [call EXCEPT ![th] = q]
    BY <1>1 DEF Subscribe
  <2>3. UNCHANGED <<topics, channels, lastID, topicMemo, channelMemo>>
    BY <1>1 DEF Subscribe
  <2> HIDE DEF miss, hit
  <2>4. /\ call' \in [Threads -> Call] /\ call'[th] = q
        /\ \A u \in Threads \ {th} : call'[u] = call[u]
    BY <1>0, <2>1, <2>2, NewCallMoves
  <2>5. Grows
    BY <2>3, QuietGrows
  <2>6. (CallShape(call[th]) /\ CallIDs(call[th]) /\ CallRight(call[th]))'
    BY <2>1, <2>4 DEF CallShape, CallIDs, CallRight
  <2> QED BY <2>3, <2>4, <2>5, <2>6, CallOnlyStep
<1>2. CASE EnsureChannelTopic(th)
  <2>1. PICK id \in 1..MaxTopicID : InsertTopic(r.topic, id) /\ Goto(th, "channel", id)
    BY <1>2 DEF EnsureChannelTopic
  <2>2. r.pc = "inner" /\ r.topic \in TopicNames /\ r.op = "subscribe"
    BY <1>0, <1>2 DEF EnsureChannelTopic, CallShape
  <2>3. /\ RowTypes'
        /\ lastID'.topic >= lastID.topic /\ lastID'.channel = lastID.channel
        /\ id \in 1..lastID'.topic
        /\ id \in DOMAIN topics' /\ topics'[id] = r.topic
        /\ DOMAIN topics \subseteq DOMAIN topics'
        /\ \A t \in DOMAIN topics : topics'[t] = topics[t]
        /\ \A t \in DOMAIN topics' \ DOMAIN topics : t > lastID.topic
    BY <1>0, <1>2, <2>1, <2>2, InsertTopicAdds DEF EnsureChannelTopic
  <2>4. UNCHANGED <<channels, topicMemo, channelMemo>>
    BY <1>2 DEF EnsureChannelTopic
  <2>5. Grows
    BY <2>3, <2>4 DEF Grows, MemoInv, ChannelsHaveTopics, RowTypes
  <2>6. Moved(th, "channel", id)
    <3>1. id \in Nat
      OBVIOUS
    <3> QED BY <1>0, <2>1, <3>1, GotoMoves
  <2>7. CallShape(call'[th])
    BY <1>0, <2>2, <2>6 DEF CallShape, Moved
  <2>8. (CallIDs(call[th]) /\ CallRight(call[th]))'
    BY <2>3, <2>6 DEF CallIDs, CallRight, TopicIs, Moved
  <2> QED BY <2>4, <2>5, <2>6, <2>7, <2>8, CallOnlyStep DEF Moved
<1>3. CASE EnsureChannelInner(th)
  <2>1. /\ r.pc = "channel" /\ r.topic \in TopicNames /\ r.channel \in ChannelNames
        /\ r.op = "subscribe" /\ TopicIs(r.id, r.topic)
        /\ UNCHANGED <<topics, topicMemo, channelMemo>>
    BY <1>0, <1>3 DEF EnsureChannelInner, CallShape, CallRight
  <2>2. CASE r.id \notin DOMAIN topics
    <3>1. "error" \in Results /\ Return(th, "error") /\ UNCHANGED <<channels, lastID>>
      BY <1>3, <2>2 DEF EnsureChannelInner, Results
    <3>2. Grows
      BY <2>1, <3>1, QuietGrows
    <3> QED BY <1>0, <2>1, <3>1, <3>2, ReturnMoves, CallOnlyStep
  <2>3. CASE r.id \in DOMAIN topics
    <3>1. PICK id \in 1..MaxChannelID :
            InsertChannel(r.id, r.channel, id) /\ Goto(th, "memo_channel", id)
      BY <1>3, <2>3 DEF EnsureChannelInner
    <3>2. /\ RowTypes'
          /\ lastID'.topic = lastID.topic /\ lastID'.channel >= lastID.channel
          /\ id \in 1..lastID'.channel
          /\ id \in DOMAIN channels' /\ channels'[id] = [topic_id |-> r.id, name |-> r.channel]
          /\ DOMAIN channels \subseteq DOMAIN channels'
          /\ \A c \in DOMAIN channels : channels'[c] = channels[c]
          /\ \A c \in DOMAIN channels' \ DOMAIN channels : c = id /\ c > lastID.channel
      BY <1>0, <2>1, <2>3, <3>1, InsertChannelAdds
    <3>3. channels'[id].topic_id = r.id /\ channels'[id].name = r.channel
      BY <3>2
    <3>4. ChannelsHaveTopics'
      BY <2>1, <2>3, <3>2, <3>3 DEF MemoInv, ChannelsHaveTopics
    <3>5. Grows
      BY <1>0, <2>1, <3>2, <3>4 DEF Grows, RowTypes
    <3>6. Moved(th, "memo_channel", id)
      <4>1. id \in Nat
        OBVIOUS
      <4> QED BY <1>0, <3>1, <4>1, GotoMoves
    <3>7. topics'[r.id] = r.topic /\ r.id \in DOMAIN topics'
      BY <2>1, <2>3 DEF TopicIs
    <3>8. CallShape(call'[th])
      BY <1>0, <2>1, <3>6 DEF CallShape, Moved
    <3>9. (CallIDs(call[th]) /\ CallRight(call[th]))'
      BY <3>2, <3>3, <3>6, <3>7 DEF CallIDs, CallRight, ChannelIs, Moved
    <3> QED BY <2>1, <3>5, <3>6, <3>8, <3>9, CallOnlyStep DEF Moved
  <2> QED BY <2>2, <2>3
<1>4. CASE StoreChannel(th)
  <2> DEFINE key == <<r.topic, r.channel>>
  <2>1. /\ r.pc = "memo_channel" /\ key \in ChannelKeys
        /\ r.id \in 1..lastID.channel /\ ChannelIs(r.id, key)
    BY <1>0, <1>4 DEF StoreChannel, CallShape, CallIDs, CallRight, ChannelKeys
  <2>2. UNCHANGED <<topics, channels, lastID, topicMemo>> /\ Grows
    BY <1>4, QuietGrows DEF StoreChannel
  <2>3. "ok" \in Results /\ Return(th, "ok")
    BY <1>4 DEF StoreChannel, Results
  <2>5. channelMemo' = [channelMemo EXCEPT ![Proc(th)][key] = r.id]
    BY <1>4 DEF StoreChannel
  <2> HIDE DEF key
  <2>6. /\ topicMemo' \in [Procs -> [TopicNames -> 0..lastID'.topic]]
        /\ channelMemo' \in [Procs -> [ChannelKeys -> 0..lastID'.channel]]
    BY <1>0, <2>1, <2>2, <2>5 DEF MemoTypes
  <2>7. \A p \in Procs, k \in ChannelKeys :
          channelMemo'[p][k] = IF p = Proc(th) /\ k = key THEN r.id ELSE channelMemo[p][k]
    BY <1>0, <2>1, <2>5 DEF MemoTypes
  <2>8. MemoRight'
    BY <2>1, <2>2, <2>7 DEF MemoRight, MemoInv, TopicIs, ChannelIs
  <2> QED BY <1>0, <2>2, <2>3, <2>6, <2>8, ReturnMoves, ThreadStep
<1> QED BY <1>1, <1>2, <1>3, <1>4

(* The deletes only empty memo entries and remove rows, a topic together   *)
(* with its channels.                                                      *)
LEMMA DeleteStep ==
  ASSUME MemoInv, NEW th \in Threads,
         \/ \E t \in 1..lastID.topic : DeleteTopic(th, t)
         \/ \E c \in 1..lastID.channel : DeleteChannel(th, c)
         \/ DeleteInner(th) \/ DriverFails(th)
  PROVE  MemoInv'
<1> DEFINE r == call[th]
<1>0. /\ r \in Call /\ CallShape(r) /\ CallIDs(r) /\ CallRight(r) /\ MemoTypes /\ RowTypes
      /\ Proc(th) \in Procs /\ r.id \in Nat
  BY DEF MemoInv, MemoTypes, RowTypes, Threads, Proc, Call
<1>1. ASSUME NEW t \in 1..lastID.topic, DeleteTopic(th, t) PROVE MemoInv'
  <2> DEFINE names == NamesOf(Proc(th), t)
             pc == IF names = {} THEN "delete" ELSE "sweep"
             q  == [NewCall("delete_topic", pc, None, None, t) EXCEPT !.swept = names]
  <2>1. names \subseteq TopicNames /\ pc \in {"delete", "sweep"} /\ t \in Nat
    BY DEF NamesOf
  <2>2. /\ call' = [call EXCEPT ![th] = q]
        /\ topicMemo' = [topicMemo EXCEPT ![Proc(th)] =
                           [n \in TopicNames |-> IF n \in names THEN None ELSE @[n]]]
        /\ UNCHANGED <<topics, channels, lastID, channelMemo>>
    BY <1>1 DEF DeleteTopic
  <2> HIDE DEF names, pc
  <2>3. q \in Call /\ q.op = "delete_topic" /\ q.pc = pc
    BY <2>1 DEF NewCall, Call, None
  <2> HIDE DEF q
  <2>4. /\ call' \in [Threads -> Call] /\ call'[th] = q
        /\ \A u \in Threads \ {th} : call'[u] = call[u]
    BY <1>0, <2>2, <2>3, NewCallMoves
  <2>5. Grows
    BY <2>2, QuietGrows
  <2>6. (CallShape(call[th]) /\ CallIDs(call[th]) /\ CallRight(call[th]))'
    BY <2>1, <2>3, <2>4 DEF CallShape, CallIDs, CallRight
  <2>7. /\ topicMemo' \in [Procs -> [TopicNames -> 0..lastID.topic]]
        /\ channelMemo' \in [Procs -> [ChannelKeys -> 0..lastID.channel]]
        /\ \A p \in Procs, n \in TopicNames : topicMemo'[p][n] \in {topicMemo[p][n], None}
        /\ \A p \in Procs, k \in ChannelKeys : channelMemo'[p][k] \in {channelMemo[p][k], None}
    BY <1>0, <2>2 DEF MemoTypes, RowTypes, None
  <2>8. /\ topicMemo' \in [Procs -> [TopicNames -> 0..lastID'.topic]]
        /\ channelMemo' \in [Procs -> [ChannelKeys -> 0..lastID'.channel]]
        /\ MemoRight'
    BY <2>5, <2>7, MemoStays
  <2> QED BY <2>4, <2>5, <2>6, <2>8, ThreadStep
<1>2. ASSUME NEW c \in 1..lastID.channel, DeleteChannel(th, c) PROVE MemoInv'
  <2> DEFINE q == NewCall("delete_channel", "delete", None, None, c)
  <2>1. q \in Call /\ q.op = "delete_channel" /\ q.pc = "delete"
    BY DEF NewCall, Call, None
  <2>2. /\ call' = [call EXCEPT ![th] = q]
        /\ channelMemo' = [channelMemo EXCEPT ![Proc(th)] =
                             [k \in ChannelKeys |-> IF @[k] = c THEN None ELSE @[k]]]
        /\ UNCHANGED <<topics, channels, lastID, topicMemo>>
    BY <1>2 DEF DeleteChannel
  <2> HIDE DEF q
  <2>3. /\ call' \in [Threads -> Call] /\ call'[th] = q
        /\ \A u \in Threads \ {th} : call'[u] = call[u]
    BY <1>0, <2>1, <2>2, NewCallMoves
  <2>4. Grows
    BY <2>2, QuietGrows
  <2>5. (CallShape(call[th]) /\ CallIDs(call[th]) /\ CallRight(call[th]))'
    BY <2>1, <2>3 DEF CallShape, CallIDs, CallRight
  <2>6. /\ topicMemo' \in [Procs -> [TopicNames -> 0..lastID.topic]]
        /\ channelMemo' \in [Procs -> [ChannelKeys -> 0..lastID.channel]]
        /\ \A p \in Procs, n \in TopicNames : topicMemo'[p][n] \in {topicMemo[p][n], None}
        /\ \A p \in Procs, k \in ChannelKeys : channelMemo'[p][k] \in {channelMemo[p][k], None}
    BY <1>0, <2>2 DEF MemoTypes, RowTypes, None
  <2>7. /\ topicMemo' \in [Procs -> [TopicNames -> 0..lastID'.topic]]
        /\ channelMemo' \in [Procs -> [ChannelKeys -> 0..lastID'.channel]]
        /\ MemoRight'
    BY <2>4, <2>6, MemoStays
  <2> QED BY <2>3, <2>4, <2>5, <2>7, ThreadStep
<1>3. CASE DeleteInner(th)
  <2>1. /\ "ok" \in Results /\ Return(th, "ok")
        /\ UNCHANGED <<lastID, topicMemo, channelMemo>>
    BY <1>3 DEF DeleteInner, Results
  <2>2. /\ topics' \in [DOMAIN topics' -> TopicNames] /\ DOMAIN topics' \subseteq DOMAIN topics
        /\ channels' \in [DOMAIN channels' -> [topic_id : Nat, name : ChannelNames]]
        /\ DOMAIN channels' \subseteq DOMAIN channels
        /\ \A t \in DOMAIN topics' : topics'[t] = topics[t]
        /\ \A c \in DOMAIN channels' : channels'[c] = channels[c]
        /\ ChannelsHaveTopics'
    <3>1. CASE r.op = "delete_topic"
      <4>1. /\ topics' = [i \in DOMAIN topics \ {r.id} |-> topics[i]]
            /\ channels' = [i \in DOMAIN channels \ ChannelsOf(r.id) |-> channels[i]]
        BY <1>3, <3>1 DEF DeleteInner, Except
      <4>2. \A c \in DOMAIN channels' : channels[c].topic_id # r.id
        BY <4>1 DEF ChannelsOf
      <4> QED BY <1>0, <4>1, <4>2 DEF MemoInv, RowTypes, ChannelsHaveTopics
    <3>2. CASE r.op # "delete_topic"
      <4>1. /\ topics' = topics
            /\ channels' = [i \in DOMAIN channels \ {r.id} |-> channels[i]]
        BY <1>3, <3>2 DEF DeleteInner, Except
      <4> QED BY <1>0, <4>1 DEF MemoInv, RowTypes, ChannelsHaveTopics
    <3> QED BY <3>1, <3>2
  <2>3. Grows
    BY <1>0, <2>1, <2>2 DEF Grows, RowTypes
  <2> QED BY <1>0, <2>1, <2>3, ReturnMoves, CallOnlyStep
<1>4. CASE DriverFails(th)
  <2>1. /\ "error" \in Results /\ Return(th, "error")
        /\ UNCHANGED <<topics, channels, lastID, topicMemo, channelMemo>>
    BY <1>4 DEF DriverFails, Results
  <2>2. Grows
    BY <2>1, QuietGrows
  <2> QED BY <1>0, <2>1, <2>2, ReturnMoves, CallOnlyStep
<1> QED BY <1>1, <1>2, <1>3, <1>4

(* A restarted process has an empty memo and no calls. *)
LEMMA RestartStep ==
  ASSUME MemoInv, NEW p \in Procs, Restart(p)
  PROVE  MemoInv'
<1> DEFINE q == NewCall("none", "ok", None, None, None)
<1>1. q \in Call /\ q.op = "none" /\ q.pc = "ok"
  BY DEF NewCall, Call, None, Results
<1>2. /\ call' = [th \in Threads |-> IF Proc(th) = p THEN q ELSE call[th]]
      /\ topicMemo' = [topicMemo EXCEPT ![p] = NoTopicMemo]
      /\ channelMemo' = [channelMemo EXCEPT ![p] = NoChannelMemo]
      /\ UNCHANGED <<topics, channels, lastID>>
  BY DEF Restart
<1> HIDE DEF q
<1>3. Grows
  BY <1>2, QuietGrows
<1>4. /\ topicMemo' \in [Procs -> [TopicNames -> 0..lastID.topic]]
      /\ channelMemo' \in [Procs -> [ChannelKeys -> 0..lastID.channel]]
      /\ \A x \in Procs, n \in TopicNames : topicMemo'[x][n] \in {topicMemo[x][n], None}
      /\ \A x \in Procs, k \in ChannelKeys : channelMemo'[x][k] \in {channelMemo[x][k], None}
  BY <1>2 DEF MemoInv, MemoTypes, RowTypes, NoTopicMemo, NoChannelMemo, None
<1>5. /\ topicMemo' \in [Procs -> [TopicNames -> 0..lastID'.topic]]
      /\ channelMemo' \in [Procs -> [ChannelKeys -> 0..lastID'.channel]]
      /\ MemoRight'
  BY <1>3, <1>4, MemoStays
<1>6. MemoTypes'
  BY <1>1, <1>2, <1>5 DEF MemoInv, MemoTypes
<1>7. ASSUME NEW u \in Threads
      PROVE  (CallShape(call[u]) /\ CallIDs(call[u]) /\ CallRight(call[u]))'
  <2>1. CASE Proc(u) = p
    BY <1>1, <1>2, <2>1 DEF CallShape, CallIDs, CallRight
  <2>2. CASE Proc(u) # p
    BY <1>2, <1>3, <2>2, CallStays
  <2> QED BY <2>1, <2>2
<1> QED BY <1>3, <1>5, <1>6, <1>7 DEF MemoInv, Grows

----------------------------------------------------------------------------
(* Nothing is memoized or in hand at the start. *)
LEMMA MemoInit == Init => MemoInv
<1> SUFFICES ASSUME Init PROVE MemoInv
  OBVIOUS
<1> DEFINE q == NewCall("none", "ok", None, None, None)
<1>1. q \in Call /\ q.op = "none" /\ q.pc = "ok"
  BY DEF NewCall, Call, None, Results
<1>2. call = [th \in Threads |-> q]
  BY DEF Init
<1> HIDE DEF q
<1>3. RowTypes
  BY DEF Init, RowTypes
<1>4. MemoTypes
  BY <1>1, <1>2 DEF Init, MemoTypes, NoTopicMemo, NoChannelMemo, None
<1>5. ChannelsHaveTopics /\ MemoRight
  BY DEF Init, ChannelsHaveTopics, MemoRight, TopicIs, ChannelIs
<1>6. \A th \in Threads : CallShape(call[th]) /\ CallIDs(call[th]) /\ CallRight(call[th])
  BY <1>1, <1>2 DEF CallShape, CallIDs, CallRight
<1> QED BY <1>3, <1>4, <1>5, <1>6 DEF MemoInv

(* Every step of every goroutine keeps the invariant. *)
LEMMA MemoStep == MemoInv /\ [Next]_vars => MemoInv'
<1> SUFFICES ASSUME MemoInv, [Next]_vars PROVE MemoInv'
  OBVIOUS
<1>1. ASSUME NEW th \in Threads, Begin(th) \/ Continue(th) \/ DriverFails(th)
      PROVE  MemoInv'
  BY <1>1, EnsureTopicStep, PublishStep, SubscribeStep, DeleteStep DEF Begin, Continue
<1>2. ASSUME NEW p \in Procs, Restart(p) PROVE MemoInv'
  BY <1>2, RestartStep
<1>3. CASE UNCHANGED vars
  BY <1>3 DEF vars, MemoInv, RowTypes, MemoTypes, ChannelsHaveTopics, MemoRight,
              CallShape, CallIDs, CallRight, TopicIs, ChannelIs
<1> QED BY <1>1, <1>2, <1>3 DEF Next

(* Whatever processes and goroutines race, a memoized id, and an id a call *)
(* is about to use, is the name's own or a dead one: no publish lands on   *)
(* another topic and no consumer reads another channel.                    *)
THEOREM MemoRightOrDead == Spec => []MemoNeverWrong
<1>1. MemoInv => MemoNeverWrong
  BY DEF MemoInv, MemoRight, MemoNeverWrong, CallRight
<1> QED BY <1>1, MemoInit, MemoStep, PTL DEF Spec

=============================================================================
