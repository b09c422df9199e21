---------------------------- MODULE CachingStore ----------------------------
(***************************************************************************)
(* The memo of topic and channel ids that every client process puts around *)
(* its driver (store/cached.go), and the client calls that live on it:     *)
(* Publish with its self-heal, Subscribe, DeleteTopic and DeleteChannel    *)
(* (CreateTopic and CreateChannel are the Ensure halves of the first two). *)
(*                                                                         *)
(* Several processes share the database; several goroutines of a process   *)
(* share its memo.  Each access to the memo and each call of the driver is *)
(* one step: nothing locks the memo across a driver call.  The database    *)
(* holds the topic and channel rows only.                                  *)
(***************************************************************************)
EXTENDS Integers, FiniteSets

CONSTANTS TopicNames, ChannelNames,
          Procs, Goroutines,
          MaxTopicID, MaxChannelID    \* bounds on the rows ever created

ASSUME CachingStoreAssumption == {MaxTopicID, MaxChannelID} \subseteq Nat

VARIABLES
  topics,        \* id -> name
  channels,      \* id -> [topic_id, name]
  lastID,        \* the ids the database gave out last
  topicMemo,     \* process -> name -> memoized id, 0 if none
  channelMemo,   \* process -> <<topic name, channel name>> -> id, 0 if none
  call           \* thread -> the client call it is in, or its last result

vars == <<topics, channels, lastID, topicMemo, channelMemo, call>>

Threads == Procs \X Goroutines
Proc(th) == th[1]
ChannelKeys == TopicNames \X ChannelNames
None == 0

Results == {"ok", "gone", "error"}
Call == [op      : {"none", "publish", "subscribe", "delete_topic", "delete_channel"},
         pc      : {"load", "insert", "memo", "send", "invalidate", "sweep",
                    "inner", "channel", "memo_channel", "delete"} \cup Results,
         topic   : TopicNames \cup {None},
         channel : ChannelNames \cup {None},
         id      : Nat,                  \* topic or channel id in hand
         retried : BOOLEAN,
         swept   : SUBSET TopicNames]    \* DeleteTopic's prefixes

Returned(th) == call[th].pc \in Results

(* Thread th goes on to pc, with id in hand. *)
Goto(th, pc, id) == call' = [call EXCEPT ![th].pc = pc, ![th].id = id]

NewCall(op, pc, topic, channel, id) ==
  [op |-> op, pc |-> pc, topic |-> topic, channel |-> channel, id |-> id,
   retried |-> FALSE, swept |-> {}]

(* The call of th returns; nobody looks at what it had in hand any more. *)
Return(th, result) ==
  call' = [call EXCEPT ![th] = NewCall(@.op, result, @.topic, None, None)]

----------------------------------------------------------------------------
(* The driver. *)

(* Mutant: ids of deleted rows are given out again. *)
ReusedID(table, last) ==
  CHOOSE i \in 1..(last + 1) : i \notin DOMAIN table /\ \A j \in 1..(i - 1) : j \in DOMAIN table

(* AUTOINCREMENT: the id of the next row. *)
NextID(table, last) == last + 1

With(table, id, row) == [i \in DOMAIN table \cup {id} |-> IF i = id THEN row ELSE table[i]]
Except(table, ids) == [i \in DOMAIN table \ ids |-> table[i]]

(* EnsureTopic of the driver, giving id. *)
InsertTopic(name, id) ==
  IF \E t \in DOMAIN topics : topics[t] = name
    THEN /\ id \in DOMAIN topics
         /\ topics[id] = name
         /\ UNCHANGED <<topics, lastID>>
    ELSE /\ lastID.topic < MaxTopicID
         /\ id = NextID(topics, lastID.topic)
         /\ topics' = With(topics, id, name)
         /\ lastID' = [lastID EXCEPT !.topic = id]

ChannelsNamed(t, name) ==
  {c \in DOMAIN channels : channels[c] = [topic_id |-> t, name |-> name]}

(* The channel half of the driver's EnsureChannel, for an existing topic. *)
InsertChannel(t, name, id) ==
  IF ChannelsNamed(t, name) # {}
    THEN id \in ChannelsNamed(t, name) /\ UNCHANGED <<channels, lastID>>
    ELSE /\ lastID.channel < MaxChannelID
         /\ id = NextID(channels, lastID.channel)
         /\ channels' = With(channels, id, [topic_id |-> t, name |-> name])
         /\ lastID' = [lastID EXCEPT !.channel = id]

(* Mutant: the channels stay when their topic goes. *)
NoChannels(t) == {}

(* The channel rows that DeleteTopic deletes. *)
ChannelsOf(t) == {c \in DOMAIN channels : channels[c].topic_id = t}

----------------------------------------------------------------------------
(* EnsureTopic of the cache, inside Publish and Subscribe. *)

AfterTopic(op) == IF op = "publish" THEN "send" ELSE "inner"

LoadTopic(th) ==
  LET id == topicMemo[Proc(th)][call[th].topic] IN
  /\ call[th].pc = "load"
  /\ Goto(th, IF id = None THEN "insert" ELSE AfterTopic(call[th].op), id)
  /\ UNCHANGED <<topics, channels, lastID, topicMemo, channelMemo>>

EnsureTopicInner(th) ==
  /\ call[th].pc = "insert"
  /\ \E id \in 1..MaxTopicID : InsertTopic(call[th].topic, id) /\ Goto(th, "memo", id)
  /\ UNCHANGED <<channels, topicMemo, channelMemo>>

StoreTopic(th) ==
  /\ call[th].pc = "memo"
  /\ topicMemo' = [topicMemo EXCEPT ![Proc(th)][call[th].topic] = call[th].id]
  /\ Goto(th, AfterTopic(call[th].op), call[th].id)
  /\ UNCHANGED <<topics, channels, lastID, channelMemo>>

----------------------------------------------------------------------------
(* Publish. *)

Publish(th, name) ==
  /\ Returned(th)
  /\ call' = [call EXCEPT ![th] = NewCall("publish", "load", name, None, None)]
  /\ UNCHANGED <<topics, channels, lastID, topicMemo, channelMemo>>

(* The driver's publish: ErrTopicGone when the id has no row; the first    *)
(* one starts the self-heal, the second is returned.                       *)
Send(th) ==
  /\ call[th].pc = "send"
  /\ IF call[th].id \in DOMAIN topics THEN Return(th, "ok")
     ELSE IF call[th].retried THEN Return(th, "gone")
     ELSE Goto(th, "invalidate", call[th].id)
  /\ UNCHANGED <<topics, channels, lastID, topicMemo, channelMemo>>

(* Mutant: only the channel entries are evicted. *)
KeepsTopicMemo(th) ==
  /\ call[th].pc = "invalidate"
  /\ call' = [call EXCEPT ![th].pc = "sweep", ![th].retried = TRUE,
                          ![th].swept = {call[th].topic}]
  /\ UNCHANGED <<topics, channels, lastID, topicMemo, channelMemo>>

(* InvalidateTopic: the name, then every channel entry under it. *)
InvalidateTopic(th) ==
  /\ call[th].pc = "invalidate"
  /\ topicMemo' = [topicMemo EXCEPT ![Proc(th)][call[th].topic] = None]
  /\ call' = [call EXCEPT ![th].pc = "sweep", ![th].retried = TRUE,
                          ![th].swept = {call[th].topic}]
  /\ UNCHANGED <<topics, channels, lastID, channelMemo>>

(* The sweep over the channel memo, for InvalidateTopic and DeleteTopic. *)
SweepChannels(th) ==
  /\ call[th].pc = "sweep"
  /\ channelMemo' = [channelMemo EXCEPT ![Proc(th)] =
       [k \in ChannelKeys |-> IF k[1] \in call[th].swept THEN None ELSE @[k]]]
  /\ call' = [call EXCEPT ![th].pc = IF call[th].op = "publish" THEN "load" ELSE "delete",
                          ![th].swept = {}]
  /\ UNCHANGED <<topics, channels, lastID, topicMemo>>

----------------------------------------------------------------------------
(* Subscribe: EnsureChannel of the cache.  A hit returns at once. *)

Subscribe(th, topic, channel) ==
  LET id == channelMemo[Proc(th)][<<topic, channel>>] IN
  /\ Returned(th)
  /\ call' = [call EXCEPT ![th] =
                IF id = None THEN NewCall("subscribe", "load", topic, channel, None)
                ELSE NewCall("subscribe", "ok", topic, None, None)]
  /\ UNCHANGED <<topics, channels, lastID, topicMemo, channelMemo>>

(* EnsureChannel of the driver resolves the topic again, by name. *)
EnsureChannelTopic(th) ==
  /\ call[th].pc = "inner"
  /\ \E id \in 1..MaxTopicID : InsertTopic(call[th].topic, id) /\ Goto(th, "channel", id)
  /\ UNCHANGED <<channels, topicMemo, channelMemo>>

(* The foreign key refuses the row when the topic is gone by now. *)
EnsureChannelInner(th) ==
  /\ call[th].pc = "channel"
  /\ IF call[th].id \in DOMAIN topics
       THEN \E id \in 1..MaxChannelID :
              InsertChannel(call[th].id, call[th].channel, id) /\ Goto(th, "memo_channel", id)
       ELSE Return(th, "error") /\ UNCHANGED <<channels, lastID>>
  /\ UNCHANGED <<topics, topicMemo, channelMemo>>

StoreChannel(th) ==
  /\ call[th].pc = "memo_channel"
  /\ channelMemo' = [channelMemo EXCEPT ![Proc(th)][<<call[th].topic, call[th].channel>>] =
                      call[th].id]
  /\ Return(th, "ok")
  /\ UNCHANGED <<topics, channels, lastID, topicMemo>>

----------------------------------------------------------------------------
(* DeleteTopic and DeleteChannel: evict, then delete. *)

NamesOf(p, t) == {n \in TopicNames : topicMemo[p][n] = t}

DeleteTopic(th, t) ==
  /\ Returned(th)
  /\ LET names == NamesOf(Proc(th), t) IN
     /\ topicMemo' = [topicMemo EXCEPT ![Proc(th)] =
                        [n \in TopicNames |-> IF n \in names THEN None ELSE @[n]]]
     /\ call' = [call EXCEPT ![th] =
          [NewCall("delete_topic", IF names = {} THEN "delete" ELSE "sweep", None, None, t)
             EXCEPT !.swept = names]]
  /\ UNCHANGED <<topics, channels, lastID, channelMemo>>

(* InvalidateChannelID. *)
DeleteChannel(th, c) ==
  /\ Returned(th)
  /\ channelMemo' = [channelMemo EXCEPT ![Proc(th)] =
                       [k \in ChannelKeys |-> IF @[k] = c THEN None ELSE @[k]]]
  /\ call' = [call EXCEPT ![th] = NewCall("delete_channel", "delete", None, None, c)]
  /\ UNCHANGED <<topics, channels, lastID, topicMemo>>

(* The driver's cascades; deleting what is gone already succeeds. *)
DeleteInner(th) ==
  /\ call[th].pc = "delete"
  /\ IF call[th].op = "delete_topic"
       THEN /\ topics' = Except(topics, {call[th].id})
            /\ channels' = Except(channels, ChannelsOf(call[th].id))
       ELSE /\ channels' = Except(channels, {call[th].id})
            /\ UNCHANGED topics
  /\ Return(th, "ok")
  /\ UNCHANGED <<lastID, topicMemo, channelMemo>>

(* Any call of the driver may fail; the call returns the error. *)
DriverFails(th) ==
  /\ call[th].pc \in {"insert", "send", "inner", "channel", "delete"}
  /\ Return(th, "error")
  /\ UNCHANGED <<topics, channels, lastID, topicMemo, channelMemo>>

NoTopicMemo == [n \in TopicNames |-> None]
NoChannelMemo == [k \in ChannelKeys |-> None]

(* A process dies and starts again: its memo is empty. *)
Restart(p) ==
  /\ topicMemo' = [topicMemo EXCEPT ![p] = NoTopicMemo]
  /\ channelMemo' = [channelMemo EXCEPT ![p] = NoChannelMemo]
  /\ call' = [th \in Threads |-> IF Proc(th) = p
                                  THEN NewCall("none", "ok", None, None, None)
                                  ELSE call[th]]
  /\ UNCHANGED <<topics, channels, lastID>>

----------------------------------------------------------------------------
Init ==
  /\ topics = [t \in {} |-> 0]
  /\ channels = [c \in {} |-> 0]
  /\ lastID = [topic |-> 0, channel |-> 0]
  /\ topicMemo = [p \in Procs |-> NoTopicMemo]
  /\ channelMemo = [p \in Procs |-> NoChannelMemo]
  /\ call = [th \in Threads |-> NewCall("none", "ok", None, None, None)]

(* Ids for the delete calls come from listings, so they were given out. *)
Begin(th) ==
  \/ \E n \in TopicNames : Publish(th, n)
  \/ \E n \in TopicNames, c \in ChannelNames : Subscribe(th, n, c)
  \/ \E t \in 1..lastID.topic : DeleteTopic(th, t)
  \/ \E c \in 1..lastID.channel : DeleteChannel(th, c)

Continue(th) ==
  \/ LoadTopic(th) \/ EnsureTopicInner(th) \/ StoreTopic(th)
  \/ Send(th) \/ InvalidateTopic(th) \/ SweepChannels(th)
  \/ EnsureChannelTopic(th) \/ EnsureChannelInner(th) \/ StoreChannel(th)
  \/ DeleteInner(th)

Next ==
  \/ \E th \in Threads : Begin(th) \/ Continue(th) \/ DriverFails(th)
  \/ \E p \in Procs : Restart(p)

Spec == Init /\ [][Next]_vars

Publishing(th, n) == call[th].op = "publish" /\ call[th].topic = n

(* A call goes on until it returns or fails; publishers publish again and  *)
(* again, and the driver's EnsureTopic and Publish do not fail them every  *)
(* time.                                                                   *)
FairSpec ==
  /\ Spec
  /\ \A th \in Threads : WF_vars(Continue(th) \/ DriverFails(th))
  /\ \A th \in Threads, n \in TopicNames :
       /\ SF_vars(Publish(th, n))
       /\ SF_vars(EnsureTopicInner(th) /\ Publishing(th, n))
       /\ SF_vars(Send(th) /\ Publishing(th, n))

----------------------------------------------------------------------------
(* Properties. *)

TopicIs(t, name) == t \in DOMAIN topics => topics[t] = name

ChannelIs(c, key) ==
  c \in DOMAIN channels => /\ channels[c].name = key[2]
                           /\ channels[c].topic_id \in DOMAIN topics
                           /\ topics[channels[c].topic_id] = key[1]

(* A memoized id is right or dead, never another name's: whatever the      *)
(* deletes, re-creations and races, a publish never lands on the wrong     *)
(* topic and a consumer never reads the wrong channel.                     *)
MemoNeverWrong ==
  /\ \A p \in Procs : /\ \A n \in TopicNames : TopicIs(topicMemo[p][n], n)
                       /\ \A k \in ChannelKeys : ChannelIs(channelMemo[p][k], k)
  /\ \A th \in Threads : call[th].pc \in {"memo", "send", "channel"} =>
                            TopicIs(call[th].id, call[th].topic)

TopicExists(n) == \E t \in DOMAIN topics : topics[t] = n

Published(th, n) == Publishing(th, n) /\ call[th].pc = "ok"

(* Once the deletes and re-creations of a topic are over, publishes get    *)
(* through to it again, from every goroutine that keeps publishing while   *)
(* its process runs: whatever stale ids the memo holds, and whatever stale *)
(* ids other goroutines still store there, they are all evicted in the     *)
(* end, and not even the retry keeps returning ErrTopicGone.               *)
PublishHeals ==
  \A th \in Threads, n \in TopicNames :
    <>[]TopicExists(n) /\ <>[][\A p \in Procs : ~Restart(p)]_vars => []<>Published(th, n)
=============================================================================
