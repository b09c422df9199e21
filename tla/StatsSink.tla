----------------------------- MODULE StatsSink ------------------------------
(***************************************************************************)
(* The event counters of driver/sqlite: mutations buffer a delta in their  *)
(* process after they committed, FlushStats moves the buffer to the day    *)
(* buckets of novaque_stats_daily in sorted batches, cascades delete rows  *)
(* and then discard buffered deltas, PruneStats drops old days.            *)
(*                                                                         *)
(* The six counter columns of a row are always buffered, merged and        *)
(* written together, so one number stands for them.  A coordinate is a     *)
(* (topic, channel) pair, numbered in the order FlushStats sorts by.       *)
(***************************************************************************)
EXTENDS Integers, FiniteSets, FiniteSetsExt

CONSTANTS Coords,            \* stats coordinates, integers
          Procs,             \* processes, each with its own buffer
          Flushers,          \* concurrent FlushStats calls in a process
          statsFlushBatch,   \* rows per statement
          RetentionDays,     \* Options.StatsRetentionDays
          \* Bounds of the checked instance: events altogether, deltas
          \* written by statements that report an error, last UTC day.
          MaxEvents, MaxRepeats, MaxDay

ASSUME StatsSinkAssumption ==
  /\ Coords \subseteq Nat
  /\ IsFiniteSet(Coords) /\ IsFiniteSet(Procs) /\ IsFiniteSet(Flushers)
  /\ {statsFlushBatch, RetentionDays} \subseteq Nat \ {0}
  /\ {MaxEvents, MaxRepeats, MaxDay} \subseteq Nat

VARIABLES
  live,        \* coordinates whose topic and channel rows exist
  events,      \* coordinate -> events committed so far
  unrecorded,  \* process -> coordinate -> committed, recordStat still to come
  statBuf,     \* process -> coordinate -> buffered delta
  table,       \* UTC day -> coordinate -> novaque_stats_daily
  landed,      \* UTC day -> coordinate -> all that flushes have written there
               \* and no cascade deleted, pruned by now or not
  today,       \* date('now')
  flush,       \* <<process, i>> -> the FlushStats call
  doomed,      \* process -> coordinates its cascades have yet to discard
  forgotten,   \* coordinate -> deltas lost with a process or pruned
  repeated     \* coordinate -> deltas written by a statement reported failed

vars == <<live, events, unrecorded, statBuf, table, landed, today, flush, doomed,
          forgotten, repeated>>

Days  == 0..MaxDay
Calls == Procs \X Flushers
Zero  == [c \in Coords |-> 0]

NoFlush == [pc |-> "idle", pending |-> Zero, order |-> {}, kept |-> {}]

Plus(f, g) == [c \in Coords |-> f[c] + g[c]]
Only(f, S) == [c \in Coords |-> IF c \in S THEN f[c] ELSE 0]

(* The next statsFlushBatch coordinates of order. *)
Batch(order) ==
  {c \in order : Cardinality({x \in order : x < c}) < statsFlushBatch}

----------------------------------------------------------------------------
(* A mutation on c commits in process p; recordStat follows. *)
Mutate(p, c) ==
  /\ c \in live
  /\ SumFunction(events) < MaxEvents
  /\ events' = [events EXCEPT ![c] = @ + 1]
  /\ unrecorded' = [unrecorded EXCEPT ![p][c] = @ + 1]
  /\ UNCHANGED <<live, statBuf, table, landed, today, flush, doomed, forgotten, repeated>>

recordStat(p, c) ==
  /\ unrecorded[p][c] > 0
  /\ unrecorded' = [unrecorded EXCEPT ![p][c] = @ - 1]
  /\ statBuf' = [statBuf EXCEPT ![p][c] = @ + 1]
  /\ UNCHANGED <<live, events, table, landed, today, flush, doomed, forgotten, repeated>>

(* Mutant: nothing is flushed before two deltas have gathered. *)
TakeWhenTwo(f) ==
  LET p == f[1] IN
  /\ flush[f].pc = "idle"
  /\ \E c \in Coords : statBuf[p][c] > 1
  /\ flush' = [flush EXCEPT ![f] =
       [pc |-> "filter", pending |-> statBuf[p],
        order |-> {c \in Coords : statBuf[p][c] > 0}, kept |-> {}]]
  /\ statBuf' = [statBuf EXCEPT ![p] = Zero]
  /\ UNCHANGED <<live, events, unrecorded, table, landed, today, doomed, forgotten, repeated>>

(* FlushStats takes the whole buffer. *)
FlushTake(f) ==
  LET p == f[1] IN
  /\ flush[f].pc = "idle"
  /\ statBuf[p] # Zero
  /\ flush' = [flush EXCEPT ![f] =
       [pc |-> "filter", pending |-> statBuf[p],
        order |-> {c \in Coords : statBuf[p][c] > 0}, kept |-> {}]]
  /\ statBuf' = [statBuf EXCEPT ![p] = Zero]
  /\ UNCHANGED <<live, events, unrecorded, table, landed, today, doomed, forgotten, repeated>>

(* One page of liveStatsCoords. *)
LiveIn(page) == page \cap live

(* After the last page, a flush with nothing left is over. *)
FlushFilter(f) ==
  LET page == Batch(flush[f].order)
      rest == flush[f].order \ page
      kept == flush[f].kept \cup LiveIn(page)
  IN
  /\ flush[f].pc = "filter"
  /\ flush' = [flush EXCEPT ![f] =
       IF rest # {} THEN [@ EXCEPT !.order = rest, !.kept = kept]
       ELSE IF kept = {} THEN NoFlush
       ELSE [@ EXCEPT !.pc = "upsert", !.order = kept, !.kept = {}]]
  /\ UNCHANGED <<live, events, unrecorded, statBuf, table, landed, today, doomed,
                 forgotten, repeated>>

(* The read fails: every pending delta is merged back. *)
FlushFilterFails(f) ==
  /\ flush[f].pc = "filter"
  /\ statBuf' = [statBuf EXCEPT ![f[1]] = Plus(@, flush[f].pending)]
  /\ flush' = [flush EXCEPT ![f] = NoFlush]
  /\ UNCHANGED <<live, events, unrecorded, table, landed, today, doomed, forgotten, repeated>>

(* The batch lands in the bucket of the database's day. *)
Landing(buckets, f) ==
  [buckets EXCEPT ![today] = Plus(@, Only(flush[f].pending, Batch(flush[f].order)))]

Upserted(f) == Landing(table, f)

FlushUpsert(f) ==
  LET rest == flush[f].order \ Batch(flush[f].order) IN
  /\ flush[f].pc = "upsert"
  /\ table' = Upserted(f)
  /\ landed' = Landing(landed, f)
  /\ flush' = [flush EXCEPT ![f] = IF rest = {} THEN NoFlush ELSE [@ EXCEPT !.order = rest]]
  /\ UNCHANGED <<live, events, unrecorded, statBuf, today, doomed, forgotten, repeated>>

(* Mutant: batches that landed are merged back too. *)
AllPending(f) == flush[f].pending

(* The deltas of the failed batch and of every later one. *)
Remaining(f) == Only(flush[f].pending, flush[f].order)

(* The statement reports an error, and it either did not land or did       *)
(* although the answer was lost.                                           *)
FlushUpsertFails(f) ==
  /\ flush[f].pc = "upsert"
  /\ \/ UNCHANGED <<table, landed, repeated>>
     \/ /\ \A c \in Batch(flush[f].order) : repeated[c] + flush[f].pending[c] <= MaxRepeats
        /\ table' = Upserted(f)
        /\ landed' = Landing(landed, f)
        /\ repeated' = Plus(repeated, Only(flush[f].pending, Batch(flush[f].order)))
  /\ statBuf' = [statBuf EXCEPT ![f[1]] = Plus(@, Remaining(f))]
  /\ flush' = [flush EXCEPT ![f] = NoFlush]
  /\ UNCHANGED <<live, events, unrecorded, today, doomed, forgotten>>

(* DeleteChannel or DeleteTopic in process p: rows and stats go in one     *)
(* transaction, the buffered deltas after it.                              *)
Cascade(p, S) ==
  /\ S # {} /\ S \subseteq live
  /\ live' = live \ S
  /\ table' = [d \in Days |-> Only(table[d], Coords \ S)]
  /\ landed' = [d \in Days |-> Only(landed[d], Coords \ S)]
  /\ doomed' = [doomed EXCEPT ![p] = @ \cup S]
  /\ UNCHANGED <<events, unrecorded, statBuf, today, flush, forgotten, repeated>>

discardStats(p) ==
  /\ doomed[p] # {}
  /\ statBuf' = [statBuf EXCEPT ![p] = Only(@, Coords \ doomed[p])]
  /\ doomed' = [doomed EXCEPT ![p] = {}]
  /\ UNCHANGED <<live, events, unrecorded, table, landed, today, flush, forgotten, repeated>>

(* Mutant: an off-by-one at the edge of the window. *)
OneDayEarly(d) == d <= today - RetentionDays

(* day_utc < date('now', '-N days') *)
PastRetention(d) == d < today - RetentionDays

(* One bounded DELETE of PruneStats; its loop runs until none is left. *)
PruneStats ==
  \E d \in Days, c \in Coords :
    /\ PastRetention(d)
    /\ table[d][c] > 0
    /\ table' = [table EXCEPT ![d][c] = 0]
    /\ forgotten' = [forgotten EXCEPT ![c] = @ + table[d][c]]
    /\ UNCHANGED <<live, events, unrecorded, statBuf, landed, today, flush, doomed, repeated>>

NewDay ==
  /\ today < MaxDay
  /\ today' = today + 1
  /\ UNCHANGED <<live, events, unrecorded, statBuf, table, landed, flush, doomed,
                 forgotten, repeated>>

----------------------------------------------------------------------------
(* Deltas of c in process p that are not in the table yet: those committed *)
(* and buffered, and those a flush still has to write.                     *)
InFlush(f, c) ==
  CASE flush[f].pc = "idle"   -> 0
    [] flush[f].pc = "filter" -> flush[f].pending[c]
    [] flush[f].pc = "upsert" -> IF c \in flush[f].order THEN flush[f].pending[c] ELSE 0

InFlushes(p, c) == SumFunction([i \in Flushers |-> InFlush(<<p, i>>, c)])

Held(p, c) == unrecorded[p][c] + statBuf[p][c] + InFlushes(p, c)

(* The process dies with its buffer. *)
Crash(p) ==
  /\ forgotten' = [c \in Coords |-> forgotten[c] + Held(p, c)]
  /\ unrecorded' = [unrecorded EXCEPT ![p] = Zero]
  /\ statBuf' = [statBuf EXCEPT ![p] = Zero]
  /\ flush' = [f \in Calls |-> IF f[1] = p THEN NoFlush ELSE flush[f]]
  /\ doomed' = [doomed EXCEPT ![p] = {}]
  /\ UNCHANGED <<live, events, table, landed, today, repeated>>

Init ==
  /\ live = Coords
  /\ events = Zero
  /\ unrecorded = [p \in Procs |-> Zero]
  /\ statBuf = [p \in Procs |-> Zero]
  /\ table = [d \in Days |-> Zero]
  /\ landed = [d \in Days |-> Zero]
  /\ today = 0
  /\ flush = [f \in Calls |-> NoFlush]
  /\ doomed = [p \in Procs |-> {}]
  /\ forgotten = Zero
  /\ repeated = Zero

FlushStats(f) ==
  FlushTake(f) \/ FlushFilter(f) \/ FlushFilterFails(f) \/ FlushUpsert(f) \/ FlushUpsertFails(f)

Next ==
  \/ \E p \in Procs :
       \/ \E c \in Coords : Mutate(p, c) \/ recordStat(p, c)
       \/ \E S \in SUBSET Coords : Cascade(p, S)
       \/ discardStats(p)
       \/ Crash(p)
  \/ \E f \in Calls : FlushStats(f)
  \/ PruneStats
  \/ NewDay

Spec == Init /\ [][Next]_vars

(* The last statement of a loop over batches. *)
LastBatch(f) == Batch(flush[f].order) = flush[f].order

(* loopStats flushes at every tick of its ticker; neither the statements   *)
(* of a loop nor its last one fail every time.                             *)
FairSpec ==
  /\ Spec
  /\ \A p \in Procs, c \in Coords : WF_vars(recordStat(p, c))
  /\ \A f \in Calls : /\ WF_vars(FlushTake(f))
                      /\ SF_vars(FlushFilter(f))
                      /\ SF_vars(FlushFilter(f) /\ LastBatch(f))
                      /\ SF_vars(FlushUpsert(f))
                      /\ SF_vars(FlushUpsert(f) /\ LastBatch(f))

----------------------------------------------------------------------------
(* Properties. *)

(* Every event of a live coordinate is counted exactly once, wherever it   *)
(* is on its way, except for what died with a process or was pruned, and   *)
(* twice only where a statement landed although it reported an error: a    *)
(* flush that fails half way neither loses nor repeats a batch, and two    *)
(* flushes of one buffer do not share a delta.                             *)
CountsConserved ==
  \A c \in live :
    events[c] + repeated[c] =
      forgotten[c] + SumFunction([p \in Procs |-> Held(p, c)])
                   + SumFunction([d \in Days |-> table[d][c]])

(* While someone flushes, every committed event reaches the table (or is   *)
(* dropped with its topic), although flushes fail and merge back.          *)
CountsSettle ==
  \A p \in Procs, c \in Coords : Held(p, c) > 0 ~> Held(p, c) = 0
=============================================================================
