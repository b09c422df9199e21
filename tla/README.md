# Verification of Novaque

Novaque is a Go library: a durable message queue with topics, channels, leases,
delays, TTLs and dead letters, kept in a SQL database (SQLite, MySQL or
PostgreSQL). There is no server. Every process that uses the queue links the
library, runs its own consumers and its own maintenance loops, and all of them
meet in the tables. What makes the code hard to test is therefore what happens
*between* the SQL statements of different processes and goroutines, and after
one of them died.

This directory holds TLA+ models of the library, the TLC instances that check
them, and TLAPS proofs. `PROJECT.json` lists components, runs, mutants, the
source lines behind each definition, hazards, findings and theorems.

## 1. Inventory

| component | source | state | operations | hard part |
|---|---|---|---|---|
| SQLite driver, queue | `driver/sqlite/{claim,publish,maintenance,sqlite,admin}.go`, `schema.sql` | the four tables | EnsureTopic, EnsureChannel, Publish, Claim, Ack, Requeue, ReapExpiredLeases, PurgeExpired, RequeueDead, DeleteDead, DeleteTopic, DeleteChannel | poll and lease are separate statements under snapshots; purge decides in one statement and deletes in another; late acks |
| SQLite driver, counters | `driver/sqlite/{stats,stats_foundation}.go` | a buffer per process, `novaque_stats_daily` | recordStat, FlushStats, discard, PruneStats, read queries | a flush in batches that fails half way; cascades and other flushes in between |
| MySQL and PostgreSQL drivers | `driver/mysql`, `driver/postgres` | the same tables | the same | row locks (`FOR UPDATE SKIP LOCKED`), read committed, lock order |
| store contract | `store/store.go` | none | the `Store` interface | what a driver owes to the client |
| publish validation | `store/delay.go`, `client.go` | none | default filling, ValidatePublishDelay | rounding in two directions, two clocks |
| id cache | `store/cached.go`, `client.go` | topic and channel memos of a process | EnsureTopic, EnsureChannel, DeleteTopic, DeleteChannel, InvalidateTopic, the self-heal of Publish | entries outlive rows; nothing locks the memo across a driver call |
| Consumer | `client.go` | poller, `work` channel, handlers, `started` | Start, pollLoop, handleLoop, dispatch, finishWithRetry, Shutdown | leases lapse under handlers, answers get lost, cancels race the select, a second Start on a draining run |
| Client lifecycle | `client.go` | `started`, `stop`, `wg` | Start, Shutdown, loopReap, loopPurge, loopStats, FlushStats, final flush | restart after a timed-out Shutdown; flushes that lock the same rows; a shutdown that waits for a loop that waits for a database |
| admin pages, JSON API, heatmap | `admin/*.go` | none of their own | listings, keyset pagination, the dead-letter forms, trend strips | pages move while rows go; cursor at its limit; host day and database day |
| logger, time conversions, commands, test helpers | `logger.go`, `*/time.go`, `cmd`, `internal` | none | | |

How they interact: a `Client` wraps the driver in the `CachingStore` and calls
it from user goroutines (publish, admin), from each `Consumer`'s poller and
handlers, and from its three maintenance loops. Processes share only the
database. The counters are the one piece of state a driver keeps in memory.

What makes each part correct:

- queue: a lease has one holder and only the last one settles; an acked
  delivery never comes back; a handler sees a delivery at most `max_attempts`
  times; nothing is leased outside `[available_at, expires_at)`; nothing is
  lost but by ack, expiry or deletion; abandoned leases end; expired messages go;
- validation: client and driver agree, and what is stored can be claimed;
- cache: an id is the name's own or dead, never another name's; stale ids are
  evicted in the end, so publishes get through again;
- consumer: one lease reaches one handler; no claim waits for buffer space; a
  delivery only disappears after success; a cancelled run ends;
- counters: each event counted once, except what died with a process; a trend
  strip shows all that was counted on each day of its window;
- client: no run without someone who can stop it; the final flush after the
  loops; flushes never deadlock; what is stopped ends;
- dead letters: a browse skips and repeats nothing; each death is settled by one
  commit, whatever its answer.

## 2. Modules

| module | what it is |
|---|---|
| `PublishDelay` | pure operators: DurationSec, DelaySec, ValidatePublishDelay and the column values of publish |
| `DeliveryTable` | a delivery row and the SET and WHERE clauses of the statements on it |
| `SqliteStore` | the SQLite driver as a state machine over the four tables |
| `LeaseQueue` | abstract specification: what the store promises about deliveries |
| `SqliteQueue` | the refinement mapping from SqliteStore to LeaseQueue |
| `PublishPath` | Client.Publish and the driver's publish, with a clock each |
| `Consumer` | the consumer's goroutines, on top of LeaseQueue |
| `CachingStore` | the memos of several processes over one database |
| `RowLockStore` | the MySQL and PostgreSQL drivers over the same tables, with row locks and open transactions as state |
| `RowLockQueue` | the refinement mapping from RowLockStore to LeaseQueue |
| `StatsSink` | the buffered event counters |
| `StatsTrend` | the trend strips of the admin pages, as operators over StatsSink's table |
| `ClientLifecycle` | Start, Shutdown, the maintenance loops, the WaitGroup and the row locks of FlushStats |
| `AdminPages` | the dead-letter pages and forms, over an abstract delivery table |
| `SqliteStoreProofs` | theorems about SqliteStore and SqliteQueue |
| `RowLockStoreProofs` | theorems about RowLockStore and RowLockQueue |
| `DeliveryTableProofs` | lemmas about the row operators that both driver modules use |
| `ClientProofs` | theorems about ClientLifecycle and PublishPath |
| `StatsProofs` | theorems about StatsSink and StatsTrend |
| `ConsumerProofs`, `CachingStoreProofs`, `AdminPagesProofs` | theorems about the module of that name |
| `MC*` | instances for TLC |

### SqliteStore

SQLite has snapshot transactions and one writer. A statement on its own, and a
transaction from its first write to its commit, is one step. What is not one
step in the code is not one here:

- `Claim` polls in one step and leases in another (`claim[p]`). `fresh` holds
  the claimers whose snapshot is still the latest; every commit empties it, and
  a claimer outside it can only take `ClaimBusy`, SQLITE_BUSY_SNAPSHOT, which
  tries the transaction again up to `claimMaxAttempts` times. `ClaimBusy` is
  also possible at any other time, as SQLITE_BUSY is.
- `PurgeExpired` is four statements without a transaction (`purge[q]`), any of
  which can be the last one (`PurgeAbort`).
- `Publish` and `RequeueDead` read the clock in an earlier statement than the
  one that commits. They take any reading at most `MaxStall` seconds old.

A delivery's id is the pair `<<message, channel>>`: only publish inserts
deliveries, one per channel of the topic under a new message id, so the pair
identifies the row as its own AUTOINCREMENT id does. A lease token is the number
of the lease statement: the code makes a random token per row and statement, and
always compares it together with the row's id.
NULL is 0. `now` is `unixepoch()` and only moves forward. Statements that match
no row (a rejected ack, ErrDeadGone, a second DeleteTopic) are stuttering steps.
EnsureChannel's inner EnsureTopic is the EnsureTopic action. `issued`, `acked` and
`requeued` are history, pairs of a delivery and a token: every pair in `issued` may be
acked or requeued at any later time, any number of times, which covers dead, slow and
retrying holders; the other two say under which token it succeeded. `counters`
are recorded with the commit; what happens to them afterwards is StatsSink.

### LeaseQueue and SqliteQueue

LeaseQueue knows no tables, clocks, transactions or batches: a delivery is new,
pending, in flight under one token, dead or gone. `ImplementsQueue` says that
every step of SqliteStore is a step of it or a stutter; RowLockQueue says the same
of the other two drivers. `Consumer` extends LeaseQueue, so what is checked of the
consumer holds over all three.

### RowLockStore and RowLockQueue

The two server databases run any number of transactions at once, at READ
COMMITTED. `tables` are the committed rows; `tx[s]` is the call a session is in,
with the rows it has selected, locked or written so far. One action is one
statement, the last one together with the commit. A statement that meets a lock
waits: its action is not enabled. A plain read sees what is committed when it
starts, and nothing keeps that true until the next statement. `Abort` rolls back
at any point: lock and statement timeouts, deadlock victims, cancelled contexts,
crashes.

The variable `dialect` is chosen once. MySQL's reap and orphan delete decide and
write under one statement's locks; PostgreSQL's decide in a subquery, lock
afterwards, and test the outer WHERE on the row version they locked. MySQL leases
row by row, PostgreSQL all polled rows in one UPDATE. In a topic cascade MySQL waits
for messages that are inserted and not committed; PostgreSQL does not see them and
fails on the foreign key of the topic.

Foreign keys carry the weight: a publish holds its topic and channels shared, a
parent can go only when its children are rows the same transaction deleted.
Deadlocks between two transactions are not told apart from other rollbacks. As in
SqliteStore, a delivery's id is `<<message, channel>>` and a token is the number of
the lease. Counters are left to StatsSink.

In RowLockQueue a delivery of a message that an open publish has inserted is new;
it becomes pending with the commit or gone with the rollback.

### PublishPath

One request goes through the default filling and check of `Client.Publish` with
the host's clock, then through the driver's check and column values with the
database's. The two clocks are unrelated. Requests that go to a store directly
are covered too.

### Consumer

Each `Start` opens a run with its own poller, channel and handlers; a Shutdown
that timed out leaves the old run draining. The claimed batch and the channel
are sets of `<<delivery, token>>`. Leases lapse at any time (`Reap`), so handlers
of any speed are covered. An ack or requeue may commit and report an error.
Logging, sleeps, jitter and owner ids are left out.

### CachingStore

Each memo access and each driver call is one step of a thread
`<<process, goroutine>>`. The database is the topic and channel rows. A sweep of
one memo is one step. Pass-through methods change no state of the cache. Goroutines
of one process share its memos, so a Store may come after a sweep it should have come
before: cached.go has no lock over the two. What a call returned is forgotten, except
that a publish went through.

### StatsSink

The six counters of a row always travel together and are one number. A
coordinate is numbered in the order FlushStats sorts by. `unrecorded` is the gap
between a mutation's commit and its recordStat. A failing upsert may have written
its batch (`repeated`, bounded by `MaxRepeats`). `forgotten` counts what died with
a process or was pruned. `landed` is history: what flushes have written for each day,
pruned since or not. StatsSink is the SQLite driver; the other two flush
without the existence filter, and their row locks are in ClientLifecycle.

### StatsTrend

zeroFillDaily and heatmap.go as operators, evaluated in every state StatsSink
reaches: the driver's window ends at the database's day, the page's at the host's,
up to `ClockSkew` days away. `TrendFaithful` gives the value of every day of a strip.
Inside the driver's window it is all that landed, up to the edge of the retention,
which a prune a day too early would break. Outside it is 0: on a host that lags the
oldest days of the strip look empty whatever the table holds for them, and today is
missing. It also compares the levels with a definition of
quarters that does not divide. The one number of a row stands for each volume
counter and, with its own shading, for dead.

### ClientLifecycle

A run is what one successful Start begins. Its loops are at their select, in a store
call, or in a flush. The stats loop has all three, the others two; the reap and the
purge loop have the same text, and TLC's instance has one of them. All runs share
one WaitGroup, whose counter is the number of live loops. A Wait that has been
released and not returned when a Start adds to the counter panics, as
`sync.WaitGroup` does, and so does an Add at zero with waiters: `panicked` ends the
process. A flush takes the whole buffer, locks the rows of a batch one by one in the
order of the statement, commits and goes on, or fails and merges the rest back.
Counts are left out (StatsSink): what matters here is which coordinates are held by
whom.

### AdminPages

A request is a check of the channel and then one read or one guarded mutation, two
steps between which everything else may happen. Deliveries are live or dead;
Publish, Bury, Retire and DeleteChannel stand for the driver modules. A mutation that
commits may be answered with an error (the commit's answer is lost); a request may
also fail with nothing written. int64 arithmetic wraps at `MaxInt64`. `throughout` and `unsettled` are history. The JSON
endpoints answer from the same two loads as the pages.

## 3. Runs

All bounds are constants of the cfg files.

| run | question | instance |
|---|---|---|
| `sqlite_queue` | are leases exclusive, fenced and inside their window, is poison bounded | two claimers with one retry, reaper, purger, two messages (one delayed) with one attempt, three lease statements, clock 0..3, clock reads up to one second old |
| `sqlite_admin` | do purge, dead-letter operations and cascades keep the tables consistent and lose nothing; does each step implement LeaseQueue | a topic that may be deleted and re-created, two channels, two purgers with batches of one, one message, three leases |
| `sqlite_recovery` | do abandoned leases end and expired messages go | two messages, maintenance fairness |
| `publish_path` | do the checks agree, is what is stored claimable | every combination of nine durations around all boundaries, five expiries, four times per clock |
| `consumer` | is each lease handled once, does the claim fit the buffer, is the channel drained | two overlapping runs, two deliveries with two attempts, crashes |
| `consumer_progress` | does each delivery end, only by success; do cancelled runs end | one run, retried acks |
| `cache_memo` | are memoized ids right or dead; do publishes get through again after deletes and re-creations | two goroutines of one process, a topic that may be deleted and re-created, two channel names with two ids |
| `stats_sink` | is each event counted once, does it settle; do the strips show what landed, at the edge of the retention and with clocks apart | two flushes of one buffer, batches of one, two events, cascades, crashes, three days, strips of two, retention of one, host clock up to a day off |
| `row_lock_queue` | do overlapping transactions of the two server drivers keep rows referenced, leases held and nothing lost; does each step implement LeaseQueue | both dialects, a publisher, two claimers, a maintainer, an admin; two messages, one channel, two leases, clock 0..2, batches of one for reap and purge, two for claim |
| `client_lifecycle` | do runs leak, does the final flush come last, can flushes deadlock, does what is stopped end | two runs with two loops each, one caller, two rows, batches of two |
| `dead_browse` | does a browse skip or repeat; is each death settled by one commit; is a page found exactly when its delivery is dead | two operators, one of whom also browses, two channels, pages of one, ids up to 3 |
| `consumer_drain` | violation, section 5 | smallest instance that shows the trace |

Why the bounds are enough to matter: every action and disjunct fires; claims meet
a full limit, two claimers poll the same rows, leases lapse and are taken again
within the clock, batches are smaller than the sets they choose from, ids run out
only after re-creation. For each property a mutant (a dropped guard, an
off-by-one, a missing reset, defined next to the original) is found by TLC under
the same bounds. Symmetry is used for claimers, purgers, sessions and deliveries in
safety runs only. Deadlock checking is off where the system may stop (bounds
reached, everything delivered, consumer stopped, process panicked); `publish_path`
checks it.

Some bounds restrict what a run shows. `cache_memo` has one process and one topic
name. What other processes do to a memo is to make its ids stale, which the second
goroutine does as well when it deletes between a driver call and its Store; an id that
comes to stand for another name is looked for among channels. The proof of
`MemoNeverWrong` covers any number of processes, goroutines and names. `stats_sink`'s
strips are no longer than the retention and a day; the proof covers longer ones, of
which prunes may have taken some days. `row_lock_queue` has one channel, so sibling deliveries of
one message are only covered by `sqlite_admin`. `client_lifecycle` has one caller:
two Shutdowns of one run exclude each other under the mutex, and the proofs cover
any number.
`AbandonedLeaseEnds` and `ExpiredMessagesRetire` speak of times the bounded clock
reaches.

### Fairness

- `sqlite_recovery`: weak fairness of the clock, the reaper and the purge's first
  statement (tickers, forever, in every process with maintenance on); strong
  fairness of the later purge statements (an error ends the call, the next tick
  tries again; errors do not strike at the same statement every time). None for
  publishers, claimers, holders or admins.
- `consumer_progress`: goroutines run; handlers return, their context ends with
  the lease; the reaper of some process runs; strong fairness of a successful
  claim. Acks may fail every time: budgets still bound the attempts. Nobody has
  to call Shutdown.
- `cache_memo`: a call goes on until it returns; publishers publish again and again
  while their process runs, and the driver's EnsureTopic and Publish do not fail every
  time. Nobody has to delete, subscribe or restart, and what is claimed holds only if
  the topic exists from some time on: a Publish may lose to deletes for ever.
- `stats_sink`: recordStat follows its commit; flushes start, and a statement
  that is reached again and again succeeds some time, the one of a flush's last
  batch too (otherwise the second of two batches might fail in every flush).
- `client_lifecycle`: goroutines that can move do; a store call and a flush return
  once their context is done, which `database/sql` guarantees (Shutdown's flush has
  5 seconds); a select with two ready cases does not take the ticker every time.
  Tickers, callers, the host's contexts and the database owe nothing.

## 4. Proofs

The theorems are for every value of the constants that satisfies the named
assumptions of the modules.

`SqliteStoreProofs`, from `SqliteStoreAssumption` and the assumptions of
PublishDelay (limits and durations are positive, options are well typed):

- `TypeCorrect`, inductive by itself, one case per action.
- `PoisonBounded`. `RowSteps` first shows that a step does to a row only one of:
  leave it, insert it, remove it, lease or bury it out of pending inside its
  window, release it out of in_flight, revive it out of dead. With it the bound
  is inductive. `LeasesInWindow` follows from the same lemma.
- `LeasesFenced`, `AckedForGood`: neither is inductive alone. `FencingInv` adds
  that no row and no token is newer than what the sequences handed out; then a new
  lease has the newest token, and an acked id cannot be inserted again.
- `ReferencesHold`, `OrphanDeleteSafe`: `IntegrityInv` adds the same bound for
  rows and for the orphans a purger holds. A selected orphan stays one because
  only publish inserts deliveries, and only under a new message id.
- `NothingLostEarly` uses `IntegrityInv` for DeleteTopic, which deletes by message.
- `ValidLeasesHeld`: what each statement does to a row under a valid lease, case by
  case. The histories of acks and requeues say under which token it was settled, and
  that must be the token of the lease itself.
- `CountersBalance` is about cardinalities: a statement that removes a set of rows of
  a channel adds as many to one counter. It needs that the ids are finitely many,
  and as strengthening `NoEarlyStats`: a channel id that was not handed out yet has
  all counters at zero, so a new channel starts balanced.
- `SqliteImplementsQueue`: the initial tables map to an empty queue, and each action
  maps to one action of LeaseQueue or to a stutter, under `TypeOK` and `FencingInv`
  (the token of a new lease must be new, and a row not stored whose message id was
  handed out must be gone for good).

`RowLockStoreProofs`, from the assumptions of RowLockStore (limits positive,
options well typed, and publishers, claimers, maintainers and admins are disjoint
sets of sessions: a role is what a session does, not a goroutine). For both dialects
and any number of sessions, one inductive invariant
`IInv == Types /\ IDsHandedOut /\ RowsLeased /\ Integrity /\ CallsOK /\ Locks`:

- `IDsHandedOut`, `RowsLeased`: no row, token or open call is newer than the
  sequences; the lease columns are set exactly while a row is in flight.
- `CallsOK`: per role, what a call read in an earlier statement and relies on in a
  later one. A publish's topic and, from the insert on, its channels are there; a
  claimer's polled rows are there and pending; a maintainer's orphans have no
  delivery; what an admin call has locked is there as it read it.
- `Locks`: no two calls lock the same row, and no cascade locks a channel that an
  open publish is about to commit deliveries for.

Each writing action must leave alone what the other calls have locked and the parents
that open publishes refer to (`Undisturbed`), and its own session ends with nothing
locked (`Unlocked`); `OthersKept` then carries every other call over the step. From
`IInv` follow `RowsConsistent` and `PolledRowsHeld` at once, `RowLeasesHeld` and
`NoRowLost` from what a step may do to a stored row (`RowAccounted`), and
`RowLockImplementsQueue`: a delivery that is not stored is gone once its message's id
is used up and no open publish has the message, so a message insert, a commit and a
rollback each move a set of deliveries at once.

`ConsumerProofs`, for any number of overlapping runs, handlers, callers, attempts and
any finite set of deliveries (`IsFiniteSet(Deliveries)`: counting the channel needs
it; the tables are finite): `HandledOnce`, `SendsFit`, `RunsDrain` and
`NothingLostToErrors` from one inductive invariant. It adds that nobody has an item
whose token was not given yet (`TokensGiven`, so a new lease is nobody's), that a
poller's request fits its buffer also after handlers took something out
(`FitsBuffer`), that a handler exits only from a closed and empty channel
(`LeftBehind`), that handled items are dispatched, and that who acks has seen its
handler return nil (`SuccessNoted`).

`ClientProofs` on PublishPath: `PathInv` says that what waits at the driver was cleared by
the client with some clock, and that with a TTL the verdict does not depend on the
clock. From it `ClientCheckAgrees` and `StoredClaimable`.

`CachingStoreProofs`: `MemoRightOrDead`, for any number of processes and
goroutines. `MemoInv` adds that what a goroutine is about to memoize is right or
dead as well, that ids in hand were given out (so they are not given out again),
and that channels go with their topics.

`ClientProofs` on ClientLifecycle, for any number of callers, runs, loops, rows and rows per
statement: `LifecycleTyped`, `NoRunLeaks`, `FinalFlushIsLast` and
`FlushesNeverDeadlock` from one inductive invariant `IInv`. It adds that each flush
holds only rows that come before its next one (`LocksInOrder`), that deltas are
held only by loops and callers that are in a flush (`DeltasInFlush`), that only
begun runs have loops, that a caller in Shutdown has the run it took
(`StopTaken`), and that a wait that is over found the loops of its run gone and
they stay gone (`WaitsForRun`, `FinalAfterLoops`). One lemma per action. For the
deadlock, take in a circle of waiting flushes the one whose next row is highest: it
waits for a row another one of the circle holds, which by `LocksInOrder` comes
before that one's next row, so that was not the highest. The existence of a highest
row is the well-foundedness of the naturals.

`AdminPagesProofs`, for any number of channels, browsers, operators and ids and any
page size, all three properties of AdminPages. `DeathsSettledOnce` is inductive with
the types; a commit whose answer is an error settles like any other. `BrowsesExact` needs `BrowseInv`: while a browse is under way, everything
it has shown is at or above its cursor, and every delivery that was dead all the time
has been shown or lies below the cursor. The lemma under it, `ListDeadPage`, says
what a page is: descending, of the rows the query selects, and what it leaves out is
older than its last row. It rests on the existence of a descending sequence of every
finite set of ids, an induction on the size of the set: the library's induction
theorems cannot be used here, so the smallest size without such a sequence is taken
(the naturals are well-founded) and contradicted. `ShowsTheDead` applies the same
lemma with a limit of one.

`StatsProofs`, for any finite sets of coordinates, processes and concurrent flushes
(`IsFiniteSet`, in `StatsSinkAssumption`: sums are over them), any batch size, any
retention and any number of days:

- Sums first. A sum of the community modules is a fold, a recursive function chosen
  by CHOOSE. `SumsExist` shows that there is one, `SumIterates` gives its equations,
  `SumType` says what it adds up to and `SumChanges` that a change of one term
  changes the sum by as much. They rest on inductions over the size and over the
  subsets of a finite set, with the predicate given as a set (`NatIsInductive`,
  `SubsetsAreInductive`), which the provers can instantiate; the base of both is the
  well-foundedness of the naturals.
- `CountedOnce`. `CountsConserved` alone is not inductive: a flush might have
  filtered out a coordinate that is live, or a discard might drop the deltas of one.
  `SinkInv` adds the types, that what a cascade has yet to discard is not live
  (`DoomedGone`; coordinates never become live again), and that a flush that is still
  filtering has every live coordinate with a delta in front of it or kept
  (`FilterComplete`). One lemma per action says which two terms of the balance move.
- `StripsFaithful`: TrendFaithful, for every window length, floor, page and clock
  skew. It adds `FutureEmpty`: nothing is stored for a day after today, since the
  driver's window has no upper end; and `LandedInv`: a bucket inside the retention is
  all that landed there, through flushes, cascades, prunes and new days. `StripCells` computes the strip (filled up,
  oldest first), `QuartileRoundsUp` shows that the rounded-up division of heatmap.go
  is the number of the quarter, and `MaxOfFinite` that the busiest day exists.

Only model-checked: all liveness (`AbandonedLeaseEnds`, `ExpiredMessagesRetire`,
`EveryDeliveryEnds`, `CancelledRunEnds`, `PublishHeals`, `CountsSettle`,
`StoppedEnds`). Fairness is
out of the prover's reach. Every other property of a passing run is stated by a
theorem.

## 5. Where code and comments disagree

- `consumer_drain`: after a cancel, pollLoop's select may take `ctx.Done` with a
  claimed batch in hand and drop its rest. Those deliveries wait for the reaper,
  while the comment of `Consumer.Start` says that claimed deliveries keep draining.

Found while modelling, without a run of their own:

- `cached.go:214` says that DeleteTopic evicts every channel entry under the topic, so
  that the deleting process does not go on subscribing against a stale id. Two ways
  around it, both behaviours of CachingStore. A Subscribe of another goroutine that has
  the topic's id and has not stored it yet is missed by the sweep and stores both ids
  before the rows go (`cached.go:65`). And with one goroutine: after another process
  deleted the topic, the topic entry is stale while EnsureChannel resolves the name
  afresh in the driver; deleting the re-created topic finds no entry with its id, and
  the channel entry stays (`cached.go:227`). A later Subscribe gets the dead id; it is
  never another channel's (`MemoNeverWrong`), and publishes recover (`PublishHeals`).
- `Client.DeleteChannel`'s comment says to stop and re-Subscribe consumers of a
  deleted channel; in any other process than the deleting one, Subscribe answers
  from the memo with the dead id (`cached.go:75`).
- SQLite's FlushStats filters deleted coordinates in one statement and upserts in
  another (`sqlite/stats.go:116`, `:139`). A cascade in between leaves counters of a
  deleted channel, which its comment says are dropped.
- The backlog queries of MySQL and PostgreSQL count expired pending rows out with
  "they can never be claimed" (`postgres/stats.go:237`). Claim's lease statement
  repeats the status and not `expires_at`, so a row polled in its last second may
  be leased in the next. SQLite's lease statement repeats it (`LeaseInWindow`).
- `store.go:21` describes ErrTopicGone as a vanished topic. mapTopicGone reports it
  for any foreign key that fails, also the one of a *channel* that was deleted
  between the fan-out's read and its insert, while the topic exists. The client's
  self-heal retries, so only an unneeded eviction results.
- `admin/dead.go:205` says that `deliveryID+1` wraps at the largest int64, reads as
  "no bound" and still finds the row. The drivers test `before = 0 OR id < before`,
  so a negative cursor matches nothing and the page is never found.
  `ShowsExactlyTheDead` leaves that id out.
- A Start after a Shutdown that timed out is not a no-op, contrary to "exactly once
  per Client", and when it falls into the window between the last loop's Done and
  the return of Wait the WaitGroup panics. TLC reaches it; nothing in the repository
  promises that a Client can be restarted.
- The trend strips take "today" from the host, the rows from the database. A host
  that is still on the day before does not show today's counters, and shows its oldest
  day as empty although the table may hold counters of it (`TrendFaithful` says so).

None of them breaks delivery.

## 6. Not modelled

Not modelled:

- logging, HTML and JSON rendering, the URL prefix, authentication and middleware,
  commands and test helpers: presentation, or users of the library;
- name validation, option defaults, schema migration: straight-line code without
  state the other parts see change;
- the read-only listings and counts, and the dashboard, topic and channel pages that
  join several of them: each read is one statement, and a page that shows a channel
  of one read without the row of the next zero-fills it, which no property of the
  queue depends on. The create and delete forms call store operations that are
  actions of the driver modules;
- the MySQL and PostgreSQL counters' prune and cascade: the SQL is the one of the
  SQLite driver, which StatsSink models.

Left for proofs: nothing but liveness. A proof of it would need the fairness rules
that the prover does not have.
