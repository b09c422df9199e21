-------------------------- MODULE ClientLifecycle ---------------------------
(***************************************************************************)
(* Client.Start and Client.Shutdown of client.go: the three maintenance    *)
(* loops of a run, the cancel function kept under the mutex, the one       *)
(* WaitGroup all runs share, and the counter flushes of the loop, of       *)
(* Shutdown and of callers, which lock the rows of                         *)
(* novaque_stats_daily (drivers mysql and postgres) one after the other.   *)
(*                                                                         *)
(* A run is what one successful Start begins.  The r-th run has the        *)
(* goroutine that waits for it on behalf of the Shutdown that stopped it.  *)
(***************************************************************************)
EXTENDS Integers, FiniteSets

CONSTANTS Loops,            \* the loops of a run, "stats" among them
          Callers,          \* goroutines of the host that call the Client
          MaxCoord,         \* (topic, channel) coordinates, in sort order
          statsFlushBatch,  \* rows per statement
          MaxRuns           \* bound: successful Starts

ASSUME ClientLifecycleAssumption ==
  /\ "stats" \in Loops
  /\ MaxCoord \in Nat
  /\ statsFlushBatch \in Nat \ {0}
  /\ MaxRuns \in Nat \ {0}
  /\ (1..MaxRuns) \cap Callers = {}

Runs   == 1..MaxRuns
Coords == 1..MaxCoord

(* Who flushes: the stats loop of a run, a caller explicitly or at the end *)
(* of Shutdown.                                                            *)
Flushes == Runs \cup Callers

VARIABLES
  started,    \* c.started
  stop,       \* the run whose cancel function is c.stop, 0 for nil
  runs,       \* runs begun so far
  cancelled,  \* runs whose context is done
  loop,       \* <<run, loop>> -> where the goroutine is
  waiter,     \* run -> the goroutine in c.wg.Wait()
  caller,     \* caller -> where it is in Shutdown or FlushStats
  buf,        \* coordinates with a delta in the driver's statBuf
  order,      \* flush -> coordinates it still has to write
  locked,     \* flush -> rows its statement has locked so far
  panicked    \* the WaitGroup has panicked: the process is gone

vars == <<started, stop, runs, cancelled, loop, waiter, caller, buf, order,
          locked, panicked>>

lifecycle == <<started, stop, runs, cancelled, waiter, panicked>>

NoCall == [pc |-> "idle", run |-> 0]

(* The counter of c.wg is the number of live loops. *)
Live(r) == {l \in Loops : loop[<<r, l>>] \notin {"none", "done"}}
WaitGroupZero == \A r \in Runs : Live(r) = {}

----------------------------------------------------------------------------
(* FlushStats.  The buffer is taken under statMu. *)
Take(f) ==
  /\ buf # {}
  /\ order' = [order EXCEPT ![f] = buf]
  /\ buf' = {}

Batch(f) ==
  {c \in order[f] : Cardinality({x \in order[f] : x < c}) < statsFlushBatch}

(* Mutant: the rows are listed in the order of the map. *)
AnyRow(f, c) == c \in Batch(f) \ locked[f]

(* The upsert locks its rows in the order it lists them, sorted. *)
NextRow(f, c) ==
  /\ c \in Batch(f) \ locked[f]
  /\ \A d \in Batch(f) \ locked[f] : c <= d

LockedByOther(f, c) == \E g \in Flushes \ {f} : c \in locked[g]

FlushLock(f) ==
  \E c \in Coords :
    /\ NextRow(f, c)
    /\ ~LockedByOther(f, c)
    /\ locked' = [locked EXCEPT ![f] = @ \cup {c}]
    /\ UNCHANGED <<lifecycle, loop, caller, buf, order>>

(* Where the flush returns to when it is over. *)
Returned(f) ==
  /\ loop' = [x \in DOMAIN loop |->
                IF x = <<f, "stats">> THEN "select" ELSE loop[x]]
  /\ caller' = [u \in Callers |-> IF u = f THEN NoCall ELSE caller[u]]

FlushCommit(f) ==
  LET rest == order[f] \ Batch(f) IN
  /\ order[f] # {}
  /\ locked[f] = Batch(f)
  /\ locked' = [locked EXCEPT ![f] = {}]
  /\ order' = [order EXCEPT ![f] = rest]
  /\ IF rest = {} THEN Returned(f) ELSE UNCHANGED <<loop, caller>>
  /\ UNCHANGED <<lifecycle, buf>>

(* The statement fails (the database, the context, Shutdown's 5 seconds):  *)
(* the deltas of this batch and the later ones are merged back.            *)
FlushFail(f) ==
  /\ order[f] # {}
  /\ locked' = [locked EXCEPT ![f] = {}]
  /\ order' = [order EXCEPT ![f] = {}]
  /\ buf' = buf \cup order[f]
  /\ Returned(f)
  /\ UNCHANGED lifecycle

(* A mutation records a delta. *)
Record(c) ==
  /\ c \notin buf
  /\ buf' = buf \cup {c}
  /\ UNCHANGED <<lifecycle, loop, caller, order, locked>>

(* Client.FlushStats *)
CallerFlush(u) ==
  /\ caller[u].pc = "idle"
  /\ Take(u)
  /\ caller' = [caller EXCEPT ![u].pc = "flush"]
  /\ UNCHANGED <<lifecycle, loop, locked>>

----------------------------------------------------------------------------
(* Mutant: a Start that does not look at started. *)
AlwaysStarts == TRUE

NotStarted == ~started

(* A duplicate Start returns at once.  wg.Add panics when the last loop    *)
(* has left and those that wait for it are not released yet.               *)
Start ==
  /\ NotStarted
  /\ runs < MaxRuns
  /\ started' = TRUE
  /\ stop' = runs + 1
  /\ runs' = runs + 1
  /\ loop' = [x \in DOMAIN loop |-> IF x[1] = runs + 1 THEN "select" ELSE loop[x]]
  /\ panicked' = (WaitGroupZero /\ \E r \in Runs : waiter[r] = "waiting")
  /\ UNCHANGED <<cancelled, waiter, caller, buf, order, locked>>

(* The context the host gave to Start is done. *)
CancelBase(r) ==
  /\ r \in (1..runs) \ cancelled
  /\ cancelled' = cancelled \cup {r}
  /\ UNCHANGED <<started, stop, runs, waiter, panicked, loop, caller, buf, order, locked>>

(* Mutant: a Shutdown that does not look at started. *)
AlwaysStops == TRUE

IsStarted == started

(* Shutdown takes c.stop under the mutex; one that finds the client not    *)
(* started returns at once.                                                *)
Shutdown(u) ==
  /\ caller[u].pc = "idle"
  /\ IsStarted
  /\ caller' = [caller EXCEPT ![u] = [pc |-> "stop", run |-> stop]]
  /\ started' = FALSE
  /\ stop' = 0
  /\ UNCHANGED <<runs, cancelled, waiter, panicked, loop, buf, order, locked>>

(* Mutant: the cancel function is taken and not called. *)
StopForgotten(u) ==
  /\ caller[u].pc = "stop"
  /\ waiter' = [waiter EXCEPT ![caller[u].run] = "new"]
  /\ caller' = [caller EXCEPT ![u].pc = "wait"]
  /\ UNCHANGED <<started, stop, runs, cancelled, panicked, loop, buf, order, locked>>

(* stop(), and the goroutine that will close done. *)
ShutdownStop(u) ==
  LET r == caller[u].run IN
  /\ caller[u].pc = "stop"
  /\ cancelled' = cancelled \cup {r}
  /\ waiter' = [waiter EXCEPT ![r] = "new"]
  /\ caller' = [caller EXCEPT ![u].pc = "wait"]
  /\ UNCHANGED <<started, stop, runs, panicked, loop, buf, order, locked>>

(* Mutant: the wait is over although loops still run. *)
NoWait(r) ==
  /\ waiter[r] = "new"
  /\ waiter' = [waiter EXCEPT ![r] = "done"]
  /\ UNCHANGED <<started, stop, runs, cancelled, panicked, loop, caller, buf, order, locked>>

(* c.wg.Wait() returns at once when the counter is zero. *)
Wait(r) ==
  /\ waiter[r] = "new"
  /\ waiter' = [waiter EXCEPT ![r] = IF WaitGroupZero THEN "done" ELSE "waiting"]
  /\ UNCHANGED <<started, stop, runs, cancelled, panicked, loop, caller, buf, order, locked>>

(* The wg.Done that took the counter to zero releases all who wait. *)
Release ==
  /\ WaitGroupZero
  /\ \E r \in Runs : waiter[r] = "waiting"
  /\ waiter' = [r \in Runs |-> IF waiter[r] = "waiting" THEN "released" ELSE waiter[r]]
  /\ UNCHANGED <<started, stop, runs, cancelled, panicked, loop, caller, buf, order, locked>>

(* Wait wakes and looks at the counter once more: a Start in between makes *)
(* it panic, "WaitGroup is reused before previous Wait has returned".      *)
WaitReturns(r) ==
  /\ waiter[r] = "released"
  /\ waiter' = [waiter EXCEPT ![r] = "done"]
  /\ panicked' = ~WaitGroupZero
  /\ UNCHANGED <<started, stop, runs, cancelled, loop, caller, buf, order, locked>>

(* done is closed: the final flush, which has nothing to do when the       *)
(* buffer is empty.                                                        *)
ShutdownDone(u) ==
  /\ caller[u].pc = "wait"
  /\ waiter[caller[u].run] = "done"
  /\ IF buf = {}
     THEN caller' = [caller EXCEPT ![u] = NoCall] /\ UNCHANGED <<buf, order>>
     ELSE caller' = [caller EXCEPT ![u].pc = "flush"] /\ Take(u)
  /\ UNCHANGED <<lifecycle, loop, locked>>

(* ctx expires first: Shutdown returns ctx.Err(), its goroutine still      *)
(* waits.                                                                  *)
ShutdownTimeout(u) ==
  /\ caller[u].pc = "wait"
  /\ caller' = [caller EXCEPT ![u] = NoCall]
  /\ UNCHANGED <<lifecycle, loop, buf, order, locked>>

----------------------------------------------------------------------------
(* A ticker fires: the loop calls the store.  When the context is done     *)
(* too, select takes either.                                               *)
LoopTick(r, l) ==
  /\ loop[<<r, l>>] = "select"
  /\ loop' = [loop EXCEPT ![<<r, l>>] = "call"]
  /\ UNCHANGED <<lifecycle, caller, buf, order, locked>>

(* ReapExpiredLeases, PurgeExpired or PruneStats returns; its error is     *)
(* logged.                                                                 *)
LoopReturn(r, l) ==
  /\ loop[<<r, l>>] = "call"
  /\ loop' = [loop EXCEPT ![<<r, l>>] = "select"]
  /\ UNCHANGED <<lifecycle, caller, buf, order, locked>>

LoopFlush(r) ==
  /\ loop[<<r, "stats">>] = "select"
  /\ Take(r)
  /\ loop' = [loop EXCEPT ![<<r, "stats">>] = "flush"]
  /\ UNCHANGED <<lifecycle, caller, locked>>

(* <-ctx.Done(): the loop returns, and wg.Done() runs. *)
LoopExit(r, l) ==
  /\ loop[<<r, l>>] = "select"
  /\ r \in cancelled
  /\ loop' = [loop EXCEPT ![<<r, l>>] = "done"]
  /\ UNCHANGED <<lifecycle, caller, buf, order, locked>>

----------------------------------------------------------------------------
Init ==
  /\ started = FALSE
  /\ stop = 0
  /\ runs = 0
  /\ cancelled = {}
  /\ loop = [x \in Runs \X Loops |-> "none"]
  /\ waiter = [r \in Runs |-> "none"]
  /\ caller = [u \in Callers |-> NoCall]
  /\ buf = {}
  /\ order = [f \in Flushes |-> {}]
  /\ locked = [f \in Flushes |-> {}]
  /\ panicked = FALSE

Lifecycle ==
  \/ Start
  \/ Release
  \/ \E u \in Callers :
       \/ Shutdown(u) \/ ShutdownStop(u) \/ ShutdownDone(u) \/ ShutdownTimeout(u)
  \/ \E r \in Runs : CancelBase(r) \/ Wait(r) \/ WaitReturns(r)

Maintain ==
  \E r \in Runs :
    \/ \E l \in Loops : LoopTick(r, l) \/ LoopReturn(r, l) \/ LoopExit(r, l)
    \/ LoopFlush(r)

Flush ==
  \/ \E c \in Coords : Record(c)
  \/ \E u \in Callers : CallerFlush(u)
  \/ \E f \in Flushes : FlushLock(f) \/ FlushCommit(f) \/ FlushFail(f)

Next == ~panicked /\ (Lifecycle \/ Maintain \/ Flush)

Spec == Init /\ [][Next]_vars

(* Goroutines that can move do; a store call returns once its context is   *)
(* done; select, with two cases ready, does not take the ticker every      *)
(* time; Shutdown's final flush has a timeout.                             *)
FairSpec ==
  /\ Spec
  /\ WF_vars(~panicked /\ Release)
  /\ \A r \in Runs :
       /\ WF_vars(~panicked /\ (Wait(r) \/ WaitReturns(r)))
       /\ WF_vars(~panicked /\ r \in cancelled /\ FlushFail(r))
       /\ \A l \in Loops : /\ WF_vars(~panicked /\ r \in cancelled /\ LoopReturn(r, l))
                           /\ SF_vars(~panicked /\ LoopExit(r, l))
  /\ \A u \in Callers :
       /\ WF_vars(~panicked /\ (ShutdownStop(u) \/ ShutdownDone(u)))
       /\ WF_vars(~panicked /\ caller[u].run # 0 /\ FlushFail(u))

----------------------------------------------------------------------------
(* Properties. *)

(* Every goroutine is somewhere, and every run that is stopped was begun. *)
TypeOK ==
  /\ started \in BOOLEAN /\ panicked \in BOOLEAN
  /\ runs \in 0..MaxRuns
  /\ stop \in 0..runs
  /\ cancelled \subseteq 1..runs
  /\ loop \in [Runs \X Loops -> {"none", "select", "call", "flush", "done"}]
  /\ waiter \in [Runs -> {"none", "new", "waiting", "released", "done"}]
  /\ caller \in [Callers -> [pc : {"idle", "stop", "wait", "flush"}, run : 0..runs]]
  /\ buf \subseteq Coords
  /\ order \in [Flushes -> SUBSET Coords]
  /\ locked \in [Flushes -> SUBSET Coords]

(* No run is left without someone who can stop it: as long as its loops    *)
(* have not been told to end, its cancel function is in c.stop or in the   *)
(* hands of a Shutdown, whatever Starts and Shutdowns overlap.             *)
NoLeakedRun ==
  \A r \in (1..runs) \ cancelled :
    \/ started /\ stop = r
    \/ \E u \in Callers : caller[u].pc = "stop" /\ caller[u].run = r

(* Shutdown's final flush comes after the loops of the run it stopped:     *)
(* none of them still holds deltas it took, which would be written, or     *)
(* merged back, behind the flush that is meant to drain the buffer.        *)
FinalFlushAlone ==
  \A u \in Callers :
    caller[u].pc = "flush" /\ caller[u].run # 0 =>
      Live(caller[u].run) = {} /\ order[caller[u].run] = {}

(* f waits for a row that g has locked. *)
WaitsFor(f, g) == \E c \in locked[g] : NextRow(f, c)

(* Overlapping flushes never wait for each other in a circle: the comment  *)
(* of FlushStats, "one global row-lock order, so overlapping flushes       *)
(* cannot AB/BA deadlock".                                                 *)
NoFlushDeadlock ==
  \A S \in (SUBSET Flushes) \ {{}} : ~\A f \in S : \E g \in S : WaitsFor(f, g)

(* What is stopped ends: the loops of a stopped run, whatever their        *)
(* tickers, the database and other runs do, and a Shutdown that nobody     *)
(* starts the client again under, without the help of its deadline.        *)
StoppedEnds ==
  /\ \A r \in Runs : r \in cancelled ~> Live(r) = {} \/ panicked
  /\ \A u \in Callers :
       caller[u].pc \in {"stop", "wait"} ~> caller[u].pc = "idle" \/ started \/ panicked
=============================================================================
