---------------------------- MODULE ClientProofs ----------------------------
(***************************************************************************)
(* What is proved of the Client.                                           *)
(*                                                                         *)
(* ClientLifecycle: runs, waiters and row locks, for any number of         *)
(* callers, runs, loops, rows and rows per statement.                      *)
(*                                                                         *)
(* PublishPath: the two checks of a publish agree, for every duration,     *)
(* every default and any two clocks.  The argument is that the check of a  *)
(* request with a TTL compares offsets: the clock cancels out.             *)
(***************************************************************************)
EXTENDS ClientLifecycle, PublishPath, WellFoundedInduction, TLAPS

----------------------------------------------------------------------------
(* Start, Shutdown and the flushes. *)

(* A deadlock of any number of flushes is ruled out by the order in which  *)
(* each of them locks: all rows it holds come before the next one.         *)
LocksInOrder ==
  \A f \in Flushes :
    /\ locked[f] \subseteq Batch(f)
    /\ \A c \in locked[f] : \A d \in Batch(f) \ locked[f] : c < d

(* Deltas are held only where the program is in a flush. *)
DeltasInFlush ==
  /\ \A r \in Runs : order[r] # {} => loop[<<r, "stats">>] = "flush"
  /\ \A u \in Callers : order[u] # {} => caller[u].pc = "flush"

(* Only the loops of runs that were begun exist. *)
OnlyBegun ==
  \A r \in Runs, l \in Loops : loop[<<r, l>>] # "none" => r <= runs

(* c.stop is there while the client is started; a caller in Shutdown has   *)
(* the run it took.                                                        *)
StopTaken ==
  /\ started => stop \in 1..runs
  /\ \A u \in Callers :
       /\ caller[u].pc = "idle" => caller[u].run = 0
       /\ caller[u].pc \in {"stop", "wait"} => caller[u].run \in 1..runs

(* A wait that is over found the loops of its run gone. *)
WaitsForRun ==
  \A r \in Runs :
    /\ waiter[r] # "none" => r <= runs
    /\ waiter[r] \in {"released", "done"} => Live(r) = {}

(* So did the Shutdown that is in its final flush. *)
FinalAfterLoops ==
  \A u \in Callers :
    caller[u].pc = "flush" /\ caller[u].run # 0 => Live(caller[u].run) = {}

IInv == /\ TypeOK /\ LocksInOrder /\ DeltasInFlush /\ OnlyBegun /\ StopTaken
        /\ WaitsForRun /\ FinalAfterLoops /\ NoLeakedRun

----------------------------------------------------------------------------
LEMMA InitIInv == Init => IInv
<1> SUFFICES ASSUME Init PROVE IInv
  OBVIOUS
<1> USE ClientLifecycleAssumption DEF Init, Runs, Flushes, NoCall
<1>1. TypeOK
  <2>1. started \in BOOLEAN /\ panicked \in BOOLEAN
    OBVIOUS
  <2>2. runs \in 0..MaxRuns /\ stop \in 0..runs /\ cancelled \subseteq 1..runs
    OBVIOUS
  <2>3. loop \in [Runs \X Loops -> {"none", "select", "call", "flush", "done"}]
    OBVIOUS
  <2>4. waiter \in [Runs -> {"none", "new", "waiting", "released", "done"}]
    OBVIOUS
  <2>5. caller \in [Callers -> [pc : {"idle", "stop", "wait", "flush"}, run : 0..runs]]
    OBVIOUS
  <2>6. buf \subseteq Coords /\ order \in [Flushes -> SUBSET Coords]
          /\ locked \in [Flushes -> SUBSET Coords]
    OBVIOUS
  <2> QED
    BY <2>1, <2>2, <2>3, <2>4, <2>5, <2>6 DEF TypeOK
<1>2. LocksInOrder
  BY DEF LocksInOrder, Batch
<1>3. DeltasInFlush /\ OnlyBegun
  BY DEF DeltasInFlush, OnlyBegun
<1>4. StopTaken /\ WaitsForRun /\ FinalAfterLoops /\ NoLeakedRun
  BY DEF StopTaken, WaitsForRun, FinalAfterLoops, NoLeakedRun, Live
<1> QED
  BY <1>1, <1>2, <1>3, <1>4 DEF IInv

(* A flush that takes the buffer holds no row yet. *)
LEMMA TakeKeepsLocks ==
  ASSUME IInv, NEW f \in Flushes, order[f] = {}, Take(f), locked' = locked
  PROVE  LocksInOrder'
<1>1. locked[f] = {}
  BY DEF IInv, LocksInOrder, Batch
<1>2. \A g \in Flushes \ {f} : Batch(g)' = Batch(g)
  BY DEF IInv, TypeOK, Take, Batch
<1> QED
  BY <1>1, <1>2 DEF IInv, LocksInOrder

LEMMA StartKeeps ==
  ASSUME IInv, Start
  PROVE  IInv'
<1> USE ClientLifecycleAssumption DEF IInv, Runs, Flushes, lifecycle
<1>1. TypeOK'
  BY DEF Start, NotStarted, WaitGroupZero, TypeOK
<1>2. LocksInOrder'
  BY DEF Start, NotStarted, WaitGroupZero, TypeOK, LocksInOrder, DeltasInFlush, StopTaken, Batch
<1>3. DeltasInFlush'
  BY DEF Start, NotStarted, WaitGroupZero, TypeOK, DeltasInFlush, OnlyBegun
<1>4. StopTaken'
  BY DEF Start, NotStarted, WaitGroupZero, TypeOK, StopTaken, DeltasInFlush
<1>5. WaitsForRun'
  BY DEF Start, NotStarted, WaitGroupZero, TypeOK, WaitsForRun, Live
<1>6. FinalAfterLoops'
  BY DEF Start, NotStarted, WaitGroupZero, TypeOK, FinalAfterLoops, DeltasInFlush, StopTaken, WaitsForRun, Live
<1>7. NoLeakedRun'
  BY DEF Start, NotStarted, WaitGroupZero, TypeOK, NoLeakedRun, DeltasInFlush, StopTaken
<1>8. OnlyBegun'
  BY DEF Start, NotStarted, WaitGroupZero, TypeOK, OnlyBegun
<1> QED
  BY <1>1, <1>2, <1>3, <1>4, <1>5, <1>6, <1>7, <1>8

LEMMA ReleaseKeeps ==
  ASSUME IInv, Release
  PROVE  IInv'
<1> USE ClientLifecycleAssumption DEF IInv, Runs, Flushes, lifecycle
<1>1. TypeOK'
  BY DEF Release, WaitGroupZero, TypeOK
<1>2. LocksInOrder'
  BY DEF Release, WaitGroupZero, TypeOK, LocksInOrder, DeltasInFlush, StopTaken, Batch
<1>3. DeltasInFlush'
  BY DEF Release, WaitGroupZero, TypeOK, DeltasInFlush
<1>4. StopTaken'
  BY DEF Release, WaitGroupZero, TypeOK, StopTaken, DeltasInFlush
<1>5. WaitsForRun'
  BY DEF Release, WaitGroupZero, TypeOK, WaitsForRun, Live
<1>6. FinalAfterLoops'
  BY DEF Release, WaitGroupZero, TypeOK, FinalAfterLoops, DeltasInFlush, StopTaken, WaitsForRun, Live
<1>7. NoLeakedRun'
  BY DEF Release, WaitGroupZero, TypeOK, NoLeakedRun, DeltasInFlush, StopTaken
<1>8. OnlyBegun'
  BY DEF Release, WaitGroupZero, TypeOK, OnlyBegun
<1> QED
  BY <1>1, <1>2, <1>3, <1>4, <1>5, <1>6, <1>7, <1>8

LEMMA ShutdownKeeps ==
  ASSUME NEW u \in Callers, IInv, Shutdown(u)
  PROVE  IInv'
<1> USE ClientLifecycleAssumption DEF IInv, Runs, Flushes, lifecycle
<1>1. TypeOK'
  <2>1. started' \in BOOLEAN /\ panicked' \in BOOLEAN
    BY DEF Shutdown, TypeOK
  <2>2. caller' \in [Callers -> [pc : {"idle", "stop", "wait", "flush"}, run : 0..runs]]
    BY DEF Shutdown, TypeOK
  <2> QED
    BY <2>1, <2>2 DEF Shutdown, TypeOK
<1>2. LocksInOrder'
  BY DEF Shutdown, IsStarted, TypeOK, LocksInOrder, DeltasInFlush, StopTaken, Batch
<1>3. DeltasInFlush'
  BY DEF Shutdown, IsStarted, TypeOK, DeltasInFlush
<1>4. StopTaken'
  BY DEF Shutdown, IsStarted, TypeOK, StopTaken, DeltasInFlush
<1>5. WaitsForRun'
  BY DEF Shutdown, IsStarted, TypeOK, WaitsForRun, Live
<1>6. FinalAfterLoops'
  BY DEF Shutdown, IsStarted, TypeOK, FinalAfterLoops, DeltasInFlush, StopTaken, WaitsForRun, Live
<1>7. NoLeakedRun'
  BY DEF Shutdown, IsStarted, TypeOK, NoLeakedRun, DeltasInFlush, StopTaken
<1>8. OnlyBegun'
  BY DEF Shutdown, IsStarted, TypeOK, OnlyBegun
<1> QED
  BY <1>1, <1>2, <1>3, <1>4, <1>5, <1>6, <1>7, <1>8

LEMMA ShutdownStopKeeps ==
  ASSUME NEW u \in Callers, IInv, ShutdownStop(u)
  PROVE  IInv'
<1> USE ClientLifecycleAssumption DEF IInv, Runs, Flushes, lifecycle
<1>1. TypeOK'
  BY DEF ShutdownStop, TypeOK, StopTaken
<1>2. LocksInOrder'
  BY DEF ShutdownStop, TypeOK, LocksInOrder, DeltasInFlush, StopTaken, Batch
<1>3. DeltasInFlush'
  BY DEF ShutdownStop, TypeOK, DeltasInFlush
<1>4. StopTaken'
  BY DEF ShutdownStop, TypeOK, StopTaken, DeltasInFlush
<1>5. WaitsForRun'
  BY DEF ShutdownStop, TypeOK, WaitsForRun, Live
<1>6. FinalAfterLoops'
  BY DEF ShutdownStop, TypeOK, FinalAfterLoops, DeltasInFlush, StopTaken, WaitsForRun, Live
<1>7. NoLeakedRun'
  BY DEF ShutdownStop, TypeOK, NoLeakedRun, DeltasInFlush, StopTaken
<1>8. OnlyBegun'
  BY DEF ShutdownStop, TypeOK, OnlyBegun
<1> QED
  BY <1>1, <1>2, <1>3, <1>4, <1>5, <1>6, <1>7, <1>8

LEMMA ShutdownDoneKeeps ==
  ASSUME NEW u \in Callers, IInv, ShutdownDone(u)
  PROVE  IInv'
<1> USE ClientLifecycleAssumption DEF IInv, Runs, Flushes, lifecycle
<1>a. CASE buf = {}
  <2>1. caller' = [caller EXCEPT ![u] = NoCall] /\ UNCHANGED <<lifecycle, loop, buf, order, locked>>
    BY <1>a DEF ShutdownDone
  <2> HIDE DEF ShutdownDone
  <2>2. TypeOK'
    BY <2>1 DEF TypeOK, NoCall
  <2>3. LocksInOrder'
    BY <2>1 DEF LocksInOrder, Batch
  <2>4. DeltasInFlush' /\ OnlyBegun' /\ StopTaken'
    BY <2>1 DEF TypeOK, DeltasInFlush, OnlyBegun, StopTaken, NoCall, ShutdownDone
  <2>5. WaitsForRun' /\ FinalAfterLoops'
    BY <2>1 DEF TypeOK, WaitsForRun, FinalAfterLoops, Live, NoCall
  <2>6. NoLeakedRun'
    BY <2>1 DEF TypeOK, NoLeakedRun, NoCall, ShutdownDone
  <2> QED
    BY <2>2, <2>3, <2>4, <2>5, <2>6
<1>b. CASE buf # {}
  <2>1. /\ caller' = [caller EXCEPT ![u].pc = "flush"]
        /\ Take(u)
        /\ UNCHANGED <<lifecycle, loop, locked>>
    BY <1>b DEF ShutdownDone
  <2>2. TypeOK'
    BY <2>1 DEF TypeOK, Take
  <2>3. LocksInOrder'
    <3>1. order[u] = {}
      BY DEF ShutdownDone, DeltasInFlush
    <3> QED
      BY <2>1, <3>1, TakeKeepsLocks
  <2>4. DeltasInFlush' /\ OnlyBegun' /\ StopTaken'
    BY <2>1 DEF TypeOK, DeltasInFlush, OnlyBegun, StopTaken, Take, ShutdownDone
  <2>5. WaitsForRun'
    BY <2>1 DEF TypeOK, WaitsForRun, Live
  <2>6. FinalAfterLoops'
    BY <2>1 DEF TypeOK, FinalAfterLoops, WaitsForRun, StopTaken, ShutdownDone, Live
  <2>7. NoLeakedRun'
    BY <2>1 DEF TypeOK, NoLeakedRun, ShutdownDone
  <2> QED
    BY <2>2, <2>3, <2>4, <2>5, <2>6, <2>7
<1> QED
  BY <1>a, <1>b

LEMMA ShutdownTimeoutKeeps ==
  ASSUME NEW u \in Callers, IInv, ShutdownTimeout(u)
  PROVE  IInv'
<1> USE ClientLifecycleAssumption DEF IInv, Runs, Flushes, lifecycle
<1>1. TypeOK'
  BY DEF ShutdownTimeout, NoCall, TypeOK
<1>2. LocksInOrder'
  BY DEF ShutdownTimeout, NoCall, TypeOK, LocksInOrder, DeltasInFlush, StopTaken, Batch
<1>3. DeltasInFlush'
  BY DEF ShutdownTimeout, NoCall, TypeOK, DeltasInFlush
<1>4. StopTaken'
  BY DEF ShutdownTimeout, NoCall, TypeOK, StopTaken, DeltasInFlush
<1>5. WaitsForRun'
  BY DEF ShutdownTimeout, NoCall, TypeOK, WaitsForRun, Live
<1>6. FinalAfterLoops'
  BY DEF ShutdownTimeout, NoCall, TypeOK, FinalAfterLoops, DeltasInFlush, StopTaken, WaitsForRun, Live
<1>7. NoLeakedRun'
  BY DEF ShutdownTimeout, NoCall, TypeOK, NoLeakedRun, DeltasInFlush, StopTaken
<1>8. OnlyBegun'
  BY DEF ShutdownTimeout, NoCall, TypeOK, OnlyBegun
<1> QED
  BY <1>1, <1>2, <1>3, <1>4, <1>5, <1>6, <1>7, <1>8

LEMMA CancelBaseKeeps ==
  ASSUME NEW r \in Runs, IInv, CancelBase(r)
  PROVE  IInv'
<1> USE ClientLifecycleAssumption DEF IInv, Runs, Flushes, lifecycle
<1>1. TypeOK'
  BY DEF CancelBase, TypeOK
<1>2. LocksInOrder'
  BY DEF CancelBase, TypeOK, LocksInOrder, DeltasInFlush, StopTaken, Batch
<1>3. DeltasInFlush'
  BY DEF CancelBase, TypeOK, DeltasInFlush
<1>4. StopTaken'
  BY DEF CancelBase, TypeOK, StopTaken, DeltasInFlush
<1>5. WaitsForRun'
  BY DEF CancelBase, TypeOK, WaitsForRun, Live
<1>6. FinalAfterLoops'
  BY DEF CancelBase, TypeOK, FinalAfterLoops, DeltasInFlush, StopTaken, WaitsForRun, Live
<1>7. NoLeakedRun'
  BY DEF CancelBase, TypeOK, NoLeakedRun, DeltasInFlush, StopTaken
<1>8. OnlyBegun'
  BY DEF CancelBase, TypeOK, OnlyBegun
<1> QED
  BY <1>1, <1>2, <1>3, <1>4, <1>5, <1>6, <1>7, <1>8

LEMMA WaitKeeps ==
  ASSUME NEW r \in Runs, IInv, Wait(r)
  PROVE  IInv'
<1> USE ClientLifecycleAssumption DEF IInv, Runs, Flushes, lifecycle
<1>1. TypeOK'
  BY DEF Wait, WaitGroupZero, TypeOK
<1>2. LocksInOrder'
  BY DEF Wait, WaitGroupZero, TypeOK, LocksInOrder, DeltasInFlush, StopTaken, Batch
<1>3. DeltasInFlush'
  BY DEF Wait, WaitGroupZero, TypeOK, DeltasInFlush
<1>4. StopTaken'
  BY DEF Wait, WaitGroupZero, TypeOK, StopTaken, DeltasInFlush
<1>5. WaitsForRun'
  BY DEF Wait, WaitGroupZero, TypeOK, WaitsForRun, Live
<1>6. FinalAfterLoops'
  BY DEF Wait, WaitGroupZero, TypeOK, FinalAfterLoops, DeltasInFlush, StopTaken, WaitsForRun, Live
<1>7. NoLeakedRun'
  BY DEF Wait, WaitGroupZero, TypeOK, NoLeakedRun, DeltasInFlush, StopTaken
<1>8. OnlyBegun'
  BY DEF Wait, WaitGroupZero, TypeOK, OnlyBegun
<1> QED
  BY <1>1, <1>2, <1>3, <1>4, <1>5, <1>6, <1>7, <1>8

LEMMA WaitReturnsKeeps ==
  ASSUME NEW r \in Runs, IInv, WaitReturns(r)
  PROVE  IInv'
<1> USE ClientLifecycleAssumption DEF IInv, Runs, Flushes, lifecycle
<1>1. TypeOK'
  BY DEF WaitReturns, WaitGroupZero, TypeOK
<1>2. LocksInOrder'
  BY DEF WaitReturns, WaitGroupZero, TypeOK, LocksInOrder, DeltasInFlush, StopTaken, Batch
<1>3. DeltasInFlush'
  BY DEF WaitReturns, WaitGroupZero, TypeOK, DeltasInFlush
<1>4. StopTaken'
  BY DEF WaitReturns, WaitGroupZero, TypeOK, StopTaken, DeltasInFlush
<1>5. WaitsForRun'
  BY DEF WaitReturns, WaitGroupZero, TypeOK, WaitsForRun, Live
<1>6. FinalAfterLoops'
  BY DEF WaitReturns, WaitGroupZero, TypeOK, FinalAfterLoops, DeltasInFlush, StopTaken, WaitsForRun, Live
<1>7. NoLeakedRun'
  BY DEF WaitReturns, WaitGroupZero, TypeOK, NoLeakedRun, DeltasInFlush, StopTaken
<1>8. OnlyBegun'
  BY DEF WaitReturns, WaitGroupZero, TypeOK, OnlyBegun
<1> QED
  BY <1>1, <1>2, <1>3, <1>4, <1>5, <1>6, <1>7, <1>8

LEMMA LoopTickKeeps ==
  ASSUME NEW r \in Runs, NEW l \in Loops, IInv, LoopTick(r, l)
  PROVE  IInv'
<1> USE ClientLifecycleAssumption DEF IInv, Runs, Flushes, lifecycle
<1>1. TypeOK'
  BY DEF LoopTick, TypeOK
<1>2. LocksInOrder'
  BY DEF LoopTick, TypeOK, LocksInOrder, DeltasInFlush, StopTaken, Batch
<1>3. DeltasInFlush'
  BY DEF LoopTick, TypeOK, DeltasInFlush
<1>4. StopTaken'
  BY DEF LoopTick, TypeOK, StopTaken, DeltasInFlush
<1>5. WaitsForRun'
  BY DEF LoopTick, TypeOK, WaitsForRun, Live
<1>6. FinalAfterLoops'
  BY DEF LoopTick, TypeOK, FinalAfterLoops, DeltasInFlush, StopTaken, WaitsForRun, Live
<1>7. NoLeakedRun'
  BY DEF LoopTick, TypeOK, NoLeakedRun, DeltasInFlush, StopTaken
<1>8. OnlyBegun'
  BY DEF LoopTick, TypeOK, OnlyBegun
<1> QED
  BY <1>1, <1>2, <1>3, <1>4, <1>5, <1>6, <1>7, <1>8

LEMMA LoopReturnKeeps ==
  ASSUME NEW r \in Runs, NEW l \in Loops, IInv, LoopReturn(r, l)
  PROVE  IInv'
<1> USE ClientLifecycleAssumption DEF IInv, Runs, Flushes, lifecycle
<1>1. TypeOK'
  BY DEF LoopReturn, TypeOK
<1>2. LocksInOrder'
  BY DEF LoopReturn, TypeOK, LocksInOrder, DeltasInFlush, StopTaken, Batch
<1>3. DeltasInFlush'
  BY DEF LoopReturn, TypeOK, DeltasInFlush
<1>4. StopTaken'
  BY DEF LoopReturn, TypeOK, StopTaken, DeltasInFlush
<1>5. WaitsForRun'
  BY DEF LoopReturn, TypeOK, WaitsForRun, Live
<1>6. FinalAfterLoops'
  BY DEF LoopReturn, TypeOK, FinalAfterLoops, DeltasInFlush, StopTaken, WaitsForRun, Live
<1>7. NoLeakedRun'
  BY DEF LoopReturn, TypeOK, NoLeakedRun, DeltasInFlush, StopTaken
<1>8. OnlyBegun'
  BY DEF LoopReturn, TypeOK, OnlyBegun
<1> QED
  BY <1>1, <1>2, <1>3, <1>4, <1>5, <1>6, <1>7, <1>8

LEMMA LoopExitKeeps ==
  ASSUME NEW r \in Runs, NEW l \in Loops, IInv, LoopExit(r, l)
  PROVE  IInv'
<1> USE ClientLifecycleAssumption DEF IInv, Runs, Flushes, lifecycle
<1>1. TypeOK'
  BY DEF LoopExit, TypeOK
<1>2. LocksInOrder'
  BY DEF LoopExit, TypeOK, LocksInOrder, DeltasInFlush, StopTaken, Batch
<1>3. DeltasInFlush'
  BY DEF LoopExit, TypeOK, DeltasInFlush
<1>4. StopTaken'
  BY DEF LoopExit, TypeOK, StopTaken, DeltasInFlush
<1>5. WaitsForRun'
  BY DEF LoopExit, TypeOK, WaitsForRun, Live
<1>6. FinalAfterLoops'
  BY DEF LoopExit, TypeOK, FinalAfterLoops, DeltasInFlush, StopTaken, WaitsForRun, Live
<1>7. NoLeakedRun'
  BY DEF LoopExit, TypeOK, NoLeakedRun, DeltasInFlush, StopTaken
<1>8. OnlyBegun'
  BY DEF LoopExit, TypeOK, OnlyBegun
<1> QED
  BY <1>1, <1>2, <1>3, <1>4, <1>5, <1>6, <1>7, <1>8

LEMMA LoopFlushKeeps ==
  ASSUME NEW r \in Runs, IInv, LoopFlush(r)
  PROVE  IInv'
<1> USE ClientLifecycleAssumption DEF IInv, Runs, Flushes, lifecycle
<1>1. TypeOK'
  BY DEF LoopFlush, Take, TypeOK
<1>2. LocksInOrder'
  <2>1. order[r] = {} /\ Take(r) /\ locked' = locked
    BY DEF LoopFlush, DeltasInFlush
  <2> QED
    BY <2>1, TakeKeepsLocks
<1>3. DeltasInFlush'
  BY DEF LoopFlush, Take, TypeOK, DeltasInFlush
<1>4. StopTaken'
  BY DEF LoopFlush, Take, TypeOK, StopTaken, DeltasInFlush
<1>5. WaitsForRun'
  BY DEF LoopFlush, Take, TypeOK, WaitsForRun, Live
<1>6. FinalAfterLoops'
  <2>1. \A q \in Runs : Live(q)' = Live(q)
    BY DEF LoopFlush, Live, TypeOK
  <2>2. caller' = caller
    BY DEF LoopFlush
  <2>3. \A u \in Callers : caller[u].run # 0 => caller[u].run \in Runs
    BY DEF TypeOK
  <2> QED
    BY <2>1, <2>2, <2>3 DEF FinalAfterLoops
<1>7. NoLeakedRun'
  BY DEF LoopFlush, Take, TypeOK, NoLeakedRun, DeltasInFlush, StopTaken
<1>8. OnlyBegun'
  BY DEF LoopFlush, Take, TypeOK, OnlyBegun
<1> QED
  BY <1>1, <1>2, <1>3, <1>4, <1>5, <1>6, <1>7, <1>8

LEMMA RecordKeeps ==
  ASSUME NEW c \in Coords, IInv, Record(c)
  PROVE  IInv'
<1> USE ClientLifecycleAssumption DEF IInv, Runs, Flushes, lifecycle
<1>1. TypeOK'
  BY DEF Record, TypeOK
<1>2. LocksInOrder'
  BY DEF Record, TypeOK, LocksInOrder, DeltasInFlush, StopTaken, Batch
<1>3. DeltasInFlush'
  BY DEF Record, TypeOK, DeltasInFlush
<1>4. StopTaken'
  BY DEF Record, TypeOK, StopTaken, DeltasInFlush
<1>5. WaitsForRun'
  BY DEF Record, TypeOK, WaitsForRun, Live
<1>6. FinalAfterLoops'
  BY DEF Record, TypeOK, FinalAfterLoops, DeltasInFlush, StopTaken, WaitsForRun, Live
<1>7. NoLeakedRun'
  BY DEF Record, TypeOK, NoLeakedRun, DeltasInFlush, StopTaken
<1>8. OnlyBegun'
  BY DEF Record, TypeOK, OnlyBegun
<1> QED
  BY <1>1, <1>2, <1>3, <1>4, <1>5, <1>6, <1>7, <1>8

LEMMA CallerFlushKeeps ==
  ASSUME NEW u \in Callers, IInv, CallerFlush(u)
  PROVE  IInv'
<1> USE ClientLifecycleAssumption DEF IInv, Runs, Flushes, lifecycle
<1>1. TypeOK'
  BY DEF CallerFlush, Take, TypeOK
<1>2. LocksInOrder'
  <2>1. order[u] = {} /\ Take(u) /\ locked' = locked
    BY DEF CallerFlush, DeltasInFlush
  <2> QED
    BY <2>1, TakeKeepsLocks
<1>3. DeltasInFlush'
  BY DEF CallerFlush, Take, TypeOK, DeltasInFlush
<1>4. StopTaken'
  BY DEF CallerFlush, Take, TypeOK, StopTaken, DeltasInFlush
<1>5. WaitsForRun'
  BY DEF CallerFlush, Take, TypeOK, WaitsForRun, Live
<1>6. FinalAfterLoops'
  BY DEF CallerFlush, Take, TypeOK, FinalAfterLoops, DeltasInFlush, StopTaken, WaitsForRun, Live
<1>7. NoLeakedRun'
  BY DEF CallerFlush, Take, TypeOK, NoLeakedRun, DeltasInFlush, StopTaken
<1>8. OnlyBegun'
  BY DEF CallerFlush, Take, TypeOK, OnlyBegun
<1> QED
  BY <1>1, <1>2, <1>3, <1>4, <1>5, <1>6, <1>7, <1>8

LEMMA FlushLockKeeps ==
  ASSUME NEW f \in Flushes, IInv, FlushLock(f)
  PROVE  IInv'
<1> USE ClientLifecycleAssumption DEF IInv, Runs, Flushes, lifecycle
<1>1. TypeOK'
  BY SMTT(30) DEF FlushLock, NextRow, LockedByOther, TypeOK
<1>2. LocksInOrder'
  <2>1. PICK c \in Coords : NextRow(f, c) /\ locked' = [locked EXCEPT ![f] = @ \cup {c}]
    BY DEF FlushLock
  <2>2. \A g \in Flushes : Batch(g)' = Batch(g)
    BY DEF FlushLock, Batch
  <2>3. \A d \in Batch(f) : d \in Int
    <3>1. order[f] \subseteq Coords
      BY DEF TypeOK
    <3> QED
      BY <3>1 DEF Batch, Coords
  <2>4. ASSUME NEW g \in Flushes \ {f}
        PROVE  locked'[g] = locked[g]
    BY <2>1 DEF TypeOK
  <2>5. locked'[f] = locked[f] \cup {c}
    BY <2>1 DEF TypeOK
  <2>6. c \in Batch(f) \ locked[f] /\ \A d \in Batch(f) \ locked[f] : c <= d
    BY <2>1 DEF NextRow
  <2>7. /\ locked[f] \cup {c} \subseteq Batch(f)
        /\ \A x \in locked[f] \cup {c} :
             \A d \in Batch(f) \ (locked[f] \cup {c}) : x < d
    BY <2>3, <2>6 DEF LocksInOrder
  <2> QED
    BY <2>2, <2>4, <2>5, <2>7 DEF LocksInOrder
<1>3. DeltasInFlush'
  BY DEF FlushLock, NextRow, LockedByOther, TypeOK, DeltasInFlush
<1>4. StopTaken'
  BY DEF FlushLock, NextRow, LockedByOther, TypeOK, StopTaken, DeltasInFlush
<1>5. WaitsForRun'
  BY DEF FlushLock, NextRow, LockedByOther, TypeOK, WaitsForRun, Live
<1>6. FinalAfterLoops'
  BY DEF FlushLock, NextRow, LockedByOther, TypeOK, FinalAfterLoops, DeltasInFlush, StopTaken, WaitsForRun, Live
<1>7. NoLeakedRun'
  BY DEF FlushLock, NextRow, LockedByOther, TypeOK, NoLeakedRun, DeltasInFlush, StopTaken
<1>8. OnlyBegun'
  BY DEF FlushLock, NextRow, LockedByOther, TypeOK, OnlyBegun
<1> QED
  BY <1>1, <1>2, <1>3, <1>4, <1>5, <1>6, <1>7, <1>8

LEMMA FlushCommitKeeps ==
  ASSUME NEW f \in Flushes, IInv, FlushCommit(f)
  PROVE  IInv'
<1> USE ClientLifecycleAssumption DEF IInv, Runs, Flushes, lifecycle
<1>1. TypeOK'
  BY DEF FlushCommit, Returned, NoCall, TypeOK
<1>2. LocksInOrder'
  <2>1. \A g \in Flushes \ {f} : Batch(g)' = Batch(g) /\ locked'[g] = locked[g]
    BY DEF FlushCommit, Batch, TypeOK
  <2>2. locked'[f] = {}
    BY DEF FlushCommit, TypeOK
  <2> QED
    BY <2>1, <2>2 DEF LocksInOrder
<1>3. DeltasInFlush'
  BY DEF FlushCommit, Returned, NoCall, TypeOK, DeltasInFlush
<1>4. StopTaken'
  BY DEF FlushCommit, Returned, NoCall, TypeOK, StopTaken, DeltasInFlush
<1>5. WaitsForRun'
  BY DEF FlushCommit, Returned, NoCall, TypeOK, WaitsForRun, DeltasInFlush, Live
<1>6. FinalAfterLoops'
  <2>1. \A q \in Runs : Live(q)' = Live(q)
    BY DEF FlushCommit, Returned, Live, TypeOK, DeltasInFlush
  <2>2. \A u \in Callers : caller'[u] \in {caller[u], NoCall}
    BY DEF FlushCommit, Returned, TypeOK
  <2>3. \A u \in Callers : caller[u].run # 0 => caller[u].run \in Runs
    BY DEF TypeOK
  <2> QED
    BY <2>1, <2>2, <2>3 DEF FinalAfterLoops, NoCall
<1>7. NoLeakedRun'
  BY SMTT(30) DEF FlushCommit, Returned, NoCall, TypeOK, NoLeakedRun, DeltasInFlush, StopTaken
<1>8. OnlyBegun'
  BY DEF FlushCommit, Returned, NoCall, TypeOK, OnlyBegun, DeltasInFlush
<1> QED
  BY <1>1, <1>2, <1>3, <1>4, <1>5, <1>6, <1>7, <1>8

LEMMA FlushFailKeeps ==
  ASSUME NEW f \in Flushes, IInv, FlushFail(f)
  PROVE  IInv'
<1> USE ClientLifecycleAssumption DEF IInv, Runs, Flushes, lifecycle
<1>1. TypeOK'
  BY DEF FlushFail, Returned, NoCall, TypeOK
<1>2. LocksInOrder'
  BY DEF FlushFail, Returned, NoCall, TypeOK, LocksInOrder, DeltasInFlush, StopTaken, Batch
<1>3. DeltasInFlush'
  BY DEF FlushFail, Returned, NoCall, TypeOK, DeltasInFlush
<1>4. StopTaken'
  BY DEF FlushFail, Returned, NoCall, TypeOK, StopTaken, DeltasInFlush
<1>5. WaitsForRun'
  BY DEF FlushFail, Returned, NoCall, TypeOK, WaitsForRun, DeltasInFlush, Live
<1>6. FinalAfterLoops'
  BY DEF FlushFail, Returned, NoCall, TypeOK, FinalAfterLoops, DeltasInFlush, StopTaken, WaitsForRun, Live
<1>7. NoLeakedRun'
  BY DEF FlushFail, Returned, NoCall, TypeOK, NoLeakedRun, DeltasInFlush, StopTaken
<1>8. OnlyBegun'
  BY DEF FlushFail, Returned, NoCall, TypeOK, OnlyBegun, DeltasInFlush
<1> QED
  BY <1>1, <1>2, <1>3, <1>4, <1>5, <1>6, <1>7, <1>8

(* Every step preserves the inductive invariant. *)
LEMMA StepIInv == IInv /\ [Next]_vars => IInv'
<1> SUFFICES ASSUME IInv, [Next]_vars PROVE IInv'
  OBVIOUS
<1>1. CASE Lifecycle
  <2>1. CASE Start
    BY <2>1, StartKeeps
  <2>2. CASE Release
    BY <2>2, ReleaseKeeps
  <2>3. ASSUME NEW u \in Callers,
               Shutdown(u) \/ ShutdownStop(u) \/ ShutdownDone(u) \/ ShutdownTimeout(u)
        PROVE  IInv'
    BY <2>3, ShutdownKeeps, ShutdownStopKeeps, ShutdownDoneKeeps, ShutdownTimeoutKeeps
  <2>4. ASSUME NEW r \in Runs, CancelBase(r) \/ Wait(r) \/ WaitReturns(r)
        PROVE  IInv'
    BY <2>4, CancelBaseKeeps, WaitKeeps, WaitReturnsKeeps
  <2> QED
    BY <1>1, <2>1, <2>2, <2>3, <2>4 DEF Lifecycle
<1>2. CASE Maintain
  <2>1. ASSUME NEW r \in Runs, NEW l \in Loops,
               LoopTick(r, l) \/ LoopReturn(r, l) \/ LoopExit(r, l)
        PROVE  IInv'
    BY <2>1, LoopTickKeeps, LoopReturnKeeps, LoopExitKeeps
  <2>2. ASSUME NEW r \in Runs, LoopFlush(r)
        PROVE  IInv'
    BY <2>2, LoopFlushKeeps
  <2> QED
    BY <1>2, <2>1, <2>2 DEF Maintain
<1>3. CASE Flush
  <2>1. ASSUME NEW c \in Coords, Record(c)
        PROVE  IInv'
    BY <2>1, RecordKeeps
  <2>2. ASSUME NEW u \in Callers, CallerFlush(u)
        PROVE  IInv'
    BY <2>2, CallerFlushKeeps
  <2>3. ASSUME NEW f \in Flushes, FlushLock(f) \/ FlushCommit(f) \/ FlushFail(f)
        PROVE  IInv'
    BY <2>3, FlushLockKeeps, FlushCommitKeeps, FlushFailKeeps
  <2> QED
    BY <1>3, <2>1, <2>2, <2>3 DEF Flush
<1>4. CASE UNCHANGED vars
  <2>1. TypeOK' /\ LocksInOrder' /\ DeltasInFlush' /\ OnlyBegun'
    BY <1>4 DEF IInv, vars, TypeOK, LocksInOrder, Batch, DeltasInFlush, OnlyBegun
  <2>2. StopTaken' /\ WaitsForRun' /\ FinalAfterLoops' /\ NoLeakedRun'
    BY <1>4 DEF IInv, vars, StopTaken, WaitsForRun, FinalAfterLoops, NoLeakedRun, Live
  <2> QED
    BY <2>1, <2>2 DEF IInv
<1> QED
  BY <1>1, <1>2, <1>3, <1>4 DEF Next

LEMMA Inductive == Spec => []IInv
<1> QED
  BY InitIInv, StepIInv, PTL DEF Spec

(* In a circle of waiting flushes, take one whose next row is highest: it  *)
(* waits for a row that a flush of the circle holds and that therefore     *)
(* comes before the row that one waits for.                                *)
LEMMA NoCircle == IInv => NoFlushDeadlock
<1> SUFFICES ASSUME IInv, NEW S \in SUBSET Flushes, S # {},
                    \A f \in S : \E g \in S : WaitsFor(f, g)
             PROVE  FALSE
  BY DEF NoFlushDeadlock
<1> USE ClientLifecycleAssumption
<1>1. \A f \in Flushes : \A c \in Batch(f) : c \in Coords
  BY DEF IInv, TypeOK, Batch
<1> DEFINE Next0(f) == {c \in Coords : NextRow(f, c)}
           Heights == {h \in Nat : \E f \in S : \E c \in Next0(f) : h = MaxCoord - c}
<1>2. ASSUME NEW f \in S
      PROVE  \E g \in S : \E c \in Next0(f) : c \in locked[g]
  <2>1. PICK g \in S : WaitsFor(f, g)
    OBVIOUS
  <2>2. PICK c \in locked[g] : NextRow(f, c)
    BY <2>1 DEF WaitsFor
  <2>3. c \in Coords
    BY <2>2, <1>1 DEF NextRow
  <2> QED
    BY <2>2, <2>3
<1>3. ASSUME NEW f \in S, NEW c \in Next0(f)
      PROVE  \E g \in S : \E d \in Next0(g) : c < d
  <2>1. PICK g \in S : \E x \in Next0(f) : x \in locked[g]
    BY <1>2
  <2>2. PICK x \in Next0(f) : x \in locked[g]
    BY <2>1
  <2>3. x = c
    BY DEF NextRow, Coords
  <2>4. PICK d \in Next0(g) : TRUE
    BY <1>2
  <2>5. c < d
    BY <2>2, <2>3, <2>4 DEF IInv, LocksInOrder, NextRow
  <2> QED
    BY <2>4, <2>5
<1>4. Heights \subseteq Nat /\ Heights # {}
  <2>1. PICK f \in S : TRUE
    OBVIOUS
  <2>2. PICK c \in Next0(f) : TRUE
    BY <1>2
  <2>3. MaxCoord - c \in Nat
    BY DEF Coords
  <2> QED
    BY <2>2, <2>3
<1>5. PICK h \in Heights : \A k \in Heights : ~(k < h)
  <2> HIDE DEF Heights
  <2>1. \E h \in Heights : \A k \in Heights : <<k, h>> \notin OpToRel(<, Nat)
    BY <1>4, NatLessThanWellFounded, WFMin
  <2> QED
    BY <1>4, <2>1 DEF OpToRel
<1>6. PICK f \in S : \E c \in Next0(f) : h = MaxCoord - c
  OBVIOUS
<1>c. PICK c \in Next0(f) : h = MaxCoord - c
  BY <1>6
<1>7. PICK g \in S : \E d \in Next0(g) : c < d
  BY <1>3
<1>d. PICK d \in Next0(g) : c < d
  BY <1>7
<1>8. MaxCoord - d \in Nat /\ MaxCoord - d < h /\ h \in Nat
  BY <1>c, <1>d DEF Coords
<1>9. MaxCoord - d \in Heights
  BY <1>8
<1> QED
  BY <1>5, <1>8, <1>9

----------------------------------------------------------------------------
(* Whatever Starts, Shutdowns, flushes and timeouts overlap, every         *)
(* goroutine of the client is in one of its states.                        *)
THEOREM LifecycleTyped == Spec => []TypeOK
<1>1. IInv => TypeOK
  BY DEF IInv
<1> QED
  BY Inductive, <1>1, PTL

(* Of any number of overlapping Starts and Shutdowns, the cancel function  *)
(* of a run that has not been stopped is never lost (client.go, Start and  *)
(* Shutdown under c.mu).                                                   *)
THEOREM NoRunLeaks == Spec => []NoLeakedRun
<1>1. IInv => NoLeakedRun
  BY DEF IInv
<1> QED
  BY Inductive, <1>1, PTL

(* Shutdown flushes the counters after every loop of the run it stopped    *)
(* has returned, even when another run was started meanwhile.              *)
THEOREM FinalFlushIsLast == Spec => []FinalFlushAlone
<1>1. ASSUME IInv PROVE FinalFlushAlone
  <2> SUFFICES ASSUME NEW u \in Callers, caller[u].pc = "flush", caller[u].run # 0
               PROVE  Live(caller[u].run) = {} /\ order[caller[u].run] = {}
    BY DEF FinalFlushAlone
  <2>1. Live(caller[u].run) = {}
    BY <1>1 DEF IInv, FinalAfterLoops
  <2>2. caller[u].run \in Runs
    BY <1>1, ClientLifecycleAssumption DEF IInv, TypeOK, Runs
  <2>3. loop[<<caller[u].run, "stats">>] # "flush"
    BY <2>1, ClientLifecycleAssumption DEF Live
  <2> QED
    BY <1>1, <2>1, <2>2, <2>3 DEF IInv, DeltasInFlush
<1> QED
  BY Inductive, <1>1, PTL

(* No set of flushes, of however many loops, callers and rows, waits for   *)
(* its own row locks (mysql/stats.go and postgres/stats.go, the sort of    *)
(* FlushStats).                                                            *)
THEOREM FlushesNeverDeadlock == Spec => []NoFlushDeadlock
<1> QED
  BY Inductive, NoCircle, PTL

----------------------------------------------------------------------------
(* The two checks of a publish. *)

(* What the client's check leaves behind for the driver: a TTL, and a      *)
(* delay shorter than it in whole seconds.                                 *)
Cleared(o) ==
  /\ o.TTL > 0
  /\ o.Delay >= 0 /\ o.Delay <= MaxDelay
  /\ DelaySec(o.Delay) = 0 \/ DelaySec(o.Delay) < DurationSec(o.TTL)

PathInv ==
  /\ opts \in PublishOpts
  /\ viaClient \in BOOLEAN
  /\ viaClient /\ pc = "driver" => Cleared(opts)
  /\ ClientCheckSuffices
  /\ StoredHasWindow

(* DurationSec is at least a second and DelaySec is never negative, so an  *)
(* undelayed message always has a second to live.                          *)
LEMMA SecondsBounded ==
  ASSUME NEW d \in Int
  PROVE  /\ DurationSec(d) \in Int /\ DurationSec(d) >= 1
         /\ DelaySec(d) \in Nat
BY DEF DurationSec, DelaySec, Second

(* The options the client passes on are well typed and carry a TTL. *)
LEMMA FilledType ==
  ASSUME NEW o \in PublishOpts
  PROVE  Filled(o) \in PublishOpts /\ Filled(o).TTL > 0
BY PublishPathAssumption DEF Filled, PublishOpts

(* With a TTL the verdict of the check does not depend on the clock.       *)
LEMMA VerdictIgnoresClock ==
  ASSUME NEW o \in PublishOpts, o.TTL > 0, NEW now \in Nat
  PROVE  (ValidatePublishDelay(o, now) = "ok") <=> Cleared(o)
<1>1. /\ o.TTL \in Int /\ o.Delay \in Int
  BY DEF PublishOpts
<1>2. /\ DurationSec(o.TTL) \in Int /\ DelaySec(o.Delay) \in Nat /\ MaxDelay \in Nat
  BY <1>1, SecondsBounded, PublishDelayAssumption
<1>3. ValidatedExpiry(o, now) = now + DurationSec(o.TTL)
  BY DEF ValidatedExpiry
<1> HIDE DEF DurationSec, DelaySec
<1>4. CASE o.Delay < 0
  BY <1>1, <1>2, <1>4 DEF ValidatePublishDelay, Cleared
<1>5. CASE o.Delay > MaxDelay
  BY <1>1, <1>2, <1>5 DEF ValidatePublishDelay, Cleared
<1>6. CASE o.Delay \in 0..MaxDelay
  BY <1>1, <1>2, <1>3, <1>6 DEF ValidatePublishDelay, Cleared
<1> QED
  BY <1>1, <1>2, <1>4, <1>5, <1>6

(* A delay the check accepts ends before the expiry the driver writes,     *)
(* whether that comes from a TTL, an absolute time or the default.         *)
LEMMA AcceptedDelayFits ==
  ASSUME NEW o \in PublishOpts, NEW now \in Nat,
         ValidatePublishDelay(o, now) = "ok", DelaySec(o.Delay) # 0
  PROVE  AvailableAt(o, now) < ExpiresAt(o, now)
<1>1. /\ o.TTL \in Int /\ o.Delay \in Int /\ o.ExpiresAt \in Nat
      /\ MaxDelay \in Nat /\ DefaultPublishTTL \in Nat
  BY PublishDelayAssumption DEF PublishOpts
<1>2. /\ DurationSec(o.TTL) \in Int /\ DelaySec(o.Delay) \in Nat
      /\ DurationSec(DefaultPublishTTL) \in Int
  BY <1>1, SecondsBounded
<1> HIDE DEF DurationSec, DelaySec
<1>3. o.Delay \in 0..MaxDelay
  BY <1>1 DEF ValidatePublishDelay
<1>4. ~(now + DelaySec(o.Delay) >= ValidatedExpiry(o, now))
  BY <1>1, <1>3 DEF ValidatePublishDelay
<1>5. ValidatedExpiry(o, now) = ExpiresAt(o, now) /\ ExpiresAt(o, now) \in Int
  BY <1>1, <1>2 DEF ValidatedExpiry, ExpiresAt
<1> QED
  BY <1>2, <1>4, <1>5 DEF AvailableAt

(* What the driver stores has a window in which it can be claimed. *)
LEMMA StoredWindow ==
  ASSUME NEW o \in PublishOpts, NEW now \in Nat,
         ValidatePublishDelay(o, now) = "ok"
  PROVE  /\ AvailableAt(o, now) > now \/ o.TTL > 0
              => AvailableAt(o, now) < ExpiresAt(o, now)
         /\ MaxAttemptsOf(o) >= 1
<1>1. /\ o.TTL \in Int /\ o.Delay \in Int /\ o.MaxAttempts \in Int
  BY DEF PublishOpts
<1>2. /\ DurationSec(o.TTL) \in Int /\ DurationSec(o.TTL) >= 1
      /\ DelaySec(o.Delay) \in Nat
  BY <1>1, SecondsBounded
<1> HIDE DEF DurationSec, DelaySec
<1>3. MaxAttemptsOf(o) >= 1
  BY <1>1, PublishDelayAssumption DEF MaxAttemptsOf
<1>4. CASE DelaySec(o.Delay) # 0
  BY <1>3, <1>4, AcceptedDelayFits
<1>5. CASE DelaySec(o.Delay) = 0
  <2>1. AvailableAt(o, now) = now
    BY <1>5 DEF AvailableAt
  <2>2. o.TTL > 0 => ExpiresAt(o, now) = now + DurationSec(o.TTL)
    BY <1>1 DEF ExpiresAt
  <2> QED
    BY <1>2, <1>3, <2>1, <2>2
<1> QED
  BY <1>4, <1>5

(* PathInv holds initially: only unchecked requests wait at the driver. *)
LEMMA PathInvInit == PathInit => PathInv
<1> SUFFICES ASSUME PathInit PROVE PathInv
  OBVIOUS
<1>1. UserOpts \subseteq PublishOpts /\ StoreOpts \subseteq PublishOpts
  BY PublishPathAssumption
<1>2. opts \in PublishOpts /\ viaClient \in BOOLEAN
  BY <1>1 DEF PathInit
<1> QED
  BY <1>2 DEF PathInit, PathInv, ClientCheckSuffices, StoredHasWindow

(* Both checks preserve PathInv: the client's establishes Cleared, and the *)
(* driver's cannot refuse a cleared request.                               *)
LEMMA PathInvStep == PathInv /\ [PathNext]_pathVars => PathInv'
<1> SUFFICES ASSUME PathInv, [PathNext]_pathVars PROVE PathInv'
  OBVIOUS
<1> USE DEF PathInv, ClientCheckSuffices, StoredHasWindow
<1>1. ASSUME NEW t \in Clock, ClientPublish(t) PROVE PathInv'
  <2>1. opts' = Filled(opts) /\ viaClient' = viaClient /\ row' = row
    BY <1>1 DEF ClientPublish
  <2>2. Filled(opts) \in PublishOpts /\ Filled(opts).TTL > 0 /\ t \in Nat
    BY FilledType, PublishPathAssumption
  <2>3. pc' \in {"driver", "refused by client"}
    BY <1>1 DEF ClientPublish
  <2>4. pc' = "driver" => Cleared(Filled(opts))
    BY <1>1, <2>2, VerdictIgnoresClock DEF ClientPublish
  <2> QED
    BY <2>1, <2>2, <2>3, <2>4
<1>2. ASSUME NEW t \in Clock, DriverPublish(t) PROVE PathInv'
  <2>1. opts' = opts /\ viaClient' = viaClient /\ pc = "driver" /\ t \in Nat
    BY <1>2, PublishPathAssumption DEF DriverPublish
  <2>2. viaClient => opts.TTL > 0 /\ ValidatePublishDelay(opts, t) = "ok"
    BY <2>1, VerdictIgnoresClock DEF Cleared
  <2>3. CASE ValidatePublishDelay(opts, t) = "ok"
    <3>1. pc' = "stored" /\ row' = [available_at |-> AvailableAt(opts, t),
                                    expires_at   |-> ExpiresAt(opts, t),
                                    max_attempts |-> MaxAttemptsOf(opts),
                                    at           |-> t]
      BY <1>2, <2>3 DEF DriverPublish
    <3>2. /\ AvailableAt(opts, t) > t \/ opts.TTL > 0
               => AvailableAt(opts, t) < ExpiresAt(opts, t)
          /\ MaxAttemptsOf(opts) >= 1
      BY <2>1, <2>3, StoredWindow
    <3>3. StoredHasWindow'
      BY <2>1, <2>2, <3>1, <3>2
    <3> QED
      BY <2>1, <3>1, <3>3
  <2>4. CASE ValidatePublishDelay(opts, t) # "ok"
    <3>1. pc' = "refused by driver"
      BY <1>2, <2>4 DEF DriverPublish
    <3>2. ~viaClient
      BY <2>2, <2>4
    <3> QED
      BY <2>1, <3>1, <3>2, Zenon
  <2> QED
    BY <2>3, <2>4
<1>3. CASE Done \/ UNCHANGED pathVars
  <2>1. pc' = pc /\ opts' = opts /\ viaClient' = viaClient /\ row' = row
    BY <1>3 DEF Done, pathVars
  <2> QED
    BY <2>1, Zenon DEF Cleared
<1> QED
  BY <1>1, <1>2, <1>3 DEF PathNext

(* A publish Client.Publish let through is never refused by the driver's   *)
(* own check, whatever the host and database clocks show.                  *)
THEOREM ClientCheckAgrees == PathSpec => []ClientCheckSuffices
<1>1. PathInv => ClientCheckSuffices
  BY DEF PathInv
<1> QED
  BY <1>1, PathInvInit, PathInvStep, PTL DEF PathSpec

(* Every delivery a publish stores can be claimed for at least a second,   *)
(* and at least once.                                                      *)
THEOREM StoredClaimable == PathSpec => []StoredHasWindow
<1>1. PathInv => StoredHasWindow
  BY DEF PathInv
<1> QED
  BY <1>1, PathInvInit, PathInvStep, PTL DEF PathSpec
=============================================================================
