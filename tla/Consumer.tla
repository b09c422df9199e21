------------------------------ MODULE Consumer ------------------------------
(***************************************************************************)
(* Consumer of client.go: the poller that claims batches, the channel      *)
(* "work", MaxInFlight handler goroutines, Start, Shutdown and the retried *)
(* ack or requeue, on top of the lease queue that the store promises.      *)
(*                                                                         *)
(* Every Start makes a new run of the consumer, with goroutines and a work *)
(* channel of its own; a Shutdown that times out leaves the old run        *)
(* draining, and a new Start may come on top of it.                        *)
(*                                                                         *)
(* A claimed delivery is an item <<delivery, token>>.  The batch a poller  *)
(* holds and the buffer of its channel are sets of items: no property is   *)
(* about their order.  Leases lapse at any time, so handlers of any speed  *)
(* and buffers of any age are covered.                                     *)
(***************************************************************************)
EXTENDS LeaseQueue, FiniteSets

CONSTANTS MaxInFlight,     \* Options.MaxInFlight: handlers and buffer size
          Stoppers,        \* callers of Shutdown
          FinishTries,     \* attempts of finishWithRetry
          MayCrash,        \* whether the process may die
          MaxRuns          \* bound on Starts

ASSUME ConsumerAssumption ==
  /\ IsFiniteSet(Deliveries)
  /\ {MaxInFlight, FinishTries} \subseteq Nat \ {0}
  /\ MayCrash \in BOOLEAN
  /\ MaxRuns \in Nat

VARIABLES
  started,     \* co.started
  run,         \* number of Starts that opened a run
  cancelled,   \* runs whose context is done
  poller,      \* run -> its pollLoop
  work,        \* run -> items in its work channel
  worker,      \* <<run, i>> -> the handleLoop
  stopper,     \* the Shutdown each caller is in, or what it returned
  dispatched,  \* items a handler was called with
  succeeded    \* items whose handler returned nil

localVars == <<started, run, cancelled, poller, work, worker, stopper,
               dispatched, succeeded>>
vars == <<queue, leases, localVars>>

Runs    == 1..MaxRuns
Workers == Runs \X (1..MaxInFlight)
NoItem  == <<>>

Poller(pc, free, batch) == [pc |-> pc, free |-> free, batch |-> batch]
Worker(pc, item, ok, tries) == [pc |-> pc, item |-> item, ok |-> ok, tries |-> tries]
IdleWorker == Worker("idle", NoItem, FALSE, 0)

Exited(r) ==
  /\ poller[r].pc \in {"none", "closed"}
  /\ \A w \in Workers : w[1] = r => worker[w].pc \in {"none", "exited"}

----------------------------------------------------------------------------
(* The poller. *)

(* ctx.Done at the top of the loop or in one of its sleeps. *)
PollStop(r) ==
  /\ poller[r].pc = "top"
  /\ r \in cancelled
  /\ poller' = [poller EXCEPT ![r] = Poller("closed", 0, {})]
  /\ UNCHANGED <<queueVars, started, run, cancelled, work, worker, stopper,
                 dispatched, succeeded>>

(* Mutants: the buffer's content is not subtracted; one too many is. *)
FreeAlways(r) == MaxInFlight
FreeOneShort(r) == MaxInFlight - Cardinality(work[r]) - 1

(* free := maxInFlight - len(work) *)
Free(r) == MaxInFlight - Cardinality(work[r])

(* No free slot: sleep and look again, a stuttering step. *)
PollFree(r) ==
  /\ poller[r].pc = "top"
  /\ r \notin cancelled
  /\ Free(r) > 0
  /\ poller' = [poller EXCEPT ![r] = Poller("claim", Free(r), {})]
  /\ UNCHANGED <<queueVars, started, run, cancelled, work, worker, stopper,
                 dispatched, succeeded>>

(* Claim of the rows S; the context may be done by now, and the store may  *)
(* commit all the same.  Rows past their attempts are buried, not returned.*)
PollClaim(r) ==
  /\ poller[r].pc = "claim"
  /\ \E S \in SUBSET In("pending") :
       /\ Cardinality(S) <= poller[r].free
       /\ Lease(S)
       /\ LET got == {d \in S : queue'[d].phase = "in_flight"} \X {leases'} IN
          poller' = [poller EXCEPT ![r] =
                       Poller(IF got = {} THEN "top" ELSE "send", 0, got)]
  /\ UNCHANGED <<started, run, cancelled, work, worker, stopper,
                 dispatched, succeeded>>

(* An error or an empty result: sleep, and the top of the loop.  After an  *)
(* error the leases may be in the database although nobody was told.       *)
PollNothing(r) ==
  /\ poller[r].pc = "claim"
  /\ \/ UNCHANGED queueVars
     \/ \E S \in SUBSET In("pending") : Cardinality(S) <= poller[r].free /\ Lease(S)
  /\ poller' = [poller EXCEPT ![r] = Poller("top", 0, {})]
  /\ UNCHANGED <<started, run, cancelled, work, worker, stopper,
                 dispatched, succeeded>>

(* Mutant: a delivery that was sent stays in the batch. *)
KeepBatch(b, i) == b
Rest(b, i) == b \ {i}

(* work <- d, with room in the buffer. *)
PollSend(r) ==
  /\ poller[r].pc = "send"
  /\ Cardinality(work[r]) < MaxInFlight
  /\ \E i \in poller[r].batch :
       /\ work' = [work EXCEPT ![r] = @ \cup {i}]
       /\ LET b == Rest(poller[r].batch, i) IN
          poller' = [poller EXCEPT ![r] =
                       Poller(IF b = {} THEN "top" ELSE "send", 0, b)]
  /\ UNCHANGED <<queueVars, started, run, cancelled, worker, stopper,
                 dispatched, succeeded>>

(* The select takes ctx.Done instead: the rest of the batch is dropped. *)
PollDrop(r) ==
  /\ poller[r].pc = "send"
  /\ r \in cancelled
  /\ poller' = [poller EXCEPT ![r] = Poller("closed", 0, {})]
  /\ UNCHANGED <<queueVars, started, run, cancelled, work, worker, stopper,
                 dispatched, succeeded>>

----------------------------------------------------------------------------
(* The handlers: w = <<run, number>>. *)

(* d := range work, then the handler starts.  The run's context plays no   *)
(* part: claimed work is drained after a cancel.                           *)
Take(w) ==
  /\ worker[w].pc = "idle"
  /\ \E i \in work[w[1]] :
       /\ work' = [work EXCEPT ![w[1]] = @ \ {i}]
       /\ worker' = [worker EXCEPT ![w] = Worker("handle", i, FALSE, 0)]
       /\ dispatched' = dispatched \cup {i}
  /\ UNCHANGED <<queueVars, started, run, cancelled, poller, stopper, succeeded>>

(* Mutant: the worker leaves as soon as the run is cancelled. *)
LeaveOnCancel(w) ==
  /\ worker[w].pc = "idle"
  /\ w[1] \in cancelled
  /\ worker' = [worker EXCEPT ![w].pc = "exited"]
  /\ UNCHANGED <<queueVars, started, run, cancelled, poller, work, stopper,
                 dispatched, succeeded>>

(* Mutant: the poller forgot close(work). *)
NeverLeave(w) == FALSE /\ UNCHANGED vars

(* The channel is closed and empty. *)
Leave(w) ==
  /\ worker[w].pc = "idle"
  /\ poller[w[1]].pc = "closed"
  /\ work[w[1]] = {}
  /\ worker' = [worker EXCEPT ![w].pc = "exited"]
  /\ UNCHANGED <<queueVars, started, run, cancelled, poller, work, stopper,
                 dispatched, succeeded>>

(* The handler returns nil (ok) or an error. *)
HandlerReturns(w) ==
  /\ worker[w].pc = "handle"
  /\ \E ok \in BOOLEAN :
       /\ worker' = [worker EXCEPT ![w] = Worker("finish", worker[w].item, ok, FinishTries)]
       /\ succeeded' = IF ok THEN succeeded \cup {worker[w].item} ELSE succeeded
  /\ UNCHANGED <<queueVars, started, run, cancelled, poller, work, stopper, dispatched>>

(* Mutant: the handler's verdict is ignored. *)
AlwaysAck(w) == Settle(worker[w].item[1], worker[w].item[2])

(* Ack or Requeue of the worker's item, committed by the store. *)
FinishCommits(w) ==
  LET i == worker[w].item IN
  IF worker[w].ok THEN Settle(i[1], i[2]) ELSE Release(i[1], i[2])

Finish(w) ==
  /\ worker[w].pc = "finish"
  /\ FinishCommits(w)
  /\ worker' = [worker EXCEPT ![w] = IdleWorker]
  /\ UNCHANGED <<started, run, cancelled, poller, work, stopper,
                 dispatched, succeeded>>

(* finishWithRetry sees an error: the lease is lost, the statement failed, *)
(* or it committed and the answer was lost.  It tries again, FinishTries   *)
(* times in all or until the deadline of ackCtx; then the failure is only  *)
(* logged.                                                                 *)
FinishFails(w) ==
  /\ worker[w].pc = "finish"
  /\ FinishCommits(w) \/ UNCHANGED queueVars
  /\ \/ worker' = [worker EXCEPT ![w] = IdleWorker]
     \/ worker[w].tries > 1 /\ worker' = [worker EXCEPT ![w].tries = @ - 1]
  /\ UNCHANGED <<started, run, cancelled, poller, work, stopper,
                 dispatched, succeeded>>

----------------------------------------------------------------------------
(* Start and Shutdown. *)

Start ==
  /\ ~started
  /\ run < MaxRuns
  /\ started' = TRUE
  /\ run' = run + 1
  /\ poller' = [poller EXCEPT ![run + 1] = Poller("top", 0, {})]
  /\ worker' = [w \in Workers |-> IF w[1] = run + 1 THEN IdleWorker ELSE worker[w]]
  /\ UNCHANGED <<queueVars, cancelled, work, stopper, dispatched, succeeded>>

(* The context that was given to Start is cancelled. *)
CancelContext ==
  /\ started
  /\ cancelled' = cancelled \cup {run}
  /\ UNCHANGED <<queueVars, started, run, poller, work, worker, stopper,
                 dispatched, succeeded>>

(* A Shutdown that finds the consumer started cancels the run and waits. *)
Shutdown(s) ==
  /\ stopper[s] = "idle"
  /\ started
  /\ started' = FALSE
  /\ cancelled' = cancelled \cup {run}
  /\ stopper' = [stopper EXCEPT ![s] = "waiting"]
  /\ UNCHANGED <<queueVars, run, poller, work, worker, dispatched, succeeded>>

(* One that does not returns nil at once. *)
ShutdownNoop(s) ==
  /\ stopper[s] = "idle"
  /\ ~started
  /\ stopper' = [stopper EXCEPT ![s] = "nil"]
  /\ UNCHANGED <<queueVars, started, run, cancelled, poller, work, worker,
                 dispatched, succeeded>>

(* co.wg counts the goroutines of every run. *)
ShutdownDone(s) ==
  /\ stopper[s] = "waiting"
  /\ \A r \in Runs : Exited(r)
  /\ stopper' = [stopper EXCEPT ![s] = "nil"]
  /\ UNCHANGED <<queueVars, started, run, cancelled, poller, work, worker,
                 dispatched, succeeded>>

ShutdownTimeout(s) ==
  /\ stopper[s] = "waiting"
  /\ stopper' = [stopper EXCEPT ![s] = "timeout"]
  /\ UNCHANGED <<queueVars, started, run, cancelled, poller, work, worker,
                 dispatched, succeeded>>

(* The process dies: the goroutines, the channels and the waiting calls    *)
(* are gone, the leases stay.  A new process subscribes and starts anew.   *)
Crash ==
  /\ MayCrash
  /\ run > 0
  /\ started' = FALSE
  /\ cancelled' = 1..run
  /\ poller' = [r \in Runs |-> Poller(IF r <= run THEN "closed" ELSE "none", 0, {})]
  /\ work' = [r \in Runs |-> {}]
  /\ worker' = [w \in Workers |-> IF w[1] <= run THEN Worker("exited", NoItem, FALSE, 0)
                                                ELSE worker[w]]
  /\ stopper' = [s \in Stoppers |-> "idle"]
  /\ UNCHANGED <<queueVars, run, dispatched, succeeded>>

----------------------------------------------------------------------------
(* Publishers and the reaper of some client. *)

Arrive(d) == \E b \in Budgets : Enqueue({d}, {}, b) /\ UNCHANGED localVars

Reap(d) == queue[d].phase = "in_flight" /\ Lapse({d}) /\ UNCHANGED localVars

Init ==
  /\ QueueInit
  /\ started = FALSE
  /\ run = 0
  /\ cancelled = {}
  /\ poller = [r \in Runs |-> Poller("none", 0, {})]
  /\ work = [r \in Runs |-> {}]
  /\ worker = [w \in Workers |-> Worker("none", NoItem, FALSE, 0)]
  /\ stopper = [s \in Stoppers |-> "idle"]
  /\ dispatched = {}
  /\ succeeded = {}

pollLoop(r) ==
  PollStop(r) \/ PollFree(r) \/ PollClaim(r) \/ PollNothing(r) \/ PollSend(r) \/ PollDrop(r)

handleLoop(w) ==
  Take(w) \/ Leave(w) \/ HandlerReturns(w) \/ Finish(w) \/ FinishFails(w)

Next ==
  \/ \E d \in Deliveries : Arrive(d) \/ Reap(d)
  \/ \E r \in Runs : pollLoop(r)
  \/ \E w \in Workers : handleLoop(w)
  \/ Start \/ CancelContext \/ Crash
  \/ \E s \in Stoppers :
       Shutdown(s) \/ ShutdownNoop(s) \/ ShutdownDone(s) \/ ShutdownTimeout(s)

Spec == Init /\ [][Next]_vars

(* The goroutines run, handlers return (their context ends with the        *)
(* lease), a maintenance loop reaps, and a Claim that is tried again and   *)
(* again succeeds some time.  Nobody has to call Shutdown, acks may fail   *)
(* every time.                                                             *)
Fairness ==
  /\ \A r \in Runs : /\ WF_vars(PollStop(r))
                      /\ WF_vars(PollFree(r))
                      /\ SF_vars(PollClaim(r))
                      /\ WF_vars(PollClaim(r) \/ PollNothing(r))
                      /\ WF_vars(PollSend(r) \/ PollDrop(r))
  /\ \A w \in Workers : /\ WF_vars(Take(w) \/ Leave(w))
                         /\ WF_vars(HandlerReturns(w))
                         /\ WF_vars(Finish(w) \/ FinishFails(w))
  /\ \A d \in Deliveries : WF_vars(Reap(d))

FairSpec == Spec /\ Fairness

----------------------------------------------------------------------------
(* Properties. *)

InHand(r) == poller[r].batch \cup work[r]

(* One lease is handled once: an item is in one run, in its batch or in    *)
(* its channel, until the one handler that takes it.                       *)
DispatchedOnce ==
  /\ \A r \in Runs : /\ poller[r].batch \cap work[r] = {}
                      /\ InHand(r) \cap dispatched = {}
                      /\ \A q \in Runs \ {r} : InHand(r) \cap InHand(q) = {}
  /\ \A v, w \in Workers :
       v # w /\ worker[v].item # NoItem => worker[v].item # worker[w].item

(* What the poller claims always fits the buffer, so its send never has to *)
(* wait for a handler, and one run has at most 2 * MaxInFlight deliveries  *)
(* leased and not yet settled by it.                                       *)
SendNeverBlocks == \A r \in Runs : Cardinality(InHand(r)) <= MaxInFlight

(* A run that is over has left nothing in its channel: what was sent was   *)
(* handled, also after a cancel.                                           *)
ChannelDrained == \A r \in Runs : Exited(r) => work[r] = {}

(* A delivery leaves the queue only after a handler returned nil for it,   *)
(* with the very token under which it was then acked: a stale success, an  *)
(* error or a shutdown never loses a message.                              *)
GoneOnlyBySuccess ==
  [][\A d \in Deliveries :
       queue[d].phase # "gone" /\ queue'[d].phase = "gone" =>
         <<d, queue[d].token>> \in succeeded]_vars

(* While a consumer serves, every delivery is acked or buried in the end,  *)
(* although acks are lost, claims fail and leases lapse under handlers.    *)
Serving == started /\ run \notin cancelled
EveryDeliveryEnds ==
  \A d \in Deliveries :
    queue[d].phase \in {"pending", "in_flight"} ~>
      (queue[d].phase \in {"gone", "dead"} \/ ~Serving)

(* A cancelled run ends: poller and handlers leave, so a Shutdown with a   *)
(* long enough deadline returns.                                           *)
CancelledRunEnds == \A r \in Runs : r \in cancelled ~> Exited(r)

(* The comment of Start: after a cancel, deliveries that are already       *)
(* claimed keep draining to the handlers.                                  *)
ClaimedKeepDraining ==
  [][\A r \in Runs : poller[r].batch \subseteq poller'[r].batch \cup work'[r]]_vars
=============================================================================
