----------------------------- MODULE AdminPages -----------------------------
(***************************************************************************)
(* The dead-letter pages of admin/dead.go: the keyset-paginated list, the  *)
(* page of one delivery, and the requeue and delete forms, each a request  *)
(* of several reads and writes, while the queue, the purge, channel        *)
(* deletes and other requests change the tables in between.                *)
(*                                                                         *)
(* A delivery is "live" (pending or in flight) or "dead".  Names, bodies   *)
(* and wording are left out.  The JSON endpoints answer with the same two  *)
(* loads as the pages.                                                     *)
(***************************************************************************)
EXTENDS Integers, Sequences, SequencesExt, FiniteSets, FiniteSetsExt

CONSTANTS Channels,      \* channel ids
          Browsers,      \* who reads the list, page by page
          Operators,     \* who looks at and settles single deliveries
          deadPageSize,
          MaxInt64       \* the largest id

ASSUME AdminPagesAssumption ==
  {deadPageSize, MaxInt64} \subseteq Nat \ {0}

IDs   == 1..MaxInt64
Users == Browsers \cup Operators

VARIABLES
  channels,    \* rows of novaque_channels
  deliveries,  \* id -> row of novaque_deliveries
  nextID,      \* the id the next insert gets
  request,     \* user -> the request on its way, or the last answer
  listed,      \* browser -> ids its browse has shown so far, in order
  throughout,  \* browser -> ids dead in its channel since the browse began
  unsettled    \* id -> times it was buried, less the times a requeue or a
               \* deletion by a request was committed for it, or the purge
               \* or the deletion of its channel took it while it was dead

vars == <<channels, deliveries, nextID, request, listed, throughout,
          unsettled>>

Idle == [op |-> "none", pc |-> "done", channel |-> 0, id |-> 0, before |-> 0, answer |-> "none"]

DeadIn(rows, ch) ==
  {d \in DOMAIN rows : rows[d].channel = ch /\ rows[d].status = "dead"}

(* deliveries becomes rows. *)
Written(rows) ==
  /\ deliveries' = rows
  /\ throughout' = [b \in Browsers |-> throughout[b] \cap DeadIn(rows, request[b].channel)]

(* int64 arithmetic. *)
Wrap(n) == IF n > MaxInt64 THEN n - 2 * (MaxInt64 + 1) ELSE n

----------------------------------------------------------------------------
(* The rest of the system, modelled in RowLockStore and SqliteStore. *)

Publish(ch) ==
  /\ ch \in channels
  /\ nextID <= MaxInt64
  /\ Written([d \in DOMAIN deliveries \cup {nextID} |->
                IF d = nextID THEN [channel |-> ch, status |-> "live"] ELSE deliveries[d]])
  /\ nextID' = nextID + 1
  /\ UNCHANGED <<channels, request, listed, unsettled>>

(* The last attempt of a live delivery is over. *)
Bury(d) ==
  /\ d \in DOMAIN deliveries
  /\ deliveries[d].status = "live"
  /\ Written([deliveries EXCEPT ![d].status = "dead"])
  /\ unsettled' = [unsettled EXCEPT ![d] = @ + 1]
  /\ UNCHANGED <<channels, nextID, request, listed>>

(* An ack, or the purge of an expired delivery, dead or live. *)
Retire(d) ==
  /\ d \in DOMAIN deliveries
  /\ Written([x \in DOMAIN deliveries \ {d} |-> deliveries[x]])
  /\ unsettled' = [unsettled EXCEPT ![d] = IF deliveries[d].status = "dead" THEN @ - 1 ELSE @]
  /\ UNCHANGED <<channels, nextID, request, listed>>

OutlivesChannel(ch) == {d \in DOMAIN deliveries : deliveries[d].channel # ch}

DeleteChannel(ch) ==
  /\ ch \in channels
  /\ channels' = channels \ {ch}
  /\ Written([d \in OutlivesChannel(ch) |-> deliveries[d]])
  /\ unsettled' = [d \in IDs |->
       IF d \in DeadIn(deliveries, ch) THEN unsettled[d] - 1 ELSE unsettled[d]]
  /\ UNCHANGED <<nextID, request, listed>>

----------------------------------------------------------------------------
(* Requests.  pathID refuses ids that are not positive. *)

Ask(b, op, ch, id) ==
  request' = [request EXCEPT ![b] =
    [op |-> op, pc |-> "resolve", channel |-> ch, id |-> id, before |-> 0, answer |-> "none"]]

(* GET /channels/{id}/dead without a cursor: a browse begins. *)
OpenList(b, ch) ==
  /\ request[b].pc = "done"
  /\ Ask(b, "list", ch, 0)
  /\ listed' = [listed EXCEPT ![b] = <<>>]
  /\ throughout' = [throughout EXCEPT ![b] = DeadIn(deliveries, ch)]
  /\ UNCHANGED <<channels, deliveries, nextID, unsettled>>

OpenDelivery(b, ch, d) ==
  /\ request[b].pc = "done"
  /\ Ask(b, "show", ch, d)
  /\ UNCHANGED <<channels, deliveries, nextID, listed, throughout, unsettled>>

PostAction(b, op, ch, d) ==
  /\ request[b].pc = "done"
  /\ Ask(b, op, ch, d)
  /\ UNCHANGED <<channels, deliveries, nextID, listed, throughout, unsettled>>

Answer(b, text) == request' = [request EXCEPT ![b] = [Idle EXCEPT !.answer = text]]

(* resolveChannel and requireChannel: a read of its own before the rest. *)
resolveChannel(b) ==
  /\ request[b].pc = "resolve"
  /\ IF request[b].channel \in channels
     THEN request' = [request EXCEPT ![b].pc = "act"]
     ELSE Answer(b, "not found")
  /\ UNCHANGED <<channels, deliveries, nextID, listed, throughout, unsettled>>

(* Any of a request's statements may fail and change nothing: 500.  One    *)
(* that reports an error although it was committed is part of deadAction.  *)
RequestFails(b) ==
  /\ request[b].pc \in {"resolve", "act"}
  /\ Answer(b, "error")
  /\ UNCHANGED <<channels, deliveries, nextID, listed, throughout, unsettled>>

(* ORDER BY id DESC *)
Descending(ids) ==
  CHOOSE rows \in [1..Cardinality(ids) -> ids] :
    \A i, j \in DOMAIN rows : i < j => rows[i] > rows[j]

(* WHERE (before = 0 OR id < before) *)
DeadBefore(ch, before) == {d \in DeadIn(deliveries, ch) : before = 0 \/ d < before}

(* LIMIT limit *)
ListDead(ch, before, limit) ==
  LET rows == Descending(DeadBefore(ch, before))
  IN SubSeq(rows, 1, Min({limit, Len(rows)}))

(* Mutant: the Older link starts after the probe row. *)
CursorAtProbe(rows) == rows[Len(rows)]

(* The last row that is shown. *)
OlderBefore(rows) == rows[deadPageSize]

(* One row more than fits is read, and tells whether there is an older     *)
(* page.                                                                   *)
loadDeadList(b) ==
  LET rows     == ListDead(request[b].channel, request[b].before, deadPageSize + 1)
      hasOlder == Len(rows) > deadPageSize
  IN
  /\ request[b].op = "list"
  /\ request[b].pc = "act"
  /\ listed' = [listed EXCEPT ![b] = @ \o SubSeq(rows, 1, Min({deadPageSize, Len(rows)}))]
  /\ request' = [request EXCEPT ![b].pc = IF hasOlder THEN "older" ELSE "done",
                                ![b].before = IF hasOlder THEN OlderBefore(rows) ELSE @,
                                ![b].answer = "page"]
  /\ UNCHANGED <<channels, deliveries, nextID, throughout, unsettled>>

(* The Older link, or the end of the browse before its last page. *)
FollowOlder(b) ==
  /\ request[b].pc = "older"
  /\ request' = [request EXCEPT ![b].pc = "resolve", ![b].answer = "none"]
  /\ UNCHANGED <<channels, deliveries, nextID, listed, throughout, unsettled>>

LeaveBrowse(b) ==
  /\ request[b].pc = "older"
  /\ request' = [request EXCEPT ![b] = Idle]
  /\ UNCHANGED <<channels, deliveries, nextID, listed, throughout, unsettled>>

(* Mutant: the cursor is the id itself. *)
SameCursor(d) == d

CursorAbove(d) == Wrap(d + 1)

loadDeadDelivery(b) ==
  LET rows == ListDead(request[b].channel, CursorAbove(request[b].id), 1) IN
  /\ request[b].op = "show"
  /\ request[b].pc = "act"
  /\ Answer(b, IF rows = <<>> \/ rows[1] # request[b].id THEN "not found" ELSE "found")
  /\ UNCHANGED <<channels, deliveries, nextID, listed, throughout, unsettled>>

(* Mutant: the guard of the mutation does not look at the status. *)
AnyOf(ch, d) == d \in DOMAIN deliveries /\ deliveries[d].channel = ch

(* WHERE id = ? AND channel_id = ? AND status = dead *)
DeadOf(ch, d) == d \in DeadIn(deliveries, ch)

(* formRequeueDead and formDeleteDead; ErrDeadGone is answered with a      *)
(* notice.  The commit, or the DELETE, that lands may report an error all  *)
(* the same.                                                               *)
deadAction(b, op, done, rows) ==
  LET d == request[b].id IN
  /\ request[b].op = op
  /\ request[b].pc = "act"
  /\ IF DeadOf(request[b].channel, d)
     THEN /\ Written(rows)
          /\ unsettled' = [unsettled EXCEPT ![d] = @ - 1]
          /\ Answer(b, done) \/ Answer(b, "error")
     ELSE Answer(b, "already-gone") /\ UNCHANGED <<deliveries, throughout, unsettled>>
  /\ UNCHANGED <<channels, nextID, listed>>

RequeueDead(b) ==
  LET d == request[b].id IN
  deadAction(b, "requeue", "requeued", [deliveries EXCEPT ![d].status = "live"])

DeleteDead(b) ==
  LET d == request[b].id IN
  deadAction(b, "delete", "deleted", [x \in DOMAIN deliveries \ {d} |-> deliveries[x]])

----------------------------------------------------------------------------
Init ==
  /\ channels = Channels
  /\ deliveries = <<>>
  /\ nextID = 1
  /\ request = [u \in Users |-> Idle]
  /\ listed = [b \in Browsers |-> <<>>]
  /\ throughout = [b \in Browsers |-> {}]
  /\ unsettled = [d \in IDs |-> 0]

Queue ==
  \/ \E ch \in Channels : Publish(ch) \/ DeleteChannel(ch)
  \/ \E d \in IDs : Bury(d) \/ Retire(d)

Browse(b) ==
  \/ \E ch \in Channels : OpenList(b, ch)
  \/ loadDeadList(b) \/ FollowOlder(b) \/ LeaveBrowse(b)

Operate(o) ==
  \/ \E ch \in Channels, d \in IDs :
       \/ OpenDelivery(o, ch, d)
       \/ \E op \in {"requeue", "delete"} : PostAction(o, op, ch, d)
  \/ loadDeadDelivery(o) \/ RequeueDead(o) \/ DeleteDead(o)

Next ==
  \/ Queue
  \/ \E b \in Browsers : Browse(b)
  \/ \E o \in Operators : Operate(o)
  \/ \E u \in Users : resolveChannel(u) \/ RequestFails(u)

Spec == Init /\ [][Next]_vars

----------------------------------------------------------------------------
(* Properties. *)

(* A browse shows no delivery twice or out of order, and one that reached  *)
(* its last page has shown every delivery that was dead in the channel all *)
(* the time, whatever was buried, requeued, purged or deleted between its  *)
(* pages.                                                                  *)
BrowseExact ==
  \A b \in Browsers :
    /\ \A i, j \in DOMAIN listed[b] : i < j => listed[b][i] > listed[b][j]
    /\ request[b].op = "list" /\ request[b].pc = "done" /\ request[b].answer = "page" =>
         throughout[b] \subseteq ToSet(listed[b])

(* Every death is settled exactly once: the delivery is still dead, or it  *)
(* was taken by one committed requeue or deletion of a request (which was  *)
(* told so, or was answered with an error when only the answer of the      *)
(* commit was lost), by the purge or with its channel.  Two operators      *)
(* never both settle it, and a request sent again, after an error too,     *)
(* settles no death twice.                                                 *)
DeathsAccounted ==
  \A d \in IDs :
    unsettled[d] = IF \E ch \in Channels : d \in DeadIn(deliveries, ch) THEN 1 ELSE 0

(* The read of a delivery's page is over. *)
Looked(o) ==
  /\ request[o].op = "show" /\ request[o].pc = "act"
  /\ request'[o].pc = "done" /\ request'[o].answer # "error"

FoundWhenDead(o) ==
  request'[o].answer = "found" <=> request[o].id \in DeadIn(deliveries, request[o].channel)

(* The page of a delivery is found exactly when the delivery is dead in    *)
(* that channel at the moment of the read, whatever else is dead there.    *)
(* Not so at the largest id, where the cursor wraps to a negative number   *)
(* that is below every row.                                                *)
ShowsExactlyTheDead ==
  [][\A o \in Operators : Looked(o) /\ request[o].id < MaxInt64 => FoundWhenDead(o)]_vars
=============================================================================
