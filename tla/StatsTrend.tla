----------------------------- MODULE StatsTrend -----------------------------
(***************************************************************************)
(* The trend strips of the admin pages over the counters of StatsSink: the *)
(* day buckets a driver returns for a window that ends at the database's   *)
(* day, filled up by admin.go over a window that ends at the host's day,   *)
(* and shaded by heatmap.go.                                               *)
(*                                                                         *)
(* The six strips of a page are built one like the other; the one number   *)
(* of a row stands for each of the five volume counters and, with its own  *)
(* shading, for dead.                                                      *)
(***************************************************************************)
EXTENDS StatsSink, Sequences, SequencesExt

CONSTANTS trendDays,          \* days on a strip
          heatmapScaleFloor,  \* a row below it is shaded against it
          ClockSkew           \* host day minus database day, at most

ASSUME StatsTrendAssumption ==
  /\ {trendDays, heatmapScaleFloor} \subseteq Nat \ {0}
  /\ ClockSkew \in Nat

----------------------------------------------------------------------------
Stored(S, d) == SumFunction([c \in S |-> table[d][c]])

(* Mutant: the first day of the window is left out. *)
WindowTooShort(S) ==
  [d \in {x \in Days : x > today - trendDays + 1 /\ Stored(S, x) > 0} |-> Stored(S, d)]

(* The driver's read: SUM per day over the rows of S, day_utc > today - N. *)
dailyCounters(S) ==
  [d \in {x \in Days : x > today - trendDays /\ Stored(S, x) > 0} |-> Stored(S, d)]

(* Newest day first. *)
zeroFillDaily(rows, now) ==
  [i \in 1..trendDays |->
    LET day == now - (i - 1) IN
    [Day |-> day, Value |-> IF day \in DOMAIN rows THEN rows[day] ELSE 0]]

chronologicalDayViews(days) ==
  IF Len(days) < 2 \/ days[1].Day <= days[Len(days)].Day THEN days ELSE Reverse(days)

Clamp(lo, hi, n) == IF n < lo THEN lo ELSE IF n > hi THEN hi ELSE n

Quartile(value, scale) == (value * 4 + scale - 1) \div scale

counterLevel(value, max) ==
  IF value <= 0 \/ max <= 0 THEN 0
  ELSE Clamp(1, 4, Quartile(value, IF max < heatmapScaleFloor THEN heatmapScaleFloor ELSE max))

deadCounterLevel(value, max) ==
  IF value <= 0 \/ max <= 0 THEN 0 ELSE Clamp(2, 4, Quartile(value, max))

buildContributionGraph(days) ==
  LET chrono == chronologicalDayViews(days)
      max    == Max({chrono[i].Value : i \in DOMAIN chrono})
  IN [i \in DOMAIN chrono |->
        [Day    |-> chrono[i].Day,
         Value  |-> chrono[i].Value,
         Volume |-> counterLevel(chrono[i].Value, max),
         Dead   |-> deadCounterLevel(chrono[i].Value, max)]]

(* The page of one channel, or of the cluster, at the host's day. *)
Strip(S, hostDay) == buildContributionGraph(zeroFillDaily(dailyCounters(S), hostDay))

----------------------------------------------------------------------------
(* Properties. *)

Pages    == {{c} : c \in Coords} \cup {Coords}
HostDays == (today - ClockSkew)..(today + ClockSkew)

(* The number of quarters of the scale that v reaches into. *)
Shade(v, scale) == Min({l \in 1..4 : 4 * v <= l * scale})

(* What flushes wrote for day d, pruned since or not. *)
Landed(S, d) == SumFunction([c \in S |-> landed[d][c]])

(* The days the driver reads. *)
TrendWindow == {d \in Days : today - trendDays < d /\ d <= today}

(* Whatever flushes, prunes, cascades and days have made of the table, a   *)
(* strip shows consecutive days up to the host's, oldest first.  A day of  *)
(* the database's window has all that ever landed on it, the edge of the   *)
(* retention included, or, past the retention, what prunes have left.  The *)
(* other days are shown as empty: on a host that is ahead the newest ones, *)
(* which have not begun; on a host that lags the oldest ones, whatever the *)
(* table still holds for them, while as many of the newest days are left   *)
(* out.  Shades follow the counts: none for zero, otherwise the quarter of *)
(* the busiest day's count, or of the floor when every day is quiet; a day *)
(* with dead deliveries is never fainter than the second shade.            *)
TrendFaithful ==
  \A S \in Pages, h \in HostDays :
    LET strip == Strip(S, h)
        top   == Max({strip[i].Value : i \in DOMAIN strip})
    IN
    /\ Len(strip) = trendDays
    /\ \A i \in 1..trendDays : strip[i].Day = h - trendDays + i
    /\ \A i \in 1..trendDays :
         LET d == strip[i].Day IN
         strip[i].Value = IF d \notin TrendWindow THEN 0
                          ELSE IF d + RetentionDays < today THEN Stored(S, d)
                          ELSE Landed(S, d)
    /\ \A i \in 1..trendDays :
         LET v == strip[i].Value IN
         IF v = 0 THEN strip[i].Volume = 0 /\ strip[i].Dead = 0
         ELSE /\ strip[i].Volume = Shade(v, Max({top, heatmapScaleFloor}))
              /\ strip[i].Dead = Max({2, Shade(v, top)})
=============================================================================
