------------------------------ MODULE History ------------------------------
(***************************************************************************)
(* What is kept of the measurements of a channel: the two archives of Rrd  *)
(* and the buffer of Graph, fed by the same publications.  Each has its    *)
(* queue, and a queue that is full loses a measurement for its owner only. *)
(* Time does not wrap within the bounds.                                   *)
(***************************************************************************)
EXTENDS Integers, Sequences, FiniteSets, Rrd, Graph

CONSTANTS
  Step, Capacity,          \* RRD_5S_STEP_MS, RRD_5S_CAPACITY
  LongStep, LongCapacity,  \* RRD_1MIN_STEP_MS, RRD_1MIN_CAPACITY
  Delay,                   \* the times between two measurements
  Value,                   \* what is measured
  MaxMeasurements          \* bound: measurements of the channel

ASSUME HistoryAssumption ==
  /\ {Step, Capacity, LongStep, LongCapacity, GraphSize, GraphSlot, MaxSamples} \subseteq Nat \ {0}
  /\ Delay \subseteq Nat /\ Value \subseteq Nat
  /\ MaxMeasurements \in Nat

VARIABLES
  now,       \* the time of the last measurement
  short,     \* the archive of 5 seconds
  long,      \* the archive of a minute
  graph,     \* the graph's buffer
  measured,  \* measurements so far
  archived,  \* what reached rrd_task, oldest first, with the running total
  drawn      \* what reached the display, oldest first, with the chart's column

vars == <<now, short, long, graph, measured, archived, drawn>>

Init ==
  /\ now = 0
  /\ short = Empty(Step, Capacity) /\ long = Empty(LongStep, LongCapacity)
  /\ graph = EmptyGraph
  /\ measured = 0
  /\ archived = <<>> /\ drawn = <<>>

\* The total of a list of measurements, and the column of the chart that the next
\* one is drawn in: it is as many columns after the one before as whole
\* GRAPH_SLOT_MS passed between the two, and the rest is dropped.  Next to a time
\* of 0 it is the next column.
Total(log) == IF log = <<>> THEN 0 ELSE log[Len(log)].total

NextColumn(log, ts) ==
  IF log = <<>> THEN 1
  ELSE LET m == log[Len(log)]
       IN  m.column + (IF ts = 0 \/ m.ts = 0 THEN 1 ELSE (ts - m.ts) \div GraphSlot)

\* ingest_measurement_locked, for a measurement that rrd_task receives.  The
\* time 0 is replaced by the present, which is 0 as well when it is received.
Archive(ts, v) ==
  /\ short' = Ingest(short, ts, v)
  /\ long' = Ingest(long, ts, v)
  /\ archived' = Append(archived, [ts |-> ts, v |-> v, total |-> Total(archived) + v])

\* ui_graph_update_channel, for a measurement that the display receives.
Draw(ts, v) ==
  /\ graph' = PushTimed(graph, v, ts)
  /\ drawn' = Append(drawn, [ts |-> ts, v |-> v, column |-> NextColumn(drawn, ts)])

Keep == UNCHANGED <<short, long, archived>>
Leave == UNCHANGED <<graph, drawn>>

\* respond_measurement stamps the time; it is published to both queues.
Measure(delay, v) ==
  /\ measured < MaxMeasurements
  /\ measured' = measured + 1
  /\ now' = now + delay
  /\ \/ Archive(now', v) /\ Draw(now', v)
     \/ Archive(now', v) /\ Leave
     \/ Keep /\ Draw(now', v)

Next == \E delay \in Delay, v \in Value : Measure(delay, v)

Spec == Init /\ [][Next]_vars

-----------------------------------------------------------------------------
(***************************************************************************)
(* The archives, defined from a list of the measurements they were given.  *)
(***************************************************************************)
FirstOf(S) == CHOOSE k \in S : \A j \in S : k <= j
LastOf(S) == CHOOSE k \in S : \A j \in S : j <= k

\* The slot a measurement was made in.
SlotOf(log, k, step) == log[k].ts \div step

Slots(log, step) == {SlotOf(log, k, step) : k \in 1 .. Len(log)}
In(log, slot, step) == {k \in 1 .. Len(log) : SlotOf(log, k, step) = slot}

\* The slots that get a point of their own, and the measurements it is the mean of.
\* These are the slot's, with one exception: the slot in which the device booted
\* starts at 0, which also stands for "not started", so that it is never closed
\* and its measurements go into the point of the next slot that has any.
PointSlots(log, step) ==
  IF Slots(log, step) = {0} THEN {0} ELSE Slots(log, step) \ {0}

Averaged(log, slot, step) ==
  IF slot = FirstOf(PointSlots(log, step)) THEN In(log, 0, step) \cup In(log, slot, step)
  ELSE In(log, slot, step)

\* The point of a slot: its end, the sum of its measurements, and their number as
\* far as it is counted.  They are consecutive, so that the sum is a difference
\* of totals.
SlotEnd(slot, step) == (slot + 1) * step

MeanOf(log, slot, step) ==
  LET in == Averaged(log, slot, step)
      first == log[FirstOf(in)]
      n == Cardinality(in)
  IN  [ts |-> SlotEnd(slot, step),
       sum |-> log[LastOf(in)].total - first.total + first.v,
       n |-> IF n > MaxSamples THEN MaxSamples ELSE n]

Consecutive(S) == S = FirstOf(S) .. LastOf(S)

\* The archive keeps the points in the order of time, and leaves out none, or none
\* but the oldest when the ring is full.
Matches(arch, log, step, capacity) ==
  LET kept == Kept(arch)
      slots == PointSlots(log, step)
  IN  /\ \A slot \in slots : Consecutive(Averaged(log, slot, step))
      /\ \A k \in 1 .. Len(kept) : \E slot \in slots : kept[k] = MeanOf(log, slot, step)
      /\ \A k \in 1 .. Len(kept) - 1 : kept[k].ts < kept[k + 1].ts
      /\ \A slot \in slots :
           \/ \E k \in 1 .. Len(kept) : kept[k].ts = SlotEnd(slot, step)
           \/ Len(kept) > capacity /\ SlotEnd(slot, step) < kept[1].ts

\* Readers get what is kept since a time, and no point less than they have room
\* for.  A time only matters next to that of a point.
ReadsSince(arch, since, max) ==
  LET kept == Kept(arch)
  IN  \E m \in 1 .. Len(kept) + 1 :
        /\ \A k \in 1 .. Len(kept) : kept[k].ts >= since <=> k >= m
        /\ GetPoints(arch, since, max) =
             SubSeq(kept, m, IF Len(kept) - m < max THEN Len(kept) ELSE m + max - 1)

ReadersServed(arch) ==
  LET kept == Kept(arch)
  IN  /\ HasLatest(arch) <=> kept # <<>>
      /\ kept # <<>> => Latest(arch) = kept[Len(kept)]
      /\ \A since \in {0} \cup {kept[k].ts + d : k \in 1 .. Len(kept), d \in {0, 1}},
            max \in 1 .. arch.capacity + 1 :
           ReadsSince(arch, since, max)

(***************************************************************************)
(* The graph, defined from a list of the measurements it was given.        *)
(***************************************************************************)
End(log) == IF log = <<>> THEN 0 ELSE log[Len(log)].column

ValueAt(log, column) == log[LastOf({k \in 1 .. Len(log) : log[k].column <= column})].v

\* By how much the columns between two measurements stand for less time than
\* passed between them.
Shortened(log, j, k) ==
  (log[k].ts - log[j].ts) - (log[k].column - log[j].column) * GraphSlot

\* Two measurements are never further apart than the time between them, and less
\* than a slot closer for each measurement from the one to the other.
InTime(log) ==
  \A j, k \in 1 .. Len(log) :
    j <= k /\ log[j].ts > 0 => Shortened(log, j, k) \in 0 .. (k - j) * (GraphSlot - 1)

-----------------------------------------------------------------------------
(***************************************************************************)
(* Properties.                                                             *)
(***************************************************************************)
ArchiveOK(arch, step, capacity) ==
  /\ arch \in [step : {step}, capacity : {capacity},
               points : [0 .. capacity - 1 -> [ts : 0 .. now, sum : Nat, n : 0 .. MaxSamples]],
               head : 0 .. capacity - 1, count : 0 .. capacity,
               start : 0 .. now, sum : Nat, samples : 0 .. MaxSamples]
  /\ arch.start % step = 0

\* Type: the rings of rrd.c and ui_graph.c stay within their arrays, and no
\* finished point lies in the future.
TypeOK ==
  /\ now \in Nat /\ measured \in 0 .. MaxMeasurements
  /\ ArchiveOK(short, Step, Capacity) /\ ArchiveOK(long, LongStep, LongCapacity)
  /\ graph \in [vals : [0 .. GraphSize - 1 -> Value \cup {0}], head : 0 .. GraphSize - 1,
                count : 0 .. GraphSize, last : 0 .. now]
  /\ archived \in Seq([ts : 0 .. now, v : Value, total : Nat])
  /\ drawn \in Seq([ts : 0 .. now, v : Value, column : Nat])

\* Values are averaged within each time slot, except that the measurements of the
\* slot in which the device booted are averaged with those of the next one; an
\* archive holds the points of the newest slots, whatever the gaps between them,
\* and readers get them oldest first, as many as they have room for (arch_ingest,
\* rrd_get_points, rrd_get_latest).
ArchivesMatch ==
  /\ Matches(short, archived, Step, Capacity) /\ ReadersServed(short)
  /\ Matches(long, archived, LongStep, LongCapacity) /\ ReadersServed(long)

\* The chart shows the newest columns: in each the last value drawn in it, or the
\* value before where no measurement came, also when the gap is longer than the
\* chart; and of two values it shows n columns apart the later one was measured at
\* least n slots after the other (buf_push_timed, chart_repopulate).
ChartMatches ==
  LET n == IF End(drawn) > GraphSize THEN GraphSize ELSE End(drawn)
  IN  /\ Chart(graph) = [k \in 1 .. n |-> ValueAt(drawn, End(drawn) - n + k)]
      /\ InTime(drawn)
=============================================================================
