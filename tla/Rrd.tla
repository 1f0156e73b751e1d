-------------------------------- MODULE Rrd --------------------------------
(***************************************************************************)
(* The archives of src/firmware/src/rrd.c, as operators on one archive: a  *)
(* ring of points, each the mean of the measurements of a time slot, and   *)
(* the slot that is being filled.  A mean is kept as its sum and number.   *)
(* The readers and rrd_task exclude each other by s_rrd_lock, so that one  *)
(* operator is one step.                                                   *)
(***************************************************************************)
EXTENDS Integers, Sequences, FiniteSets

CONSTANT MaxSamples   \* UINT16_MAX

Empty(step, capacity) ==
  [step |-> step, capacity |-> capacity,
   points |-> [k \in 0 .. capacity - 1 |-> [ts |-> 0, sum |-> 0, n |-> 0]],
   head |-> 0, count |-> 0, start |-> 0, sum |-> 0, samples |-> 0]

\* slot_floor
Floor(ts, step) == ts - (ts % step)

PushBeyond(arch, p) ==   \* Mutant: the points are counted for ever.
  [arch EXCEPT !.points[arch.head] = p, !.head = (@ + 1) % arch.capacity, !.count = @ + 1]

\* arch_push
Push(arch, p) ==
  [arch EXCEPT !.points[arch.head] = p,
               !.head = (@ + 1) % arch.capacity,
               !.count = IF @ < arch.capacity THEN @ + 1 ELSE @]

\* The slot that is being filled, as a point.
Current(arch) == [ts |-> arch.start + arch.step, sum |-> arch.sum, n |-> arch.samples]

\* Mutant: the sum goes on into the next slot.
FinalizeKeeping(arch) ==
  IF arch.samples = 0 THEN arch ELSE [Push(arch, Current(arch)) EXCEPT !.samples = 0]

\* arch_finalize_slot
Finalize(arch) ==
  IF arch.samples = 0 THEN arch
  ELSE [Push(arch, Current(arch)) EXCEPT !.sum = 0, !.samples = 0]

\* The start of the slot that is filled is 0 until it is known.
Started(arch, ts) ==
  IF arch.start = 0 THEN [arch EXCEPT !.start = Floor(ts, arch.step)] ELSE arch

\* The loop over the slots up to ts: the first iteration closes the slot, the
\* others find no samples.
Advance(arch, ts) ==
  LET slots == (ts - arch.start) \div arch.step
  IN  IF slots = 0 THEN arch
      ELSE [Finalize(arch) EXCEPT !.start = arch.start + slots * arch.step]

Add(arch, v) ==
  [arch EXCEPT !.sum = @ + v, !.samples = IF @ < MaxSamples THEN @ + 1 ELSE @]

\* arch_ingest; a measurement from before the slot is dropped.
Ingest(arch, ts, v) ==
  LET a == Started(arch, ts)
  IN  IF ts < a.start THEN a ELSE Add(Advance(a, ts), v)

-----------------------------------------------------------------------------
\* The points of the ring, oldest first.
Points(arch) ==
  LET first == IF arch.count < arch.capacity THEN 0 ELSE arch.head
  IN  [k \in 1 .. arch.count |-> arch.points[(first + k - 1) % arch.capacity]]

\* ... and the slot in progress behind them.
Kept(arch) == IF arch.samples > 0 THEN Append(Points(arch), Current(arch)) ELSE Points(arch)

\* rrd_get_points: the points since a time, one after the other, as many as
\* the reader has room for.
GetPoints(arch, since, max) ==
  LET kept == Kept(arch)
      recent == {k \in 1 .. Len(kept) : kept[k].ts >= since}
      nth(i) == CHOOSE k \in recent : Cardinality({j \in recent : j <= k}) = i
      n == Cardinality(recent)
  IN  [i \in 1 .. (IF n > max THEN max ELSE n) |-> kept[nth(i)]]

\* rrd_get_latest: the current slot if it has samples, or else the newest point.
HasLatest(arch) == arch.samples > 0 \/ arch.count > 0
Latest(arch) ==
  IF arch.samples > 0 THEN Current(arch)
  ELSE arch.points[(arch.head + arch.capacity - 1) % arch.capacity]
=============================================================================
