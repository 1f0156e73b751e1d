------------------------------- MODULE Graph -------------------------------
(***************************************************************************)
(* The buffer of the graph screen, src/firmware/src/ui/ui_graph.c, as      *)
(* operators on the buffer of one channel: a ring of values, one for every *)
(* column of the chart.                                                    *)
(***************************************************************************)
EXTENDS Integers, Sequences

CONSTANTS
  GraphSize,   \* GRAPH_BUF_SIZE
  GraphSlot    \* GRAPH_SLOT_MS

EmptyGraph == [vals |-> [k \in 0 .. GraphSize - 1 |-> 0], head |-> 0, count |-> 0, last |-> 0]

\* buf_push
PushValue(b, v) ==
  [b EXCEPT !.vals[b.head] = v,
            !.head = (@ + 1) % GraphSize,
            !.count = IF @ < GraphSize THEN @ + 1 ELSE @]

Newest(b) == (b.head + GraphSize - 1) % GraphSize

\* buf_set_latest; the buffer is not empty where it is called.
SetNewest(b, v) == [b EXCEPT !.vals[Newest(b)] = v]

\* A loop of buf_push: n times the same value, at most as often as the ring has
\* places.
PushTimes(b, v, n) ==
  [b EXCEPT !.vals = [k \in 0 .. GraphSize - 1 |->
                        IF (k + GraphSize - b.head) % GraphSize < n THEN v ELSE b.vals[k]],
            !.head = (@ + n) % GraphSize,
            !.count = IF @ + n < GraphSize THEN @ + n ELSE GraphSize]

\* Mutant: one more.
HeldOneMore(slots) == IF slots > GraphSize THEN GraphSize ELSE slots

\* The columns without a measurement hold the value before; more than the ring
\* takes are not written.
Held(slots) == (IF slots > GraphSize THEN GraphSize ELSE slots) - 1

\* buf_push_timed: a measurement less than a slot after the one before replaces its
\* value, and the time of reference moves along, so that readings which are all
\* closer than a slot stay in one column.
PushTimed(b, v, ts) ==
  LET slots == (ts - b.last) \div GraphSlot
  IN  CASE b.count = 0 \/ ts = 0 \/ b.last = 0 -> [PushValue(b, v) EXCEPT !.last = ts]
        [] OTHER ->
             IF ts <= b.last THEN SetNewest(b, v)
             ELSE IF slots = 0 THEN [SetNewest(b, v) EXCEPT !.last = ts]
             ELSE [PushValue(PushTimes(b, b.vals[Newest(b)], Held(slots)), v) EXCEPT !.last = ts]

\* chart_repopulate: the values of the chart, oldest first.
Chart(b) ==
  LET first == IF b.count < GraphSize THEN 0 ELSE b.head
  IN  [k \in 1 .. b.count |-> b.vals[(first + k - 1) % GraphSize]]
=============================================================================
