--------------------------- MODULE HistoryProofs ---------------------------
(***************************************************************************)
(* The rings of the archives and of the graph hold what they should, for   *)
(* any sizes, steps, gaps, values and losses: every step of rrd.c and of   *)
(* ui_graph.c keeps the newest part of a list that only grows.             *)
(***************************************************************************)
EXTENDS History, QueueLemmas, FiniteSetTheorems

\* The constants, with the archives' own first.
LEMMA Sizes ==
  /\ Step \in Nat \ {0} /\ Capacity \in Nat \ {0}
  /\ LongStep \in Nat \ {0} /\ LongCapacity \in Nat \ {0}
  /\ GraphSize \in Nat \ {0} /\ GraphSlot \in Nat \ {0} /\ MaxSamples \in Nat \ {0}
  /\ Delay \subseteq Nat /\ Value \subseteq Nat /\ MaxMeasurements \in Nat
  BY HistoryAssumption

-----------------------------------------------------------------------------
(***************************************************************************)
(* Places in a ring and in a list.                                         *)
(***************************************************************************)
\* A place beyond the end of a ring is one at its beginning.
LEMMA Wrap ==
  ASSUME NEW size \in Nat \ {0}, NEW k \in Int, 0 <= k, k < size + size
  PROVE  k % size = IF k < size THEN k ELSE k - size
  OBVIOUS

\* A set of positions has a first one.
LEMMA FirstIn ==
  ASSUME NEW n \in Nat, NEW S, S \subseteq 1 .. n, S # {}
  PROVE  \E k \in S : \A j \in S : k <= j
<1> DEFINE T == {n + 1 - k : k \in S}
<1>1. \A k \in S : k \in 1 .. n /\ n + 1 - k \in 1 .. n /\ n + 1 - (n + 1 - k) = k
  <2>1. \A k \in 1 .. n : n + 1 - k \in 1 .. n /\ n + 1 - (n + 1 - k) = k
    OBVIOUS
  <2> QED  BY <2>1
<1>2. T \subseteq 1 .. n /\ T # {}
  <2>1. \A k \in S : n + 1 - k \in 1 .. n
    BY <1>1
  <2> QED  BY <2>1
<1>3. PICK i \in T : \A j \in T : j <= i
  BY <1>2, LastIn
<1>4. n + 1 - i \in S
  BY <1>1, <1>3
<1>5. ASSUME NEW j \in S PROVE n + 1 - i <= j
  <2>1. n + 1 - j \in T
    OBVIOUS
  <2>2. i \in 1 .. n /\ n + 1 - j <= i
    BY <1>2, <1>3, <2>1
  <2> QED  BY <1>1, <2>2
<1> QED  BY <1>4, <1>5

LEMMA FirstAndLast ==
  ASSUME NEW n \in Nat, NEW S, S \subseteq 1 .. n, S # {}
  PROVE  /\ FirstOf(S) \in S /\ \A j \in S : FirstOf(S) <= j
         /\ LastOf(S) \in S /\ \A j \in S : j <= LastOf(S)
<1>1. \E k \in S : \A j \in S : k <= j
  BY FirstIn
<1>2. \E k \in S : \A j \in S : j <= k
  BY LastIn
<1> QED  BY <1>1, <1>2 DEF FirstOf, LastOf

\* First and last position of a span.
LEMMA SpanEnds ==
  ASSUME NEW a \in Nat \ {0}, NEW b \in Nat, a <= b
  PROVE  FirstOf(a .. b) = a /\ LastOf(a .. b) = b /\ Cardinality(a .. b) = b - a + 1
<1>1. a .. b \subseteq 1 .. b /\ a \in a .. b /\ b \in a .. b
  OBVIOUS
<1>2. FirstOf(a .. b) \in a .. b /\ LastOf(a .. b) \in a .. b
      /\ FirstOf(a .. b) <= a /\ b <= LastOf(a .. b)
  BY <1>1, FirstAndLast
<1>3. Cardinality(a .. b) = b - a + 1
  BY FS_Interval
<1> QED  BY <1>2, <1>3

-----------------------------------------------------------------------------
(***************************************************************************)
(* The ring of an archive.                                                 *)
(***************************************************************************)
\* Archives of which no time is after t.
Point(t) == [ts : 0 .. t, sum : Nat, n : 0 .. MaxSamples]

Archives(step, capacity, t) ==
  [step : {step}, capacity : {capacity}, points : [0 .. capacity - 1 -> Point(t)],
   head : 0 .. capacity - 1, count : 0 .. capacity,
   start : 0 .. t, sum : Nat, samples : 0 .. MaxSamples]

\* The times at which a slot may start.
Aligned(step) == {ts \in Nat : ts % step = 0}

\* The ring is filled from its beginning.
Ring(arch, step, capacity, t) ==
  /\ arch \in Archives(step, capacity, t)
  /\ arch.start \in Aligned(step)
  /\ (arch.count < capacity => arch.head = arch.count)

\* Where the k-th oldest point is.
PlaceOf(head, count, size, k) ==
  IF count < size THEN k - 1 ELSE IF head + k - 1 < size THEN head + k - 1 ELSE head + k - 1 - size

LEMMA Fields ==
  ASSUME NEW step, NEW capacity, NEW t, NEW arch \in Archives(step, capacity, t)
  PROVE  /\ arch.step = step /\ arch.capacity = capacity
         /\ arch.points \in [0 .. capacity - 1 -> Point(t)]
         /\ arch.head \in 0 .. capacity - 1 /\ arch.count \in 0 .. capacity
         /\ arch.start \in 0 .. t /\ arch.sum \in Nat /\ arch.samples \in 0 .. MaxSamples
  BY DEF Archives

LEMMA RingFields ==
  ASSUME NEW step, NEW capacity, NEW t, NEW arch, Ring(arch, step, capacity, t)
  PROVE  /\ arch \in Archives(step, capacity, t)
         /\ arch.step = step /\ arch.capacity = capacity
         /\ arch.points \in [0 .. capacity - 1 -> Point(t)]
         /\ arch.head \in 0 .. capacity - 1 /\ arch.count \in 0 .. capacity
         /\ arch.start \in 0 .. t /\ arch.sum \in Nat /\ arch.samples \in 0 .. MaxSamples
         /\ arch.start \in Aligned(step) /\ (arch.count < capacity => arch.head = arch.count)
  BY Fields DEF Ring

\* How many points leave the ring when one is pushed.
Leaving(arch, capacity) == IF arch.count < capacity THEN 0 ELSE 1

PointsPlaced(arch, capacity) ==
  \A k \in 1 .. arch.count :
    Points(arch)[k] = arch.points[PlaceOf(arch.head, arch.count, capacity, k)]

LEMMA PointsIndexed ==
  ASSUME NEW step \in Nat \ {0}, NEW capacity \in Nat \ {0}, NEW t \in Nat, NEW arch,
         Ring(arch, step, capacity, t)
  PROVE  /\ Len(Points(arch)) = arch.count
         /\ Points(arch) \in Seq(Point(t))
         /\ PointsPlaced(arch, capacity)
<1> DEFINE first == IF arch.count < arch.capacity THEN 0 ELSE arch.head
           place(k) == PlaceOf(arch.head, arch.count, capacity, k)
<1>1. /\ arch.capacity = capacity /\ arch.count \in 0 .. capacity /\ arch.head \in 0 .. capacity - 1
      /\ arch.points \in [0 .. capacity - 1 -> Point(t)]
  BY RingFields
<1>2. ASSUME NEW k \in 1 .. arch.count
      PROVE  (first + k - 1) % arch.capacity = place(k) /\ place(k) \in 0 .. capacity - 1
  <2> DEFINE h == arch.head
             c == arch.count
             x == (IF c < capacity THEN 0 ELSE h) + k - 1
  <2>1. h \in 0 .. capacity - 1 /\ c \in 0 .. capacity /\ k \in 1 .. c
    BY <1>1
  <2> HIDE DEF h, c
  <2>2. x \in Int /\ 0 <= x /\ x < capacity + capacity
    BY <2>1
  <2>3. x % capacity = IF x < capacity THEN x ELSE x - capacity
    <3> HIDE DEF x
    <3> QED  BY <2>2, Wrap
  <2>4. x % capacity = PlaceOf(h, c, capacity, k) /\ PlaceOf(h, c, capacity, k) \in 0 .. capacity - 1
    BY <2>1, <2>3 DEF PlaceOf
  <2> QED  BY <1>1, <2>4 DEF h, c
<1>3. Points(arch) = [k \in 1 .. arch.count |-> arch.points[(first + k - 1) % arch.capacity]]
  BY DEF Points
<1>4. \A k \in 1 .. arch.count : Points(arch)[k] = arch.points[place(k)]
  BY <1>2, <1>3
<1>5. \A k \in 1 .. arch.count : arch.points[(first + k - 1) % arch.capacity] \in Point(t)
  BY <1>1, <1>2
<1>6. Points(arch) \in Seq(Point(t)) /\ Len(Points(arch)) = arch.count
  <2> HIDE DEF first
  <2>1. Points(arch) \in [1 .. arch.count -> Point(t)]
    BY <1>3, <1>5
  <2> QED  BY <1>1, <2>1
<1> QED  BY <1>4, <1>6 DEF PointsPlaced

\* A point that is pushed becomes the newest; when the ring was full the oldest
\* leaves (arch_push).
LEMMA PointPushed ==
  ASSUME NEW step \in Nat \ {0}, NEW capacity \in Nat \ {0}, NEW t \in Nat, NEW arch,
         Ring(arch, step, capacity, t), NEW p \in Point(t),
         NEW next, next = Push(arch, p),
         NEW out, out = Leaving(arch, capacity)
  PROVE  /\ Ring(next, step, capacity, t)
         /\ next.start = arch.start /\ next.sum = arch.sum /\ next.samples = arch.samples
         /\ next.count = arch.count + 1 - out
         /\ \A k \in 1 .. next.count - 1 : Points(next)[k] = Points(arch)[k + out]
         /\ Points(next)[next.count] = p
<1>1. /\ arch \in Archives(step, capacity, t)
      /\ arch.step = step /\ arch.capacity = capacity
      /\ arch.points \in [0 .. capacity - 1 -> Point(t)]
      /\ arch.head \in 0 .. capacity - 1 /\ arch.count \in 0 .. capacity
      /\ arch.start \in 0 .. t /\ arch.sum \in Nat /\ arch.samples \in 0 .. MaxSamples
      /\ arch.start \in Aligned(step) /\ (arch.count < capacity => arch.head = arch.count)
      /\ out = IF arch.count < capacity THEN 0 ELSE 1
  BY RingFields DEF Leaving
<1>2. (arch.head + 1) % capacity = IF arch.head + 1 < capacity THEN arch.head + 1 ELSE 0
  <2> DEFINE x == arch.head + 1
  <2>1. x \in 1 .. capacity
    BY <1>1
  <2> HIDE DEF x
  <2>2. x \in Int /\ 0 <= x /\ x < capacity + capacity
    BY <2>1
  <2>3. x % capacity = IF x < capacity THEN x ELSE x - capacity
    BY <2>2, Wrap
  <2>4. x % capacity = IF x < capacity THEN x ELSE 0
    BY <2>1, <2>3
  <2> QED  BY <2>4 DEF x
<1>3. next = [arch EXCEPT !.points = [arch.points EXCEPT ![arch.head] = p],
                          !.head = (arch.head + 1) % arch.capacity,
                          !.count = IF arch.count < arch.capacity THEN arch.count + 1 ELSE arch.count]
  BY DEF Push
<1>4. /\ next.points = [arch.points EXCEPT ![arch.head] = p]
      /\ next.head = IF arch.head + 1 < capacity THEN arch.head + 1 ELSE 0
      /\ next.count = arch.count + 1 - out
      /\ next.step = step /\ next.capacity = capacity
      /\ next.start = arch.start /\ next.sum = arch.sum /\ next.samples = arch.samples
  BY <1>1, <1>2, <1>3 DEF Archives
<1>5. next \in Archives(step, capacity, t)
  <2>1. [arch.points EXCEPT ![arch.head] = p] \in [0 .. capacity - 1 -> Point(t)]
    BY <1>1
  <2>2. (IF arch.head + 1 < capacity THEN arch.head + 1 ELSE 0) \in 0 .. capacity - 1
        /\ arch.count + 1 - out \in 0 .. capacity
    BY <1>1
  <2> QED  BY <1>1, <1>3, <1>4, <2>1, <2>2 DEF Archives
<1>6. Ring(next, step, capacity, t)
  BY <1>1, <1>4, <1>5 DEF Ring
<1>7. PointsPlaced(arch, capacity)
  BY PointsIndexed
<1>8. PointsPlaced(next, capacity)
  BY <1>6, PointsIndexed
<1>9. /\ next.count \in 1 .. capacity
      /\ PlaceOf(next.head, next.count, capacity, next.count) = arch.head
      /\ \A k \in 1 .. next.count - 1 :
           /\ k + out \in 1 .. arch.count
           /\ PlaceOf(next.head, next.count, capacity, k)
                = PlaceOf(arch.head, arch.count, capacity, k + out)
           /\ PlaceOf(arch.head, arch.count, capacity, k + out) \in 0 .. capacity - 1
           /\ PlaceOf(arch.head, arch.count, capacity, k + out) # arch.head
  <2> DEFINE h == arch.head
             c == arch.count
             hh == next.head
             cc == next.count
  <2>1. /\ h \in 0 .. capacity - 1 /\ c \in 0 .. capacity /\ (c < capacity => h = c)
        /\ hh = IF h + 1 < capacity THEN h + 1 ELSE 0
        /\ cc = c + 1 - out /\ out = IF c < capacity THEN 0 ELSE 1
    BY <1>1, <1>4
  <2> HIDE DEF h, c, hh, cc
  <2>2. /\ cc \in 1 .. capacity /\ PlaceOf(hh, cc, capacity, cc) = h
        /\ \A k \in 1 .. cc - 1 :
             /\ k + out \in 1 .. c
             /\ PlaceOf(hh, cc, capacity, k) = PlaceOf(h, c, capacity, k + out)
             /\ PlaceOf(h, c, capacity, k + out) \in 0 .. capacity - 1
             /\ PlaceOf(h, c, capacity, k + out) # h
    BY <2>1 DEF PlaceOf
  <2> QED  BY <2>2 DEF h, c, hh, cc
<1>10. ASSUME NEW k \in 1 .. next.count - 1 PROVE Points(next)[k] = Points(arch)[k + out]
  <2> DEFINE i == PlaceOf(arch.head, arch.count, capacity, k + out)
  <2>1. Points(next)[k] = next.points[i] /\ Points(arch)[k + out] = arch.points[i]
        /\ i \in 0 .. capacity - 1 /\ i # arch.head
    <3>1. k \in 1 .. next.count /\ k + out \in 1 .. arch.count
      BY <1>9
    <3> QED  BY <1>7, <1>8, <1>9, <3>1 DEF PointsPlaced
  <2> HIDE DEF i
  <2> QED  BY <1>1, <1>4, <2>1
<1>11. Points(next)[next.count] = p
  <2>1. next.count \in 1 .. next.count
    BY <1>9
  <2> QED  BY <1>1, <1>4, <1>8, <1>9, <2>1 DEF PointsPlaced
<1> QED  BY <1>4, <1>6, <1>10, <1>11

\* What is kept: the points of the ring and the slot in progress.
Points3 == [ts : Nat, sum : Nat, n : Nat]

LEMMA KeptIndexed ==
  ASSUME NEW step \in Nat \ {0}, NEW capacity \in Nat \ {0}, NEW t \in Nat, NEW arch,
         Ring(arch, step, capacity, t)
  PROVE  /\ Kept(arch) \in Seq(Points3)
         /\ Len(Kept(arch)) = arch.count + (IF arch.samples > 0 THEN 1 ELSE 0)
         /\ \A k \in 1 .. arch.count : Kept(arch)[k] = Points(arch)[k]
         /\ arch.samples > 0 => Kept(arch)[arch.count + 1] = Current(arch)
<1>1. /\ arch.step = step /\ arch.count \in 0 .. capacity
      /\ arch.start \in 0 .. t /\ arch.sum \in Nat /\ arch.samples \in 0 .. MaxSamples
  BY RingFields
<1>2. Len(Points(arch)) = arch.count /\ Points(arch) \in Seq(Point(t))
  BY PointsIndexed
<1>3. Points(arch) \in Seq(Points3)
  <2>1. \A p \in Point(t) : p \in Points3
    BY Sizes DEF Point, Points3
  <2> QED  BY <1>2, <2>1
<1>4. Current(arch) \in Points3
  BY <1>1, Sizes DEF Current, Points3
<1>5. CASE arch.samples > 0
  <2>1. Kept(arch) = Append(Points(arch), Current(arch))
    BY <1>5 DEF Kept
  <2> QED  BY <1>1, <1>2, <1>3, <1>4, <1>5, <2>1
<1>6. CASE ~(arch.samples > 0)
  <2>1. Kept(arch) = Points(arch)
    BY <1>6 DEF Kept
  <2> QED  BY <1>1, <1>2, <1>3, <1>6, <2>1
<1> QED  BY <1>5, <1>6

-----------------------------------------------------------------------------
(***************************************************************************)
(* The slot of a time, and the time at which a slot begins.                *)
(***************************************************************************)
SlotAt(ts, step) == ts \div step
Begin(slot, step) == step * slot

LEMMA SlotTimes ==
  ASSUME NEW ts \in Nat, NEW step \in Nat \ {0}
  PROVE  /\ SlotAt(ts, step) \in Nat /\ Floor(ts, step) = Begin(SlotAt(ts, step), step)
         /\ Begin(SlotAt(ts, step), step) \in 0 .. ts
         /\ ts < Begin(SlotAt(ts, step), step) + step
<1>1. ts \div step \in Nat /\ step * (ts \div step) <= ts /\ ts < step * (ts \div step) + step
      /\ ts - (ts % step) = step * (ts \div step)
  OBVIOUS
<1>2. step * (ts \div step) \in Nat
  BY <1>1
<1> QED  BY <1>1, <1>2 DEF SlotAt, Begin, Floor

LEMMA SlotBegins ==
  ASSUME NEW slot \in Nat, NEW step \in Nat \ {0}
  PROVE  /\ Begin(slot, step) \in Aligned(step) /\ Begin(slot, step) \in Nat
         /\ SlotAt(Begin(slot, step), step) = slot
         /\ Begin(slot, step) + step = SlotEnd(slot, step)
         /\ Begin(slot, step) = 0 <=> slot = 0
<1>1. step * slot \in Nat /\ (step * slot) % step = 0 /\ (step * slot) \div step = slot
  OBVIOUS
<1>2. step * slot + step = (slot + 1) * step
  OBVIOUS
<1>3. step * slot = 0 <=> slot = 0
  BY <1>1
<1> QED  BY <1>1, <1>2, <1>3 DEF SlotAt, Begin, Aligned, SlotEnd

LEMMA SlotsInOrder ==
  ASSUME NEW step \in Nat \ {0}
  PROVE  /\ \A a \in Nat, b \in Nat : a <= b => SlotAt(a, step) <= SlotAt(b, step)
         /\ \A r \in Nat, s \in Nat : r < s => Begin(r, step) + step <= Begin(s, step)
<1>1. ASSUME NEW a \in Nat, NEW b \in Nat, a <= b PROVE a \div step <= b \div step
  BY <1>1
<1>2. ASSUME NEW r \in Nat, NEW s \in Nat, r < s PROVE step * r + step <= step * s
  <2>1. PICK i \in Nat : s = r + 1 + i
    BY <1>2, r + 1 <= s, s - r - 1 \in Nat, s = r + 1 + (s - r - 1)
  <2>2. step * s = step * r + step + step * i /\ step * i \in Nat /\ step * r \in Nat
    BY <2>1
  <2> QED  BY <2>2
<1> QED  BY <1>1, <1>2 DEF SlotAt, Begin

\* The loop of arch_ingest passes as many slots as lie between.
LEMMA SlotsBetween ==
  ASSUME NEW ts \in Nat, NEW step \in Nat \ {0}, NEW slot \in Nat
  PROVE  /\ (ts - Begin(slot, step)) \div step = SlotAt(ts, step) - slot
         /\ Begin(slot, step) + (SlotAt(ts, step) - slot) * step = Begin(SlotAt(ts, step), step)
<1>1. (ts - step * slot) \div step = (ts \div step) - slot
  OBVIOUS
<1>2. ASSUME NEW q \in Int PROVE step * slot + (q - slot) * step = step * q
  OBVIOUS
<1> QED  BY <1>1, <1>2, SlotTimes DEF SlotAt, Begin

-----------------------------------------------------------------------------
(***************************************************************************)
(* One measurement more (arch_ingest).                                     *)
(***************************************************************************)
More(n) == IF n < MaxSamples THEN n + 1 ELSE n

\* The archive with a value added to its slot, and with a value in a slot of its own.
WithMore(arch, z, v) == [arch EXCEPT !.start = z, !.sum = @ + v, !.samples = More(@)]
WithFirst(arch, z, v) == [arch EXCEPT !.start = z, !.sum = v, !.samples = 1]

Grows(arch, next, step, z, v) ==
  /\ next.count = arch.count /\ next.samples > 0 /\ next.start = z
  /\ Len(Kept(next)) = arch.count + 1
  /\ \A k \in 1 .. arch.count : Kept(next)[k] = Points(arch)[k]
  /\ Kept(next)[arch.count + 1] =
       [ts |-> z + step, sum |-> arch.sum + v, n |-> More(arch.samples)]

\* The slot in progress grows, and may be the first to be started.
LEMMA Grown ==
  ASSUME NEW step \in Nat \ {0}, NEW capacity \in Nat \ {0}, NEW t \in Nat, NEW arch,
         Ring(arch, step, capacity, t), NEW u \in Nat, t <= u, NEW v \in Nat,
         NEW z \in 0 .. u, z \in Aligned(step),
         NEW next, next = WithMore(arch, z, v)
  PROVE  Ring(next, step, capacity, u) /\ Grows(arch, next, step, z, v)
<1>1. /\ arch \in Archives(step, capacity, t)
      /\ arch.step = step /\ arch.capacity = capacity
      /\ arch.points \in [0 .. capacity - 1 -> Point(t)]
      /\ arch.head \in 0 .. capacity - 1 /\ arch.count \in 0 .. capacity
      /\ arch.start \in 0 .. t /\ arch.sum \in Nat /\ arch.samples \in 0 .. MaxSamples
      /\ (arch.count < capacity => arch.head = arch.count)
  BY RingFields
<1>2. More(arch.samples) \in 1 .. MaxSamples
  <2>1. arch.samples \in 0 .. MaxSamples
    BY <1>1
  <2> QED  BY <2>1, Sizes DEF More
<1>3. /\ next.step = step /\ next.capacity = capacity /\ next.points = arch.points
      /\ next.head = arch.head /\ next.count = arch.count
      /\ next.start = z /\ next.sum = arch.sum + v /\ next.samples = More(arch.samples)
  BY <1>1 DEF Archives, WithMore
<1>4. next.points \in [0 .. capacity - 1 -> Point(u)]
  <2>1. \A p \in Point(t) : p \in Point(u)
    BY Sizes DEF Point
  <2> QED  BY <1>1, <1>3, <2>1
<1>5. next \in Archives(step, capacity, u)
  <2>1. More(arch.samples) \in 0 .. MaxSamples /\ arch.sum + v \in Nat
    BY <1>1, <1>2, Sizes
  <2> QED  BY <1>1, <1>3, <1>4, <2>1 DEF Archives, WithMore
<1>6. Ring(next, step, capacity, u)
  BY <1>1, <1>3, <1>5 DEF Ring
<1>7. Points(next) = Points(arch)
  BY <1>3, <1>1 DEF Points
<1>8. Current(next) = [ts |-> z + step, sum |-> arch.sum + v, n |-> More(arch.samples)]
  BY <1>3 DEF Current
<1>9. /\ Len(Kept(next)) = next.count + 1
      /\ \A k \in 1 .. next.count : Kept(next)[k] = Points(next)[k]
      /\ Kept(next)[next.count + 1] = Current(next)
  <2>1. next.samples > 0
    BY <1>2, <1>3
  <2> QED  BY <1>6, <2>1, KeptIndexed
<1> QED  BY <1>2, <1>3, <1>6, <1>7, <1>8, <1>9 DEF Grows

Shifted(kept, next, n, out) == \A k \in 1 .. n - out : next[k] = kept[k + out]

ClosedAndFollowed(arch, next, step, capacity, z, v) ==
  LET out == Leaving(arch, capacity)
  IN  /\ next.count = arch.count + 1 - out /\ next.samples > 0 /\ next.start = z
      /\ Len(Kept(arch)) = arch.count + 1
      /\ Len(Kept(next)) = arch.count + 2 - out
      /\ Shifted(Kept(arch), Kept(next), arch.count + 1, out)
      /\ Kept(next)[arch.count + 2 - out] = [ts |-> z + step, sum |-> v, n |-> 1]

\* The slot in progress is closed, and a slot follows it; when the ring was full
\* the oldest point leaves.
LEMMA Followed ==
  ASSUME NEW step \in Nat \ {0}, NEW capacity \in Nat \ {0}, NEW t \in Nat, NEW arch,
         Ring(arch, step, capacity, t), NEW u \in Nat, t <= u, NEW v \in Nat,
         NEW z \in 0 .. u, z \in Aligned(step), arch.start + step <= z, arch.samples > 0,
         NEW p, p = Push(arch, Current(arch)),
         NEW next, next = WithFirst(p, z, v)
  PROVE  /\ p \in Archives(step, capacity, u)
         /\ Ring(next, step, capacity, u)
         /\ ClosedAndFollowed(arch, next, step, capacity, z, v)
<1> DEFINE out == Leaving(arch, capacity)
<1>0. out = Leaving(arch, capacity)
  OBVIOUS
<1> HIDE DEF out
<1>1. /\ arch \in Archives(step, capacity, t)
      /\ arch.step = step /\ arch.capacity = capacity
      /\ arch.points \in [0 .. capacity - 1 -> Point(t)]
      /\ arch.head \in 0 .. capacity - 1 /\ arch.count \in 0 .. capacity
      /\ arch.start \in 0 .. t /\ arch.sum \in Nat /\ arch.samples \in 0 .. MaxSamples
      /\ arch.start \in Aligned(step) /\ (arch.count < capacity => arch.head = arch.count)
  BY RingFields
<1>2. Ring(arch, step, capacity, u)
  <2>1. \A x \in Point(t) : x \in Point(u)
    BY Sizes DEF Point
  <2>2. arch.points \in [0 .. capacity - 1 -> Point(u)] /\ arch.start \in 0 .. u
    BY <1>1, <2>1
  <2>3. arch \in Archives(step, capacity, u)
    BY <1>1, <2>2 DEF Archives
  <2> QED  BY <1>1, <2>3 DEF Ring
<1>3. Current(arch) \in Point(u)
  <2>1. arch.start + arch.step \in 0 .. u
    BY <1>1
  <2> QED  BY <1>1, <2>1 DEF Current, Point
<1>4. /\ Ring(p, step, capacity, u)
      /\ p.count = arch.count + 1 - out
      /\ \A k \in 1 .. p.count - 1 : Points(p)[k] = Points(arch)[k + out]
      /\ Points(p)[p.count] = Current(arch)
  BY <1>0, <1>2, <1>3, PointPushed
<1>5. /\ p \in Archives(step, capacity, u) /\ p.step = step /\ p.capacity = capacity
      /\ p.points \in [0 .. capacity - 1 -> Point(u)]
      /\ p.head \in 0 .. capacity - 1 /\ p.count \in 0 .. capacity
      /\ (p.count < capacity => p.head = p.count)
  <2>1. Ring(p, step, capacity, u)
    BY <1>4
  <2> QED  BY <2>1 DEF Ring, Archives
<1>6. /\ next.step = step /\ next.capacity = capacity /\ next.points = p.points
      /\ next.head = p.head /\ next.count = p.count
      /\ next.start = z /\ next.sum = v /\ next.samples = 1
  BY <1>5 DEF Archives, WithFirst
<1>7. next \in Archives(step, capacity, u)
  <2>1. 1 \in 0 .. MaxSamples
    BY Sizes
  <2> QED  BY <1>5, <1>6, <2>1 DEF Archives, WithFirst
<1>8. Ring(next, step, capacity, u)
  BY <1>5, <1>6, <1>7 DEF Ring
<1>9. Points(next) = Points(p)
  BY <1>5, <1>6 DEF Points
<1>10. Current(next) = [ts |-> z + step, sum |-> v, n |-> 1]
  BY <1>6 DEF Current
<1>11. /\ Len(Kept(next)) = next.count + 1
       /\ \A k \in 1 .. next.count : Kept(next)[k] = Points(next)[k]
       /\ Kept(next)[next.count + 1] = Current(next)
  <2>1. next.samples > 0
    BY <1>6
  <2> QED  BY <1>8, <2>1, KeptIndexed
<1>12. /\ Len(Kept(arch)) = arch.count + 1
       /\ \A k \in 1 .. arch.count : Kept(arch)[k] = Points(arch)[k]
       /\ Kept(arch)[arch.count + 1] = Current(arch)
  BY <1>2, KeptIndexed
<1>12a. out = IF arch.count < capacity THEN 0 ELSE 1
  BY <1>0 DEF Leaving
<1>13. next.count = arch.count + 1 - out /\ next.count \in Nat /\ arch.count \in Nat /\ out \in {0, 1}
       /\ next.count + 1 = arch.count + 2 - out
  BY <1>1, <1>4, <1>5, <1>6, <1>12a
<1>14. ASSUME NEW k \in 1 .. arch.count + 1 - out PROVE Kept(next)[k] = Kept(arch)[k + out]
  <2>1. Kept(next)[k] = Points(p)[k]
    BY <1>9, <1>11, <1>13
  <2>2. CASE k = next.count
    <3>1. k + out = arch.count + 1
      BY <1>13, <2>2
    <3> QED  BY <1>4, <1>6, <1>12, <2>1, <2>2, <3>1
  <2>3. CASE k # next.count
    <3>1. k \in 1 .. p.count - 1 /\ k + out \in 1 .. arch.count
      BY <1>6, <1>13, <2>3
    <3> QED  BY <1>4, <1>12, <2>1, <3>1
  <2> QED  BY <2>2, <2>3
<1>15. Len(Kept(next)) = arch.count + 2 - out
       /\ Kept(next)[arch.count + 2 - out] = [ts |-> z + step, sum |-> v, n |-> 1]
  BY <1>10, <1>11, <1>13
<1>16. next.count = arch.count + 1 - out /\ next.samples > 0 /\ next.start = z
  BY <1>6, <1>13
<1>17. Shifted(Kept(arch), Kept(next), arch.count + 1, out)
  BY <1>13, <1>14 DEF Shifted
<1> QED  BY <1>0, <1>5, <1>8, <1>12, <1>15, <1>16, <1>17 DEF ClosedAndFollowed

\* A measurement for the slot in progress, or for one that was not started, is
\* added to it.
LEMMA IngestWithin ==
  ASSUME NEW step \in Nat \ {0}, NEW capacity \in Nat \ {0}, NEW t \in Nat,
         NEW arch \in Archives(step, capacity, t), NEW ts \in Nat, NEW v \in Nat,
         NEW z, z = Begin(SlotAt(ts, step), step), arch.start = 0 \/ arch.start = z
  PROVE  Ingest(arch, ts, v) = WithMore(arch, z, v)
<1> DEFINE a == [arch EXCEPT !.start = z]
<1>1. z \in 0 .. ts /\ Floor(ts, step) = z /\ (ts - z) \div step = 0
  <2>1. SlotAt(ts, step) - SlotAt(ts, step) = 0
    BY SlotTimes
  <2> QED  BY <2>1, SlotTimes, SlotsBetween
<1>2. arch.step = step
  BY Fields
<1>3. Started(arch, ts) = a
  BY <1>1, <1>2 DEF Started, Archives
<1>4. a.start = z /\ a.step = step /\ ~(ts < a.start)
  BY <1>1, <1>2 DEF Archives
<1>5. Advance(a, ts) = a
  BY <1>1, <1>4 DEF Advance
<1>6. Ingest(arch, ts, v) = Add(a, v)
  BY <1>3, <1>4, <1>5 DEF Ingest
<1> QED  BY <1>6 DEF Add, More, Archives, WithMore

Cleared(p, z) == [[p EXCEPT !.sum = 0, !.samples = 0] EXCEPT !.start = z]

LEMMA AddFirst ==
  ASSUME NEW step, NEW capacity, NEW u, NEW p \in Archives(step, capacity, u), NEW z, NEW v \in Nat
  PROVE  Add(Cleared(p, z), v) = WithFirst(p, z, v)
<1> DEFINE a == Cleared(p, z)
<1>1. a = [p EXCEPT !.start = z, !.sum = 0, !.samples = 0]
  BY DEF Archives, Cleared
<1>2. a.sum = 0 /\ a.samples = 0
  BY <1>1 DEF Archives
<1>3. 0 + v = v /\ 0 + 1 = 1 /\ 0 < MaxSamples
  BY Sizes
<1> HIDE DEF a
<1>4. Add(a, v) = [a EXCEPT !.sum = v, !.samples = 1]
  BY <1>2, <1>3 DEF Add
<1>5. Add(a, v) = WithFirst(p, z, v)
  BY <1>1, <1>4 DEF Archives, WithFirst
<1> QED  BY <1>5 DEF a

\* A measurement beyond the slot in progress closes it, and starts its own slot.
LEMMA IngestBeyond ==
  ASSUME NEW step \in Nat \ {0}, NEW capacity \in Nat \ {0}, NEW t \in Nat,
         NEW arch \in Archives(step, capacity, t), NEW ts \in Nat, NEW v \in Nat,
         NEW s \in Nat \ {0}, arch.start = Begin(s, step), s < SlotAt(ts, step), arch.samples > 0,
         NEW p, p = Push(arch, Current(arch)),
         NEW u, p \in Archives(step, capacity, u),
         NEW z, z = Begin(SlotAt(ts, step), step)
  PROVE  Ingest(arch, ts, v) = WithFirst(p, z, v)
<1> DEFINE slots == SlotAt(ts, step) - s
<1>1. /\ arch.start \in Nat /\ arch.start # 0 /\ arch.start <= ts
      /\ (ts - arch.start) \div step = slots /\ slots # 0 /\ arch.start + slots * step = z
  <2>1. SlotAt(ts, step) \in Nat /\ z \in 0 .. ts
    BY SlotTimes
  <2>2. arch.start \in Nat /\ arch.start # 0 /\ arch.start + step <= z
    BY <2>1, SlotBegins, SlotsInOrder
  <2>3. (ts - arch.start) \div step = slots /\ arch.start + slots * step = z
    BY SlotsBetween
  <2> HIDE DEF slots
  <2>4. arch.start <= ts
    BY <2>1, <2>2
  <2>5. slots # 0
    BY <2>1 DEF slots
  <2> QED  BY <2>2, <2>3, <2>4, <2>5
<1> HIDE DEF slots
<1>2. arch.step = step /\ ~(ts < arch.start) /\ arch.samples # 0
  BY <1>1, Fields
<1>3. Started(arch, ts) = arch
  BY <1>1 DEF Started
<1>4. Advance(arch, ts) = [Finalize(arch) EXCEPT !.start = z]
  BY <1>1, <1>2 DEF Advance
<1>5. Finalize(arch) = [p EXCEPT !.sum = 0, !.samples = 0]
  BY <1>2 DEF Finalize
<1>6. Ingest(arch, ts, v) = Add(Cleared(p, z), v)
  BY <1>2, <1>3, <1>4, <1>5 DEF Ingest, Cleared
<1> QED  BY <1>6, AddFirst

LEMMA KeptGrows ==
  ASSUME NEW step \in Nat \ {0}, NEW capacity \in Nat \ {0}, NEW t \in Nat, NEW arch,
         Ring(arch, step, capacity, t), NEW ts \in Nat, t <= ts, NEW v \in Nat,
         NEW z, z = Begin(SlotAt(ts, step), step), arch.start = 0 \/ arch.start = z,
         NEW next, next = Ingest(arch, ts, v)
  PROVE  Ring(next, step, capacity, ts) /\ Grows(arch, next, step, z, v)
<1>1. z \in 0 .. ts /\ z \in Aligned(step)
  BY SlotTimes, SlotBegins
<1>2. next = WithMore(arch, z, v)
  BY IngestWithin DEF Ring
<1> QED  BY <1>1, <1>2, Grown

LEMMA KeptFollows ==
  ASSUME NEW step \in Nat \ {0}, NEW capacity \in Nat \ {0}, NEW t \in Nat, NEW arch,
         Ring(arch, step, capacity, t), NEW ts \in Nat, t <= ts, NEW v \in Nat,
         NEW s \in Nat \ {0}, arch.start = Begin(s, step), s < SlotAt(ts, step),
         NEW z, z = Begin(SlotAt(ts, step), step),
         arch.samples > 0,
         NEW next, next = Ingest(arch, ts, v)
  PROVE  /\ Ring(next, step, capacity, ts)
         /\ ClosedAndFollowed(arch, next, step, capacity, z, v)
<1>1. PICK p : p = Push(arch, Current(arch))
  OBVIOUS
<1>2. PICK after : after = WithFirst(p, z, v)
  OBVIOUS
<1>3. z \in 0 .. ts /\ z \in Aligned(step) /\ arch.start + step <= z
  BY SlotTimes, SlotBegins, SlotsInOrder
<1>4. /\ p \in Archives(step, capacity, ts)
      /\ Ring(after, step, capacity, ts)
      /\ ClosedAndFollowed(arch, after, step, capacity, z, v)
  BY <1>1, <1>2, <1>3, Followed
<1>5. next = after
  BY <1>1, <1>2, <1>4, IngestBeyond DEF Ring
<1> QED  BY <1>4, <1>5

-----------------------------------------------------------------------------
(***************************************************************************)
(* The slots of a list of measurements.                                    *)
(***************************************************************************)
Entries == [ts : Nat, v : Nat, total : Nat]

\* Measurements are stamped in the order in which they are sent.
Ordered(log, t) ==
  /\ log \in Seq(Entries)
  /\ \A k \in 1 .. Len(log) : log[k].ts <= t
  /\ \A j, k \in 1 .. Len(log) : j <= k => log[j].ts <= log[k].ts

LEMMA EntryFields ==
  ASSUME NEW log \in Seq(Entries), NEW k \in 1 .. Len(log)
  PROVE  log[k] \in Entries /\ log[k].ts \in Nat /\ log[k].v \in Nat /\ log[k].total \in Nat
<1>1. log[k] \in Entries
  OBVIOUS
<1> QED  BY <1>1 DEF Entries

\* The slot a measurement counts in: that of the first measurement after the slot
\* of boot, if it was made before.
Late(log, step) == {k \in 1 .. Len(log) : log[k].ts >= step}

CountsIn(log, k, step) ==
  (IF log[k].ts < step /\ Late(log, step) # {} THEN log[FirstOf(Late(log, step))].ts
   ELSE log[k].ts) \div step

CountSlots(log, step) == {CountsIn(log, k, step) : k \in 1 .. Len(log)}
CountIn(log, slot, step) == {k \in 1 .. Len(log) : CountsIn(log, k, step) = slot}

CountMean(log, slot, step) ==
  LET in == CountIn(log, slot, step)
      first == log[FirstOf(in)]
      n == Cardinality(in)
  IN  [ts |-> SlotEnd(slot, step),
       sum |-> log[LastOf(in)].total - first.total + first.v,
       n |-> IF n > MaxSamples THEN MaxSamples ELSE n]

CountMatches(arch, log, step, capacity) ==
  LET kept == Kept(arch)
      slots == CountSlots(log, step)
  IN  /\ \A slot \in slots : Consecutive(CountIn(log, slot, step))
      /\ \A k \in 1 .. Len(kept) : \E slot \in slots : kept[k] = CountMean(log, slot, step)
      /\ \A k \in 1 .. Len(kept) - 1 : kept[k].ts < kept[k + 1].ts
      /\ \A slot \in slots :
           \/ \E k \in 1 .. Len(kept) : kept[k].ts = SlotEnd(slot, step)
           \/ Len(kept) > capacity /\ SlotEnd(slot, step) < kept[1].ts

LEMMA SlotEnds ==
  ASSUME NEW step \in Nat \ {0}
  PROVE  /\ \A s \in Nat : SlotEnd(s, step) \in Nat
         /\ \A r \in Nat, s \in Nat : r < s => SlotEnd(r, step) < SlotEnd(s, step)
         /\ \A r \in Nat, s \in Nat : SlotEnd(r, step) = SlotEnd(s, step) => r = s
<1>1. ASSUME NEW s \in Nat PROVE SlotEnd(s, step) \in Nat /\ SlotEnd(s, step) = Begin(s, step) + step
                                 /\ Begin(s, step) \in Nat
  <2>1. Begin(s, step) \in Nat /\ SlotEnd(s, step) = Begin(s, step) + step
    BY SlotBegins
  <2> QED  BY <2>1
<1>2. ASSUME NEW r \in Nat, NEW s \in Nat, r < s PROVE SlotEnd(r, step) < SlotEnd(s, step)
  <2>1. Begin(r, step) + step <= Begin(s, step)
    BY <1>2, SlotsInOrder
  <2> QED  BY <1>1, <2>1
<1>3. ASSUME NEW r \in Nat, NEW s \in Nat, SlotEnd(r, step) = SlotEnd(s, step) PROVE r = s
  <2>1. ~(r < s) /\ ~(s < r)
    BY <1>1, <1>2, <1>3
  <2> QED  BY <2>1
<1> QED  BY <1>1, <1>2, <1>3

\* The measurement whose time decides on the slot.
LEMMA CountsInAt ==
  ASSUME NEW log, NEW k, NEW step
  PROVE  CountsIn(log, k, step) =
           SlotAt(IF log[k].ts < step /\ Late(log, step) # {}
                  THEN log[FirstOf(Late(log, step))].ts ELSE log[k].ts, step)
  BY DEF CountsIn, SlotAt

\* Without late measurements there is one slot.
LEMMA OneSlot ==
  ASSUME NEW step \in Nat \ {0}, NEW t \in Nat, NEW log, Ordered(log, t), Late(log, step) = {},
         NEW k \in 1 .. Len(log)
  PROVE  CountsIn(log, k, step) = 0
<1>1. log[k].ts \in Nat /\ log[k].ts < step
  <2>1. log[k].ts \in Nat
    BY EntryFields DEF Ordered
  <2>2. ~(log[k].ts >= step)
    BY DEF Late
  <2> QED  BY <2>1, <2>2
<1>2. log[k].ts \div step = 0
  BY <1>1
<1> QED  BY <1>2, CountsInAt DEF SlotAt

\* With late measurements the slot is that of the first of them, or of a later one.
LEMMA LateSlots ==
  ASSUME NEW step \in Nat \ {0}, NEW t \in Nat, NEW log, Ordered(log, t), Late(log, step) # {}
  PROVE  LET f == FirstOf(Late(log, step))
         IN  /\ f \in 1 .. Len(log) /\ log[f].ts >= step
             /\ \A k \in 1 .. Len(log) :
                  /\ k < f => log[k].ts < step
                  /\ k >= f => log[k].ts >= step
                  /\ CountsIn(log, k, step) = SlotAt(IF k < f THEN log[f].ts ELSE log[k].ts, step)
<1> DEFINE f == FirstOf(Late(log, step))
<1>1. log \in Seq(Entries) /\ Len(log) \in Nat
  BY DEF Ordered
<1>2. Late(log, step) \subseteq 1 .. Len(log)
  BY DEF Late
<1>3. f \in Late(log, step) /\ \A j \in Late(log, step) : f <= j
  BY <1>1, <1>2, FirstAndLast
<1>4. f \in 1 .. Len(log) /\ log[f].ts >= step
  BY <1>3 DEF Late
<1> HIDE DEF f
<1>5. ASSUME NEW k \in 1 .. Len(log)
      PROVE  /\ k < f => log[k].ts < step
             /\ k >= f => log[k].ts >= step
  <2>1. log[k].ts \in Nat /\ log[f].ts \in Nat
    BY <1>1, <1>4, EntryFields
  <2>2. CASE k < f
    <3>1. k \notin Late(log, step)
      BY <1>3, <1>4, <2>2
    <3>2. ~(log[k].ts >= step)
      BY <3>1 DEF Late
    <3> QED  BY <2>1, <2>2, <3>2, <1>4
  <2>3. CASE k >= f
    <3>1. log[f].ts <= log[k].ts
      BY <1>4, <2>3 DEF Ordered
    <3> QED  BY <2>1, <2>3, <3>1, <1>4
  <2> QED  BY <1>4, <2>2, <2>3
<1>6. ASSUME NEW k \in 1 .. Len(log)
      PROVE  CountsIn(log, k, step) = SlotAt(IF k < f THEN log[f].ts ELSE log[k].ts, step)
  <2>1. log[k].ts < step <=> k < f
    <3>1. log[k].ts \in Nat
      BY <1>1, EntryFields
    <3> QED  BY <1>4, <1>5, <3>1
  <2> QED  BY <2>1, CountsInAt DEF f
<1> QED  BY <1>4, <1>5, <1>6 DEF f

\* The slots are in the order of the measurements.
LEMMA SlotsRise ==
  ASSUME NEW step \in Nat \ {0}, NEW t \in Nat, NEW log, Ordered(log, t)
  PROVE  /\ \A k \in 1 .. Len(log) : CountsIn(log, k, step) \in Nat
         /\ \A j, k \in 1 .. Len(log) : j <= k => CountsIn(log, j, step) <= CountsIn(log, k, step)
<1>1. CASE Late(log, step) = {}
  <2>1. \A k \in 1 .. Len(log) : CountsIn(log, k, step) = 0
    BY <1>1, OneSlot
  <2> QED  BY <2>1
<1>2. CASE Late(log, step) # {}
  <2> DEFINE f == FirstOf(Late(log, step))
             at(k) == IF k < f THEN log[f].ts ELSE log[k].ts
  <2>1. f \in 1 .. Len(log) /\ \A k \in 1 .. Len(log) : CountsIn(log, k, step) = SlotAt(at(k), step)
    BY <1>2, LateSlots
  <2> HIDE DEF f
  <2>2. \A k \in 1 .. Len(log) : log[k].ts \in Nat
    BY EntryFields DEF Ordered
  <2>3. \A k \in 1 .. Len(log) : at(k) \in Nat
    BY <2>1, <2>2
  <2>4. ASSUME NEW j \in 1 .. Len(log), NEW k \in 1 .. Len(log), j <= k PROVE at(j) <= at(k)
    <3>1. f <= k => log[f].ts <= log[k].ts
      BY <2>1 DEF Ordered
    <3>2. log[j].ts <= log[k].ts
      BY <2>4 DEF Ordered
    <3> QED  BY <2>1, <2>2, <2>4, <3>1, <3>2
  <2> HIDE DEF at
  <2>5. \A k \in 1 .. Len(log) : SlotAt(at(k), step) \in Nat
    BY <2>3, SlotTimes
  <2>6. \A j, k \in 1 .. Len(log) : j <= k => SlotAt(at(j), step) <= SlotAt(at(k), step)
    BY <2>3, <2>4, SlotsInOrder
  <2> QED  BY <2>1, <2>5, <2>6
<1> QED  BY <1>1, <1>2

\* The measurements of a slot follow one another; those of the last slot reach to
\* the end.
LEMMA SlotSpans ==
  ASSUME NEW step \in Nat \ {0}, NEW t \in Nat, NEW log, Ordered(log, t),
         NEW slot \in CountSlots(log, step)
  PROVE  /\ CountIn(log, slot, step) # {} /\ CountIn(log, slot, step) \subseteq 1 .. Len(log)
         /\ Consecutive(CountIn(log, slot, step))
         /\ FirstOf(CountIn(log, slot, step)) \in 1 .. Len(log)
         /\ LastOf(CountIn(log, slot, step)) \in 1 .. Len(log)
         /\ FirstOf(CountIn(log, slot, step)) <= LastOf(CountIn(log, slot, step))
<1> DEFINE in == CountIn(log, slot, step)
           a == FirstOf(in)
           b == LastOf(in)
<1>1. in \subseteq 1 .. Len(log) /\ in # {} /\ Len(log) \in Nat
  <2>1. Len(log) \in Nat
    BY DEF Ordered
  <2> QED  BY <2>1 DEF CountIn, CountSlots
<1> HIDE DEF in
<1>2. a \in in /\ b \in in /\ \A j \in in : a <= j /\ j <= b
  BY <1>1, FirstAndLast
<1> HIDE DEF a, b
<1>3. CountsIn(log, a, step) = slot /\ CountsIn(log, b, step) = slot /\ a \in 1 .. Len(log) /\ b \in 1 .. Len(log)
  BY <1>2 DEF CountIn, in
<1>4. ASSUME NEW j \in a .. b PROVE j \in in
  <2>1. j \in 1 .. Len(log) /\ a <= j /\ j <= b
    BY <1>1, <1>3
  <2>2. /\ CountsIn(log, a, step) <= CountsIn(log, j, step)
        /\ CountsIn(log, j, step) <= CountsIn(log, b, step)
        /\ CountsIn(log, j, step) \in Nat /\ CountsIn(log, a, step) \in Nat
    BY <1>3, <2>1, SlotsRise
  <2>3. CountsIn(log, j, step) = slot
    BY <1>3, <2>2
  <2> QED  BY <2>1, <2>3 DEF CountIn, in
<1>5. in = a .. b
  <2>1. ASSUME NEW j \in in PROVE j \in a .. b
    <3>1. j \in 1 .. Len(log) /\ a <= j /\ j <= b
      BY <1>1, <1>2
    <3> QED  BY <1>1, <1>3, <3>1
  <2> QED  BY <1>4, <2>1
<1>6. Consecutive(in)
  BY <1>5 DEF Consecutive, a, b
<1> QED  BY <1>1, <1>2, <1>3, <1>6 DEF in, a, b

-----------------------------------------------------------------------------
(***************************************************************************)
(* A measurement more in the list.                                         *)
(***************************************************************************)
\* The list with one measurement more, which is not older than the others.
Extends(more, log, ts, v) ==
  more = Append(log, [ts |-> ts, v |-> v, total |-> Total(log) + v])

Prefix(log, more) == \A k \in 1 .. Len(log) : more[k] = log[k]

LEMMA MoreInList ==
  ASSUME NEW t \in Nat, NEW log, Ordered(log, t), NEW ts \in Nat, t <= ts, NEW v \in Nat,
         NEW more, Extends(more, log, ts, v)
  PROVE  /\ Ordered(more, ts) /\ Len(log) \in Nat /\ Len(more) = Len(log) + 1
         /\ Prefix(log, more)
         /\ more[Len(log) + 1].ts = ts /\ more[Len(log) + 1].v = v
         /\ more[Len(log) + 1].total = Total(log) + v
         /\ Total(log) \in Nat
<1> DEFINE n == Len(log)
           e == [ts |-> ts, v |-> v, total |-> Total(log) + v]
<1>1. log \in Seq(Entries) /\ n \in Nat
  BY DEF Ordered
<1>2. Total(log) \in Nat
  <2>1. CASE log = <<>>
    BY <2>1 DEF Total
  <2>2. CASE log # <<>>
    <3>1. n \in 1 .. n
      BY <1>1, <2>2
    <3>2. log[n].total \in Nat
      BY <1>1, <3>1, EntryFields
    <3> QED  BY <2>2, <3>2 DEF Total
  <2> QED  BY <2>1, <2>2
<1>3. e \in Entries /\ e.ts = ts /\ e.v = v /\ e.total = Total(log) + v
  BY <1>2 DEF Entries
<1>4. more = Append(log, e)
  BY DEF Extends
<1> HIDE DEF e
<1>5. more \in Seq(Entries) /\ Len(more) = n + 1 /\ (\A k \in 1 .. n : more[k] = log[k]) /\ more[n + 1] = e
  BY <1>1, <1>3, <1>4
<1>6. \A k \in 1 .. n : log[k].ts \in Nat /\ log[k].ts <= t
  BY <1>1, EntryFields DEF Ordered
<1>7. ASSUME NEW k \in 1 .. Len(more) PROVE more[k].ts <= ts
  BY <1>1, <1>3, <1>5, <1>6
<1>8. ASSUME NEW j \in 1 .. Len(more), NEW k \in 1 .. Len(more), j <= k
      PROVE  more[j].ts <= more[k].ts
  <2>1. CASE k \in 1 .. n
    <3>1. j \in 1 .. n
      BY <1>1, <1>8, <2>1
    <3> QED  BY <1>5, <1>8, <2>1, <3>1 DEF Ordered
  <2>2. CASE k = n + 1
    BY <1>3, <1>5, <1>7, <2>2
  <2> QED  BY <1>1, <1>5, <2>1, <2>2
<1>9. Ordered(more, ts)
  BY <1>5, <1>7, <1>8 DEF Ordered
<1> QED  BY <1>1, <1>2, <1>3, <1>5, <1>9 DEF Prefix

\* As long as no measurement was late all are in one slot, which is that of the
\* new one.
LEMMA StillOneSlot ==
  ASSUME NEW step \in Nat \ {0}, NEW t \in Nat, NEW log, Ordered(log, t), Late(log, step) = {},
         NEW ts \in Nat, t <= ts, NEW v \in Nat, NEW more, Extends(more, log, ts, v),
         NEW k \in 1 .. Len(more)
  PROVE  CountsIn(more, k, step) = SlotAt(ts, step)
<1> DEFINE n == Len(log)
<1>1. /\ Ordered(more, ts) /\ n \in Nat /\ Len(more) = n + 1
      /\ \A i \in 1 .. n : more[i] = log[i]
      /\ more[n + 1].ts = ts
  BY MoreInList DEF Prefix
<1>2. ASSUME NEW i \in 1 .. n PROVE i \notin Late(more, step)
  <2>1. i \notin Late(log, step)
    OBVIOUS
  <2>2. ~(log[i].ts >= step)
    BY <2>1 DEF Late
  <2> QED  BY <1>1, <2>2 DEF Late
<1>3. CASE Late(more, step) = {}
  <2>1. CountsIn(more, k, step) = 0 /\ CountsIn(more, n + 1, step) = 0
    BY <1>1, <1>3, OneSlot
  <2>2. CountsIn(more, n + 1, step) = SlotAt(ts, step)
    BY <1>1, <1>3, CountsInAt
  <2> QED  BY <2>1, <2>2
<1>4. CASE Late(more, step) # {}
  <2> DEFINE f == FirstOf(Late(more, step))
  <2>1. /\ f \in 1 .. Len(more) /\ more[f].ts >= step
        /\ CountsIn(more, k, step) = SlotAt(IF k < f THEN more[f].ts ELSE more[k].ts, step)
    BY <1>1, <1>4, LateSlots
  <2> HIDE DEF f
  <2>2. f \in Late(more, step)
    BY <2>1 DEF Late
  <2>3. f = n + 1
    BY <1>1, <1>2, <2>1, <2>2
  <2>4. (IF k < f THEN more[f].ts ELSE more[k].ts) = ts
    BY <1>1, <2>3
  <2> QED  BY <2>1, <2>4
<1> QED  BY <1>3, <1>4

\* Once there was a late one, the others stay where they are.
LEMMA SlotsStay ==
  ASSUME NEW step \in Nat \ {0}, NEW t \in Nat, NEW log, Ordered(log, t), Late(log, step) # {},
         NEW ts \in Nat, t <= ts, NEW v \in Nat, NEW more, Extends(more, log, ts, v)
  PROVE  /\ Late(more, step) # {}
         /\ \A k \in 1 .. Len(log) : CountsIn(more, k, step) = CountsIn(log, k, step)
         /\ CountsIn(more, Len(log) + 1, step) = SlotAt(ts, step)
         /\ CountsIn(more, Len(more), step) = SlotAt(ts, step)
<1> DEFINE n == Len(log)
           f == FirstOf(Late(log, step))
           g == FirstOf(Late(more, step))
<1>1. /\ Ordered(more, ts) /\ n \in Nat /\ Len(more) = n + 1
      /\ \A k \in 1 .. n : more[k] = log[k]
      /\ more[n + 1].ts = ts
  BY MoreInList DEF Prefix
<1>2. /\ f \in 1 .. n /\ log[f].ts >= step
      /\ \A k \in 1 .. n :
           /\ k < f => log[k].ts < step
           /\ k >= f => log[k].ts >= step
           /\ CountsIn(log, k, step) = SlotAt(IF k < f THEN log[f].ts ELSE log[k].ts, step)
  BY LateSlots
<1> HIDE DEF f
<1>3. f \in Late(more, step)
  BY <1>1, <1>2 DEF Late
<1>4. /\ g \in 1 .. n + 1 /\ more[g].ts >= step
      /\ \A k \in 1 .. n + 1 :
           /\ k < g => more[k].ts < step
           /\ k >= g => more[k].ts >= step
           /\ CountsIn(more, k, step) = SlotAt(IF k < g THEN more[g].ts ELSE more[k].ts, step)
  BY <1>1, <1>3, LateSlots
<1> HIDE DEF g
<1>5. \A k \in 1 .. n : log[k].ts \in Nat
  BY EntryFields DEF Ordered
<1>6. g = f
  <2>1. ~(f < g)
    BY <1>1, <1>2, <1>4, <1>5
  <2>2. ~(g < f)
    BY <1>1, <1>2, <1>4, <1>5
  <2> QED  BY <1>1, <1>2, <1>4, <2>1, <2>2
<1>7. ASSUME NEW k \in 1 .. n PROVE CountsIn(more, k, step) = CountsIn(log, k, step)
  <2>1. (IF k < g THEN more[g].ts ELSE more[k].ts) = (IF k < f THEN log[f].ts ELSE log[k].ts)
    BY <1>1, <1>2, <1>6
  <2>2. k \in 1 .. n + 1
    BY <1>1
  <2> QED  BY <1>2, <1>4, <2>1, <2>2
<1>8. CountsIn(more, n + 1, step) = SlotAt(ts, step)
  <2>1. n + 1 \in 1 .. n + 1 /\ ~(n + 1 < g)
    BY <1>1, <1>2, <1>6
  <2>2. (IF n + 1 < g THEN more[g].ts ELSE more[n + 1].ts) = ts
    BY <1>1, <2>1
  <2> QED  BY <1>4, <2>1, <2>2
<1> QED  BY <1>1, <1>3, <1>7, <1>8

-----------------------------------------------------------------------------
(***************************************************************************)
(* The means of the slots.                                                 *)
(***************************************************************************)
Counted(n) == IF n > MaxSamples THEN MaxSamples ELSE n

Mean(log, a, b, slot, step) ==
  [ts |-> SlotEnd(slot, step), sum |-> log[b].total - log[a].total + log[a].v,
   n |-> Counted(b - a + 1)]

LEMMA MeanOfSpan ==
  ASSUME NEW log, NEW slot, NEW step, NEW a \in Nat \ {0}, NEW b \in Nat, a <= b,
         CountIn(log, slot, step) = a .. b
  PROVE  CountMean(log, slot, step) = Mean(log, a, b, slot, step)
<1>1. FirstOf(CountIn(log, slot, step)) = a /\ LastOf(CountIn(log, slot, step)) = b
      /\ Cardinality(CountIn(log, slot, step)) = b - a + 1
  BY SpanEnds
<1> QED  BY <1>1 DEF CountMean, Mean, Counted

Taking(mean, slot, step, v) ==
  [ts |-> SlotEnd(slot, step), sum |-> mean.sum + v, n |-> More(mean.n)]

\* A mean that takes in one measurement more.
LEMMA MeanTakes ==
  ASSUME NEW t \in Nat, NEW log, Ordered(log, t), NEW ts \in Nat, t <= ts, NEW v \in Nat,
         NEW more, Extends(more, log, ts, v), NEW step, NEW slot, NEW later,
         NEW a \in 1 .. Len(log),
         CountIn(log, slot, step) = a .. Len(log), CountIn(more, later, step) = a .. Len(log) + 1
  PROVE  CountMean(more, later, step) = Taking(CountMean(log, slot, step), later, step, v)
<1> DEFINE n == Len(log)
<1>1. /\ n \in Nat /\ n >= 1 /\ a \in 1 .. n /\ a \in Nat \ {0} /\ a <= n /\ a <= n + 1
      /\ n + 1 \in Nat /\ Len(more) = n + 1
      /\ more[a] = log[a]
      /\ more[n + 1].total = Total(log) + v
  <2>1. n \in Nat /\ Len(more) = n + 1 /\ Prefix(log, more) /\ more[n + 1].total = Total(log) + v
    BY MoreInList
  <2> QED  BY <2>1 DEF Prefix
<1>2. /\ log[a].total \in Nat /\ log[a].v \in Nat /\ log[n].total \in Nat
      /\ Total(log) = log[n].total
  <2>1. n \in 1 .. n /\ log # <<>>
    BY <1>1
  <2>2. log \in Seq(Entries)
    BY DEF Ordered
  <2> QED  BY <2>1, <2>2, EntryFields DEF Total
<1>3. CountMean(log, slot, step) = Mean(log, a, n, slot, step)
  BY <1>1, MeanOfSpan
<1>4. CountMean(more, later, step) = Mean(more, a, n + 1, later, step)
  BY <1>1, MeanOfSpan
<1>5. more[n + 1].total - more[a].total + more[a].v = (log[n].total - log[a].total + log[a].v) + v
  BY <1>1, <1>2
<1>6. Counted(n + 1 - a + 1) = More(Counted(n - a + 1))
  BY <1>1, Sizes DEF Counted, More
<1>7. CountMean(log, slot, step).sum = log[n].total - log[a].total + log[a].v
      /\ CountMean(log, slot, step).n = Counted(n - a + 1)
  BY <1>3 DEF Mean
<1> QED  BY <1>4, <1>5, <1>6, <1>7 DEF Mean, Taking

\* The mean of a single measurement.
LEMMA MeanStarts ==
  ASSUME NEW t \in Nat, NEW log, Ordered(log, t), NEW ts \in Nat, t <= ts, NEW v \in Nat,
         NEW more, Extends(more, log, ts, v), NEW step, NEW slot,
         CountIn(more, slot, step) = {Len(log) + 1}
  PROVE  CountMean(more, slot, step) = [ts |-> SlotEnd(slot, step), sum |-> v, n |-> 1]
<1> DEFINE k == Len(log) + 1
<1>1. k \in Nat \ {0} /\ k \in Nat /\ k <= k /\ more[k].v = v /\ more[k].total \in Nat
  BY MoreInList
<1> HIDE DEF k
<1>2. CountIn(more, slot, step) = k .. k
  BY <1>1 DEF k
<1>3. CountMean(more, slot, step) = Mean(more, k, k, slot, step)
  BY <1>1, <1>2, MeanOfSpan
<1>4. more[k].total - more[k].total + more[k].v = v /\ Counted(k - k + 1) = 1
  BY <1>1, Sizes DEF Counted
<1> QED  BY <1>3, <1>4 DEF Mean

MeansKept(log, more, step, q) ==
  \A slot \in CountSlots(log, step) \ {q} : CountMean(more, slot, step) = CountMean(log, slot, step)

\* The means of the other slots stay.
LEMMA MeansStay ==
  ASSUME NEW step \in Nat \ {0}, NEW t \in Nat, NEW log, Ordered(log, t), Late(log, step) # {},
         NEW ts \in Nat, t <= ts, NEW v \in Nat, NEW more, Extends(more, log, ts, v)
  PROVE  /\ CountSlots(more, step) = CountSlots(log, step) \cup {SlotAt(ts, step)}
         /\ CountIn(more, SlotAt(ts, step), step) = CountIn(log, SlotAt(ts, step), step) \cup {Len(log) + 1}
         /\ MeansKept(log, more, step, SlotAt(ts, step))
<1> DEFINE n == Len(log)
           q == SlotAt(ts, step)
<1>1. /\ n \in Nat /\ Len(more) = n + 1 /\ \A k \in 1 .. n : more[k] = log[k]
  <2>1. n \in Nat /\ Len(more) = n + 1 /\ Prefix(log, more)
    BY MoreInList, SMTT(60)
  <2> QED  BY <2>1 DEF Prefix
<1>2. /\ \A k \in 1 .. n : CountsIn(more, k, step) = CountsIn(log, k, step)
      /\ CountsIn(more, n + 1, step) = q
  BY SlotsStay
<1>3. 1 .. n + 1 = (1 .. n) \cup {n + 1} /\ n + 1 \notin 1 .. n
  BY <1>1
<1> HIDE DEF q
<1>4. CountSlots(more, step) = CountSlots(log, step) \cup {q}
  BY <1>1, <1>2, <1>3 DEF CountSlots
<1>5. CountIn(more, q, step) = CountIn(log, q, step) \cup {n + 1}
  BY <1>1, <1>2, <1>3 DEF CountIn
<1>6. ASSUME NEW slot \in CountSlots(log, step), slot # q
      PROVE  CountMean(more, slot, step) = CountMean(log, slot, step)
  <2> DEFINE in == CountIn(log, slot, step)
  <2>1. CountIn(more, slot, step) = in
    BY <1>1, <1>2, <1>3, <1>6 DEF CountIn
  <2>2. FirstOf(in) \in 1 .. n /\ LastOf(in) \in 1 .. n
    BY SlotSpans
  <2>3. more[FirstOf(in)] = log[FirstOf(in)] /\ more[LastOf(in)] = log[LastOf(in)]
    BY <1>1, <2>2
  <2> QED  BY <2>1, <2>3 DEF CountMean
<1> QED  BY <1>4, <1>5, <1>6 DEF MeansKept, q

-----------------------------------------------------------------------------
(***************************************************************************)
(* What is kept are the means of the newest slots.                         *)
(***************************************************************************)
\* Like Matches, with the order of any two points.
KeptRight(kept, log, step, capacity) ==
  /\ \A k \in 1 .. Len(kept) : \E slot \in CountSlots(log, step) : kept[k] = CountMean(log, slot, step)
  /\ \A j, k \in 1 .. Len(kept) : j < k => kept[j].ts < kept[k].ts
  /\ \A slot \in CountSlots(log, step) :
       \/ \E k \in 1 .. Len(kept) : kept[k].ts = SlotEnd(slot, step)
       \/ Len(kept) > capacity /\ SlotEnd(slot, step) < kept[1].ts

\* The newest slot's mean is replaced.
LEMMA NewestReplaced ==
  ASSUME NEW step \in Nat \ {0}, NEW capacity \in Nat, NEW log, NEW more,
         NEW kept \in Seq(Points3), NEW next \in Seq(Points3), NEW n \in Nat \ {0},
         Len(kept) = n, Len(next) = n, NEW q \in Nat,
         CountSlots(log, step) \subseteq Nat, CountSlots(more, step) = CountSlots(log, step), q \in CountSlots(log, step),
         MeansKept(log, more, step, q),
         \A k \in 1 .. n - 1 : next[k] = kept[k],
         kept[n] = CountMean(log, q, step), next[n] = CountMean(more, q, step),
         KeptRight(kept, log, step, capacity)
  PROVE  KeptRight(next, more, step, capacity)
<1>1. \A slot : CountMean(log, slot, step).ts = SlotEnd(slot, step)
                /\ CountMean(more, slot, step).ts = SlotEnd(slot, step)
  BY DEF CountMean
<1>2. \A k \in 1 .. n : next[k].ts = kept[k].ts
  <2>1. next[n].ts = kept[n].ts
    BY <1>1
  <2> QED  BY <2>1
<1>3. ASSUME NEW k \in 1 .. n
      PROVE  \E slot \in CountSlots(more, step) : next[k] = CountMean(more, slot, step)
  <2>1. CASE k = n
    BY <2>1
  <2>2. CASE k # n
    <3>1. PICK slot \in CountSlots(log, step) : kept[k] = CountMean(log, slot, step)
      BY DEF KeptRight
    <3>2. kept[k].ts < kept[n].ts
      <4>1. k \in 1 .. n /\ n \in 1 .. n /\ k < n
        BY <2>2
      <4> QED  BY <4>1 DEF KeptRight
    <3>3. kept[k].ts \in Nat
      <4>1. kept[k] \in Points3
        OBVIOUS
      <4> QED  BY <4>1 DEF Points3
    <3>4. slot # q
      BY <3>1, <3>2, <3>3
    <3>5. next[k] = kept[k]
      BY <2>2
    <3> QED  BY <3>1, <3>4, <3>5 DEF MeansKept
  <2> QED  BY <2>1, <2>2
<1>4. ASSUME NEW slot \in CountSlots(more, step)
      PROVE  \/ \E k \in 1 .. n : next[k].ts = SlotEnd(slot, step)
             \/ n > capacity /\ SlotEnd(slot, step) < next[1].ts
  <2>1. \/ \E k \in 1 .. n : kept[k].ts = SlotEnd(slot, step)
        \/ n > capacity /\ SlotEnd(slot, step) < kept[1].ts
    BY DEF KeptRight
  <2>2. next[1].ts = kept[1].ts
    BY <1>2
  <2> QED  BY <1>2, <2>1, <2>2
<1>5. \A j, k \in 1 .. n : j < k => next[j].ts < next[k].ts
  BY <1>2 DEF KeptRight
<1> QED  BY <1>3, <1>4, <1>5 DEF KeptRight

\* A slot is added behind all others.
Joins(log, more, step, s, q) ==
  /\ CountSlots(log, step) \subseteq Nat /\ CountSlots(more, step) = CountSlots(log, step) \cup {q}
  /\ \A slot \in CountSlots(log, step) : slot <= s
  /\ MeansKept(log, more, step, q)

Fits(n, out, capacity) == (out = 1 => n = capacity + 1) /\ (out = 0 => n <= capacity)

\* A mean is added, and the oldest may leave when there are more than fit.
Adds(kept, next, n, out, log, more, step, s, q, capacity) ==
  /\ kept \in Seq(Points3) /\ next \in Seq(Points3)
  /\ n \in Nat \ {0} /\ Len(kept) = n /\ Len(next) = n + 1 - out
  /\ out \in {0, 1} /\ Fits(n, out, capacity)
  /\ q \in Nat /\ s \in Nat /\ s < q /\ Joins(log, more, step, s, q)
  /\ Shifted(kept, next, n, out)
  /\ kept[n] = CountMean(log, s, step) /\ next[n + 1 - out] = CountMean(more, q, step)
  /\ KeptRight(kept, log, step, capacity)

LEMMA NewestAdded ==
  ASSUME NEW step \in Nat \ {0}, NEW capacity \in Nat \ {0}, NEW log, NEW more,
         NEW kept, NEW next, NEW n, NEW out, NEW q, NEW s,
         Adds(kept, next, n, out, log, more, step, s, q, capacity)
  PROVE  KeptRight(next, more, step, capacity)
<1> SUFFICES ASSUME kept \in Seq(Points3), next \in Seq(Points3), n \in Nat \ {0},
                    Len(kept) = n, Len(next) = n + 1 - out, out \in {0, 1}, Fits(n, out, capacity),
                    q \in Nat, s \in Nat, s < q, Joins(log, more, step, s, q),
                    Shifted(kept, next, n, out),
                    kept[n] = CountMean(log, s, step), next[n + 1 - out] = CountMean(more, q, step),
                    KeptRight(kept, log, step, capacity)
             PROVE  KeptRight(next, more, step, capacity)
  BY DEF Adds
<1> DEFINE m == n + 1 - out
<1>0. /\ (out = 1 => n = capacity + 1) /\ (out = 0 => n <= capacity)
      /\ CountSlots(log, step) \subseteq Nat /\ CountSlots(more, step) = CountSlots(log, step) \cup {q}
      /\ \A slot \in CountSlots(log, step) : slot <= s
      /\ MeansKept(log, more, step, q)
  BY DEF Fits, Joins
<1>1. /\ m \in Nat \ {0} /\ Len(next) = m /\ 1 .. m = (1 .. n - out) \cup {m}
      /\ n - out \in Nat \ {0} /\ m = n - out + 1
      /\ \A k \in 1 .. n - out : k + out \in 1 .. n /\ k < m
  BY <1>0
<1> HIDE DEF m
<1>2. \A slot : CountMean(log, slot, step).ts = SlotEnd(slot, step)
                /\ CountMean(more, slot, step).ts = SlotEnd(slot, step)
  BY DEF CountMean
<1>3. \A k \in 1 .. n : kept[k].ts \in Nat
  <2>1. \A k \in 1 .. n : kept[k] \in Points3
    OBVIOUS
  <2> QED  BY <2>1 DEF Points3
<1>4. \A k \in 1 .. n : kept[k].ts <= SlotEnd(s, step)
  <2>1. ASSUME NEW k \in 1 .. n, k # n PROVE kept[k].ts < kept[n].ts
    <3>1. k < n /\ n \in 1 .. n
      BY <2>1
    <3> QED  BY <3>1 DEF KeptRight
  <2>2. kept[n].ts = SlotEnd(s, step)
    BY <1>2
  <2> QED  BY <1>3, <2>1, <2>2
<1>5. next[m] = CountMean(more, q, step) /\ next[m].ts = SlotEnd(q, step)
      /\ SlotEnd(q, step) \in Nat /\ SlotEnd(s, step) \in Nat /\ SlotEnd(s, step) < SlotEnd(q, step)
  BY <1>2, SlotEnds DEF m
<1>6. ASSUME NEW k \in 1 .. m
      PROVE  \E slot \in CountSlots(more, step) : next[k] = CountMean(more, slot, step)
  <2>1. CASE k = m
    BY <1>0, <1>5, <2>1
  <2>2. CASE k \in 1 .. n - out
    <3>1. k + out \in 1 .. n /\ next[k] = kept[k + out]
      BY <1>1, <2>2 DEF Shifted
    <3>2. PICK slot \in CountSlots(log, step) : kept[k + out] = CountMean(log, slot, step)
      BY <3>1 DEF KeptRight
    <3>3. slot # q
      BY <1>0, <3>2
    <3> QED  BY <1>0, <3>1, <3>2, <3>3 DEF MeansKept
  <2> QED  BY <1>1, <2>1, <2>2
<1>7. ASSUME NEW j \in 1 .. m, NEW k \in 1 .. m, j < k PROVE next[j].ts < next[k].ts
  <2>1. j \in 1 .. n - out
    BY <1>1, <1>7
  <2>2. j + out \in 1 .. n /\ next[j] = kept[j + out]
    BY <1>1, <2>1 DEF Shifted
  <2>3. CASE k = m
    <3>1. kept[j + out].ts <= SlotEnd(s, step) /\ kept[j + out].ts \in Nat
      BY <1>3, <1>4, <2>2
    <3>2. next[j].ts < SlotEnd(q, step)
      BY <1>5, <2>2, <3>1
    <3> QED  BY <1>5, <2>3, <3>2
  <2>4. CASE k \in 1 .. n - out
    <3>1. k + out \in 1 .. n /\ next[k] = kept[k + out]
      BY <1>1, <2>4 DEF Shifted
    <3>2. j + out < k + out
      BY <1>7
    <3> QED  BY <2>2, <3>1, <3>2 DEF KeptRight
  <2> QED  BY <1>1, <2>3, <2>4
<1>8. ASSUME NEW slot \in CountSlots(more, step)
      PROVE  \/ \E k \in 1 .. m : next[k].ts = SlotEnd(slot, step)
             \/ m > capacity /\ SlotEnd(slot, step) < next[1].ts
  <2>1. CASE slot = q
    BY <1>1, <1>5, <2>1
  <2>2. CASE slot \in CountSlots(log, step)
    <3>1. next[1] = kept[1 + out] /\ 1 + out \in 1 .. n
      BY <1>1 DEF Shifted
    <3>2. out = 1 => kept[1].ts < next[1].ts /\ kept[1].ts \in Nat /\ next[1].ts \in Nat /\ m > capacity
      <4>1. out = 1 => 1 \in 1 .. n /\ 2 \in 1 .. n /\ m > capacity
        BY <1>0, <1>1
      <4> QED  BY <1>3, <3>1, <4>1 DEF KeptRight
    <3>3. SlotEnd(slot, step) \in Nat
      BY <1>0, <2>2, SlotEnds
    <3>4. CASE \E k \in 1 .. n : kept[k].ts = SlotEnd(slot, step)
      <4>1. PICK k \in 1 .. n : kept[k].ts = SlotEnd(slot, step)
        BY <3>4
      <4>2. CASE k > out
        <5>1. k - out \in 1 .. n - out /\ k - out + out = k
          BY <4>2
        <5>2. next[k - out] = kept[k] /\ k - out \in 1 .. m
          BY <1>1, <5>1 DEF Shifted
        <5> QED  BY <4>1, <5>2
      <4>3. CASE ~(k > out)
        <5>1. k = 1 /\ out = 1
          BY <4>3
        <5> QED  BY <3>2, <4>1, <5>1
      <4> QED  BY <4>2, <4>3
    <3>5. CASE n > capacity /\ SlotEnd(slot, step) < kept[1].ts
      <4>1. out = 1
        BY <1>0, <3>5
      <4> QED  BY <3>2, <3>3, <3>5, <4>1
    <3> QED  BY <2>2, <3>4, <3>5 DEF KeptRight
  <2> QED  BY <1>0, <2>1, <2>2
<1> QED  BY <1>1, <1>6, <1>7, <1>8 DEF KeptRight

-----------------------------------------------------------------------------
(***************************************************************************)
(* The invariant of an archive and the measurements it was given.          *)
(***************************************************************************)
ArchiveInv(arch, log, step, capacity, t) ==
  /\ Ring(arch, step, capacity, t)
  /\ Ordered(log, t)
  /\ log = <<>> => arch.start = 0 /\ arch.count = 0 /\ arch.sum = 0 /\ arch.samples = 0
  /\ log # <<>> => LET slot == CountsIn(log, Len(log), step)
                   IN  /\ arch.samples > 0 /\ arch.start = Begin(slot, step)
                       /\ Current(arch) = CountMean(log, slot, step)
  /\ Late(log, step) = {} => arch.count = 0
  /\ KeptRight(Kept(arch), log, step, capacity)

LEMMA ArchiveInit ==
  ASSUME NEW step \in Nat \ {0}, NEW capacity \in Nat \ {0}
  PROVE  ArchiveInv(Empty(step, capacity), <<>>, step, capacity, 0)
<1> DEFINE arch == Empty(step, capacity)
<1>1. /\ arch.start = 0 /\ arch.count = 0 /\ arch.sum = 0 /\ arch.samples = 0 /\ arch.head = 0
      /\ arch.step = step /\ arch.capacity = capacity
      /\ arch.points = [k \in 0 .. capacity - 1 |-> [ts |-> 0, sum |-> 0, n |-> 0]]
  BY DEF Empty
<1>2. arch.points \in [0 .. capacity - 1 -> Point(0)]
  BY <1>1, Sizes DEF Point
<1>3. arch \in Archives(step, capacity, 0)
  BY <1>1, <1>2, Sizes DEF Empty, Archives
<1>4. 0 \in Aligned(step)
  <2>1. Begin(0, step) \in Aligned(step) /\ Begin(0, step) = 0
    BY SlotBegins
  <2> QED  BY <2>1
<1>5. Ring(arch, step, capacity, 0)
  BY <1>1, <1>3, <1>4 DEF Ring
<1> HIDE DEF arch
<1>6. Len(Kept(arch)) = 0
  BY <1>1, <1>5, KeptIndexed
<1>7. CountSlots(<<>>, step) = {}
  BY DEF CountSlots
<1>8. KeptRight(Kept(arch), <<>>, step, capacity)
  BY <1>6, <1>7 DEF KeptRight
<1>9. Ordered(<<>>, 0)
  BY DEF Ordered
<1> QED  BY <1>1, <1>5, <1>8, <1>9 DEF ArchiveInv, arch

\* What is kept after the new measurement, from which the invariant follows.
LEMMA ArchiveAfter ==
  ASSUME NEW step \in Nat \ {0}, NEW capacity \in Nat \ {0}, NEW ts \in Nat, NEW v \in Nat,
         NEW t \in Nat, t <= ts, NEW log, Ordered(log, t), NEW more, Extends(more, log, ts, v),
         NEW q, q = SlotAt(ts, step), CountsIn(more, Len(more), step) = q,
         NEW next, Ring(next, step, capacity, ts), next.samples > 0, next.start = Begin(q, step),
         Kept(next)[next.count + 1] = CountMean(more, q, step),
         Late(more, step) = {} => next.count = 0,
         KeptRight(Kept(next), more, step, capacity)
  PROVE  ArchiveInv(next, more, step, capacity, ts)
<1>1. Current(next) = CountMean(more, q, step)
  BY KeptIndexed
<1>2. Ordered(more, ts) /\ Len(more) = Len(log) + 1 /\ Len(log) \in Nat
  BY MoreInList
<1>3. more # <<>>
  BY <1>2
<1> QED  BY <1>1, <1>2, <1>3 DEF ArchiveInv

\* ... as long as no measurement was late: nothing was closed yet.
LEMMA ArchiveEarly ==
  ASSUME NEW step \in Nat \ {0}, NEW capacity \in Nat \ {0}, NEW t \in Nat, NEW arch, NEW log,
         ArchiveInv(arch, log, step, capacity, t), Late(log, step) = {},
         NEW ts \in Nat, t <= ts, NEW v \in Nat,
         NEW more, Extends(more, log, ts, v), NEW next, next = Ingest(arch, ts, v)
  PROVE  ArchiveInv(next, more, step, capacity, ts)
<1> DEFINE n == Len(log)
           q == SlotAt(ts, step)
           z == Begin(q, step)
<1>1. /\ Ring(arch, step, capacity, t) /\ Ordered(log, t) /\ arch.count = 0
      /\ log = <<>> => arch.start = 0 /\ arch.sum = 0 /\ arch.samples = 0
      /\ log # <<>> => LET slot == CountsIn(log, Len(log), step)
                   IN  /\ arch.samples > 0 /\ arch.start = Begin(slot, step)
                       /\ Current(arch) = CountMean(log, slot, step)
  BY DEF ArchiveInv
<1>2. /\ Ordered(more, ts) /\ n \in Nat /\ Len(more) = n + 1
  BY <1>1, MoreInList
<1>3. \A k \in 1 .. n + 1 : CountsIn(more, k, step) = q
  BY <1>1, <1>2, StillOneSlot
<1>4. CountIn(more, q, step) = 1 .. n + 1 /\ CountSlots(more, step) = {q}
  <2>1. n + 1 \in 1 .. n + 1
    BY <1>2
  <2> QED  BY <1>2, <1>3, <2>1 DEF CountIn, CountSlots
<1>5. ASSUME log # <<>>
      PROVE  /\ arch.start = 0 /\ Current(arch) = CountMean(log, 0, step)
             /\ 1 \in 1 .. n /\ CountIn(log, 0, step) = 1 .. n
  <2>1. 1 \in 1 .. n /\ n \in 1 .. n
    <3>1. log \in Seq(Entries)
      BY <1>1 DEF Ordered
    <3> QED  BY <1>5, <3>1
  <2>2. \A k \in 1 .. n : CountsIn(log, k, step) = 0
    BY <1>1, OneSlot
  <2>3. CountsIn(log, Len(log), step) = 0
    BY <2>1, <2>2
  <2>4. CountIn(log, 0, step) = 1 .. n
    BY <2>2 DEF CountIn
  <2>5. Begin(0, step) = 0
    BY SlotBegins
  <2> QED  BY <1>1, <1>5, <2>1, <2>3, <2>4, <2>5
<1>6. arch.start = 0
  BY <1>1, <1>5
<1>7. q \in Nat /\ z + step = SlotEnd(q, step)
  BY SlotTimes, SlotBegins
<1> HIDE DEF q, z
<1>8. /\ Ring(next, step, capacity, ts)
      /\ next.count = 0 /\ next.samples > 0 /\ next.start = z /\ Len(Kept(next)) = 1
      /\ Kept(next)[1] = [ts |-> SlotEnd(q, step), sum |-> arch.sum + v, n |-> More(arch.samples)]
  <2>1. Ring(next, step, capacity, ts) /\ Grows(arch, next, step, z, v)
    BY <1>1, <1>6, KeptGrows DEF q, z
  <2> QED  BY <1>1, <1>7, <2>1 DEF Grows
<1>9. Kept(next)[1] = CountMean(more, q, step)
  <2>1. CASE log = <<>>
    <3>1. n = 0 /\ CountIn(more, q, step) = {Len(log) + 1}
      BY <1>4, <2>1
    <3>2. CountMean(more, q, step) = [ts |-> SlotEnd(q, step), sum |-> v, n |-> 1]
      BY <1>1, <3>1, MeanStarts
    <3>3. arch.sum + v = v /\ More(arch.samples) = 1
      BY <1>1, <2>1, Sizes DEF More
    <3> QED  BY <1>8, <3>2, <3>3
  <2>2. CASE log # <<>>
    <3>1. CountMean(more, q, step) = Taking(CountMean(log, 0, step), q, step, v)
      <4>1. Ordered(log, t) /\ 1 \in 1 .. Len(log)
            /\ CountIn(log, 0, step) = 1 .. Len(log) /\ CountIn(more, q, step) = 1 .. Len(log) + 1
        BY <1>1, <1>4, <1>5, <2>2
      <4> QED  BY <4>1, MeanTakes
    <3>2. CountMean(log, 0, step).sum = arch.sum /\ CountMean(log, 0, step).n = arch.samples
      BY <1>5, <2>2 DEF Current
    <3> QED  BY <1>8, <3>1, <3>2 DEF Taking
  <2> QED  BY <2>1, <2>2
<1>10. KeptRight(Kept(next), more, step, capacity)
  <2>1. Kept(next)[1].ts = SlotEnd(q, step)
    BY <1>8
  <2> QED  BY <1>4, <1>8, <1>9, <2>1 DEF KeptRight
<1>11. CountsIn(more, Len(more), step) = q
  BY <1>2, <1>3
<1>12. Kept(next)[next.count + 1] = CountMean(more, q, step)
  BY <1>8, <1>9
<1> QED  BY <1>1, <1>8, <1>10, <1>11, <1>12, ArchiveAfter DEF q, z

\* The slot of the newest measurement, once there was a late one.
LEMMA LastSlot ==
  ASSUME NEW step \in Nat \ {0}, NEW t \in Nat, NEW log, Ordered(log, t), Late(log, step) # {},
         NEW ts \in Nat, t <= ts
  PROVE  /\ Len(log) \in 1 .. Len(log) /\ log # <<>>
         /\ CountsIn(log, Len(log), step) \in Nat \ {0}
         /\ CountsIn(log, Len(log), step) <= SlotAt(ts, step)
         /\ CountsIn(log, Len(log), step) \in CountSlots(log, step)
         /\ CountSlots(log, step) \subseteq Nat
         /\ \A slot \in CountSlots(log, step) : slot <= CountsIn(log, Len(log), step)
<1> DEFINE n == Len(log)
           f == FirstOf(Late(log, step))
<1>1. /\ f \in 1 .. n
      /\ \A k \in 1 .. n :
           /\ k >= f => log[k].ts >= step
           /\ CountsIn(log, k, step) = SlotAt(IF k < f THEN log[f].ts ELSE log[k].ts, step)
  BY LateSlots
<1>2. n \in Nat /\ log \in Seq(Entries)
  BY DEF Ordered
<1> HIDE DEF f
<1>3. n \in 1 .. n /\ log # <<>> /\ n >= f /\ ~(n < f)
  BY <1>1, <1>2
<1>4. log[n].ts \in Nat /\ log[n].ts >= step /\ log[n].ts <= ts
  <2>1. log[n].ts <= t
    BY <1>3 DEF Ordered
  <2>2. log[n].ts \in Nat
    BY <1>2, <1>3, EntryFields
  <2>3. log[n].ts >= step
    BY <1>1, <1>3
  <2> QED  BY <2>1, <2>2, <2>3
<1>5. CountsIn(log, n, step) = SlotAt(log[n].ts, step)
  BY <1>1, <1>3
<1>6. SlotAt(step, step) = 1
  BY DEF SlotAt
<1>7. SlotAt(step, step) <= SlotAt(log[n].ts, step) /\ SlotAt(log[n].ts, step) <= SlotAt(ts, step)
      /\ SlotAt(log[n].ts, step) \in Nat
  BY <1>4, SlotsInOrder, SlotTimes
<1>8. CountsIn(log, n, step) \in Nat \ {0} /\ CountsIn(log, n, step) <= SlotAt(ts, step)
  BY <1>5, <1>6, <1>7
<1>9. CountSlots(log, step) \subseteq Nat /\ \A slot \in CountSlots(log, step) : slot <= CountsIn(log, n, step)
  <2>1. ASSUME NEW slot \in CountSlots(log, step) PROVE slot \in Nat /\ slot <= CountsIn(log, n, step)
    <3>1. PICK k \in 1 .. n : slot = CountsIn(log, k, step)
      BY DEF CountSlots
    <3>2. k <= n
      OBVIOUS
    <3> QED  BY <1>3, <3>1, <3>2, SlotsRise
  <2> QED  BY <2>1
<1> QED  BY <1>3, <1>8, <1>9 DEF CountSlots

\* ... for the slot in progress.
LEMMA ArchiveGrows ==
  ASSUME NEW step \in Nat \ {0}, NEW capacity \in Nat \ {0}, NEW t \in Nat, NEW arch, NEW log,
         ArchiveInv(arch, log, step, capacity, t), Late(log, step) # {},
         NEW ts \in Nat, t <= ts, NEW v \in Nat,
         NEW more, Extends(more, log, ts, v), NEW next, next = Ingest(arch, ts, v),
         CountsIn(log, Len(log), step) = SlotAt(ts, step)
  PROVE  ArchiveInv(next, more, step, capacity, ts)
<1> DEFINE n == Len(log)
           q == SlotAt(ts, step)
           z == Begin(q, step)
<1>1. /\ Len(log) \in 1 .. Len(log) /\ log # <<>>
      /\ CountsIn(log, Len(log), step) \in Nat \ {0}
      /\ CountsIn(log, Len(log), step) \in CountSlots(log, step)
      /\ CountSlots(log, step) \subseteq Nat
  BY LastSlot DEF ArchiveInv
<1>2. /\ Ring(arch, step, capacity, t) /\ Ordered(log, t)
      /\ arch.samples > 0 /\ arch.start = z /\ Current(arch) = CountMean(log, q, step)
      /\ KeptRight(Kept(arch), log, step, capacity)
  BY <1>1 DEF ArchiveInv
<1>3. q \in Nat /\ z + step = SlotEnd(q, step) /\ q \in CountSlots(log, step)
  BY <1>1, SlotTimes, SlotBegins
<1>4. /\ CountSlots(more, step) = CountSlots(log, step)
      /\ CountIn(more, q, step) = CountIn(log, q, step) \cup {n + 1}
      /\ MeansKept(log, more, step, q)
  <2>1. /\ CountSlots(more, step) = CountSlots(log, step) \cup {q}
        /\ CountIn(more, q, step) = CountIn(log, q, step) \cup {n + 1}
        /\ MeansKept(log, more, step, q)
    BY <1>2, MeansStay
  <2> QED  BY <1>3, <2>1
<1>5. Late(more, step) # {} /\ CountsIn(more, Len(more), step) = q
  BY <1>2, SlotsStay
<1>6. CountsIn(log, n, step) = q
  OBVIOUS
<1> HIDE DEF q, z
<1>7. PICK a \in 1 .. n : CountIn(log, q, step) = a .. n
  <2> DEFINE in == CountIn(log, q, step)
  <2>1. /\ in # {} /\ in \subseteq 1 .. n /\ in = FirstOf(in) .. LastOf(in)
        /\ FirstOf(in) \in 1 .. n /\ LastOf(in) \in 1 .. n
    BY <1>2, <1>3, SlotSpans DEF Consecutive
  <2>2. n \in in
    BY <1>1, <1>6 DEF CountIn
  <2> HIDE DEF in
  <2>3. LastOf(in) = n
    BY <2>1, <2>2
  <2> QED  BY <2>1, <2>3 DEF in
<1>8. CountIn(more, q, step) = a .. n + 1
  <2>1. a \in 1 .. n /\ n \in Nat
    BY <1>1
  <2>2. a .. n + 1 = (a .. n) \cup {n + 1}
    BY <2>1
  <2> QED  BY <1>4, <1>7, <2>2
<1>9. CountMean(more, q, step) = Taking(CountMean(log, q, step), q, step, v)
  BY <1>2, <1>7, <1>8, MeanTakes
<1>10. Ring(next, step, capacity, ts) /\ Grows(arch, next, step, z, v)
  BY <1>2, KeptGrows DEF q, z
<1>11. /\ Kept(arch) \in Seq(Points3) /\ arch.count \in Nat
       /\ Len(Kept(arch)) = arch.count + 1
       /\ \A k \in 1 .. arch.count : Kept(arch)[k] = Points(arch)[k]
       /\ Kept(arch)[arch.count + 1] = Current(arch)
  <2>1. arch.count \in Nat
    BY <1>2, RingFields
  <2> QED  BY <1>2, <2>1, KeptIndexed
<1>12. Kept(next) \in Seq(Points3)
  BY <1>10, KeptIndexed
<1>13. Kept(next)[arch.count + 1] = CountMean(more, q, step)
  <2>1. Kept(next)[arch.count + 1] =
          [ts |-> z + step, sum |-> arch.sum + v, n |-> More(arch.samples)]
    BY <1>10 DEF Grows
  <2>2. CountMean(log, q, step).sum = arch.sum /\ CountMean(log, q, step).n = arch.samples
    BY <1>2 DEF Current
  <2> QED  BY <1>3, <1>9, <2>1, <2>2 DEF Taking
<1>14. KeptRight(Kept(next), more, step, capacity)
  <2> DEFINE m == arch.count + 1
             kept == Kept(arch)
             after == Kept(next)
  <2>1. /\ m \in Nat \ {0} /\ Len(kept) = m /\ Len(after) = m
        /\ \A k \in 1 .. m - 1 : after[k] = kept[k]
        /\ kept[m] = CountMean(log, q, step) /\ after[m] = CountMean(more, q, step)
        /\ kept \in Seq(Points3) /\ after \in Seq(Points3)
        /\ KeptRight(kept, log, step, capacity)
    <3>1. m - 1 = arch.count
      BY <1>11
    <3> QED  BY <1>2, <1>10, <1>11, <1>12, <1>13, <3>1 DEF Grows
  <2> HIDE DEF m, kept, after
  <2>2. KeptRight(after, more, step, capacity)
    BY <1>1, <1>3, <1>4, <2>1, NewestReplaced
  <2> QED  BY <2>2 DEF after
<1>15. next.count = arch.count /\ next.samples > 0 /\ next.start = z
  BY <1>10 DEF Grows
<1> QED  BY <1>2, <1>5, <1>10, <1>13, <1>14, <1>15, ArchiveAfter DEF q, z

\* ... for a slot after it.
LEMMA ArchiveFollows ==
  ASSUME NEW step \in Nat \ {0}, NEW capacity \in Nat \ {0}, NEW t \in Nat, NEW arch, NEW log,
         ArchiveInv(arch, log, step, capacity, t), Late(log, step) # {},
         NEW ts \in Nat, t <= ts, NEW v \in Nat,
         NEW more, Extends(more, log, ts, v), NEW next, next = Ingest(arch, ts, v),
         CountsIn(log, Len(log), step) < SlotAt(ts, step)
  PROVE  ArchiveInv(next, more, step, capacity, ts)
<1> DEFINE n == Len(log)
           s == CountsIn(log, n, step)
           q == SlotAt(ts, step)
           z == Begin(q, step)
           out == Leaving(arch, capacity)
<1>1. /\ n \in 1 .. n /\ log # <<>> /\ s \in Nat \ {0}
      /\ CountSlots(log, step) \subseteq Nat
      /\ \A slot \in CountSlots(log, step) : slot <= s
  BY LastSlot DEF ArchiveInv
<1>2. /\ Ring(arch, step, capacity, t) /\ Ordered(log, t)
      /\ arch.samples > 0 /\ arch.start = Begin(s, step) /\ Current(arch) = CountMean(log, s, step)
      /\ KeptRight(Kept(arch), log, step, capacity)
  BY <1>1 DEF ArchiveInv
<1>3. q \in Nat /\ z + step = SlotEnd(q, step) /\ s < q
  BY SlotTimes, SlotBegins
<1>4. /\ CountSlots(more, step) = CountSlots(log, step) \cup {q}
      /\ CountIn(more, q, step) = CountIn(log, q, step) \cup {n + 1}
      /\ MeansKept(log, more, step, q)
  BY <1>2, MeansStay
<1>5. Late(more, step) # {} /\ CountsIn(more, Len(more), step) = q
  BY <1>2, SlotsStay
<1>6. Ring(next, step, capacity, ts) /\ ClosedAndFollowed(arch, next, step, capacity, z, v)
  BY <1>1, <1>2, KeptFollows
<1> HIDE DEF q, z, s
<1>7. CountIn(more, q, step) = {n + 1}
  <2>1. ASSUME CountIn(log, q, step) # {} PROVE FALSE
    <3>1. PICK k \in 1 .. Len(log) : CountsIn(log, k, step) = q
      BY <2>1 DEF CountIn
    <3>2. q \in CountSlots(log, step)
      BY <3>1 DEF CountSlots
    <3> QED  BY <1>1, <1>3, <3>2
  <2> QED  BY <1>4, <2>1
<1>8. CountMean(more, q, step) = [ts |-> SlotEnd(q, step), sum |-> v, n |-> 1]
  BY <1>2, <1>7, MeanStarts
<1>9. /\ Kept(arch) \in Seq(Points3) /\ arch.count \in 0 .. capacity
      /\ Kept(arch)[arch.count + 1] = Current(arch)
      /\ out \in {0, 1} /\ (out = 1 => arch.count = capacity) /\ (out = 0 => arch.count < capacity)
  <2>1. arch.count \in 0 .. capacity
    BY <1>2, RingFields
  <2>2. out \in {0, 1} /\ (out = 1 => arch.count = capacity) /\ (out = 0 => arch.count < capacity)
    BY <2>1 DEF Leaving
  <2> QED  BY <1>2, <2>1, <2>2, KeptIndexed
<1>10. Kept(next) \in Seq(Points3)
  BY <1>6, KeptIndexed
<1>11. /\ next.count = arch.count + 1 - out /\ next.samples > 0 /\ next.start = z
       /\ Len(Kept(arch)) = arch.count + 1
       /\ Len(Kept(next)) = arch.count + 2 - out
       /\ Shifted(Kept(arch), Kept(next), arch.count + 1, out)
       /\ Kept(next)[arch.count + 2 - out] = CountMean(more, q, step)
  BY <1>3, <1>6, <1>8 DEF ClosedAndFollowed
<1> HIDE DEF out
<1>12. KeptRight(Kept(next), more, step, capacity)
  <2> DEFINE m == arch.count + 1
             kept == Kept(arch)
             after == Kept(next)
  <2>1. /\ m \in Nat \ {0} /\ Len(kept) = m /\ Len(after) = m + 1 - out
        /\ Fits(m, out, capacity)
        /\ Shifted(kept, after, m, out)
        /\ kept[m] = CountMean(log, s, step) /\ after[m + 1 - out] = CountMean(more, q, step)
        /\ kept \in Seq(Points3) /\ after \in Seq(Points3) /\ out \in {0, 1}
        /\ KeptRight(kept, log, step, capacity)
    <3>1. m + 1 - out = arch.count + 2 - out
          /\ m \in Nat \ {0} /\ Fits(m, out, capacity)
      <4> DEFINE c == arch.count
      <4>1. /\ c \in 0 .. capacity /\ out \in {0, 1}
            /\ (out = 1 => c = capacity) /\ (out = 0 => c < capacity)
        BY <1>9
      <4> HIDE DEF c
      <4>2. /\ c + 1 + 1 - out = c + 2 - out /\ c + 1 \in Nat \ {0}
            /\ (out = 1 => c + 1 = capacity + 1) /\ (out = 0 => c + 1 <= capacity)
        BY <4>1
      <4> QED  BY <4>2 DEF c, Fits
    <3>2. Shifted(kept, after, m, out)
      BY <1>11
    <3> QED  BY <1>2, <1>9, <1>10, <1>11, <3>1, <3>2
  <2> HIDE DEF m, kept, after
  <2>2. q \in Nat /\ s \in Nat /\ s < q /\ Joins(log, more, step, s, q)
    BY <1>1, <1>3, <1>4 DEF Joins
  <2>3. KeptRight(after, more, step, capacity)
    <3>1. Adds(kept, after, m, out, log, more, step, s, q, capacity)
      BY <2>1, <2>2 DEF Adds
    <3> QED  BY <3>1, NewestAdded
  <2> QED  BY <2>3 DEF after
<1>14. Kept(next)[next.count + 1] = CountMean(more, q, step)
  <2>1. next.count + 1 = arch.count + 2 - out
    BY <1>9, <1>11
  <2> QED  BY <1>11, <2>1
<1> QED  BY <1>2, <1>5, <1>6, <1>11, <1>12, <1>14, ArchiveAfter DEF q, z

LEMMA ArchiveStep ==
  ASSUME NEW step \in Nat \ {0}, NEW capacity \in Nat \ {0}, NEW t \in Nat, NEW arch, NEW log,
         ArchiveInv(arch, log, step, capacity, t),
         NEW ts \in Nat, t <= ts, NEW v \in Nat,
         NEW more, Extends(more, log, ts, v), NEW next, next = Ingest(arch, ts, v)
  PROVE  ArchiveInv(next, more, step, capacity, ts)
<1>1. CASE Late(log, step) = {}
  BY <1>1, ArchiveEarly
<1>2. CASE Late(log, step) # {}
  <2>1. /\ CountsIn(log, Len(log), step) \in Nat
        /\ CountsIn(log, Len(log), step) <= SlotAt(ts, step)
        /\ SlotAt(ts, step) \in Nat
    BY <1>2, LastSlot, SlotTimes DEF ArchiveInv
  <2>2. CASE CountsIn(log, Len(log), step) = SlotAt(ts, step)
    BY <1>2, <2>2, ArchiveGrows
  <2>3. CASE CountsIn(log, Len(log), step) < SlotAt(ts, step)
    BY <1>2, <2>3, ArchiveFollows
  <2> QED  BY <2>1, <2>2, <2>3
<1> QED  BY <1>1, <1>2

\* A measurement that an archive does not get leaves it as it is.
LEMMA ArchiveKeeps ==
  ASSUME NEW step \in Nat \ {0}, NEW capacity \in Nat \ {0}, NEW t \in Nat, NEW arch, NEW log,
         ArchiveInv(arch, log, step, capacity, t), NEW u \in Nat, t <= u
  PROVE  ArchiveInv(arch, log, step, capacity, u)
<1>1. Ring(arch, step, capacity, t) /\ Ordered(log, t)
  BY DEF ArchiveInv
<1>2. Point(t) \subseteq Point(u) /\ 0 .. t \subseteq 0 .. u
  BY DEF Point
<1>3. Archives(step, capacity, t) \subseteq Archives(step, capacity, u)
  BY <1>2 DEF Archives
<1>4. Ring(arch, step, capacity, u)
  BY <1>1, <1>3 DEF Ring
<1>5. Ordered(log, u)
  <2>1. \A k \in 1 .. Len(log) : log[k].ts \in Nat
    BY <1>1, EntryFields DEF Ordered
  <2> QED  BY <1>1, <2>1 DEF Ordered
<1> QED  BY <1>4, <1>5 DEF ArchiveInv

-----------------------------------------------------------------------------
(***************************************************************************)
(* What the invariant says to the readers.                                 *)
(***************************************************************************)
LEMMA ArchiveMatches ==
  ASSUME NEW step \in Nat \ {0}, NEW capacity \in Nat \ {0}, NEW t \in Nat, NEW arch, NEW log,
         ArchiveInv(arch, log, step, capacity, t)
  PROVE  CountMatches(arch, log, step, capacity)
<1> DEFINE kept == Kept(arch)
<1>1. /\ Ring(arch, step, capacity, t) /\ Ordered(log, t)
      /\ KeptRight(kept, log, step, capacity)
  BY DEF ArchiveInv
<1>2. Len(kept) \in Nat
  BY <1>1, KeptIndexed
<1> HIDE DEF kept
<1>3. \A slot \in CountSlots(log, step) : Consecutive(CountIn(log, slot, step))
  BY <1>1, SlotSpans
<1>4. \A k \in 1 .. Len(kept) - 1 : kept[k].ts < kept[k + 1].ts
  <2>1. \A k \in 1 .. Len(kept) - 1 : k \in 1 .. Len(kept) /\ k + 1 \in 1 .. Len(kept) /\ k < k + 1
    BY <1>2
  <2> QED  BY <1>1, <2>1 DEF KeptRight
<1>5. /\ \A k \in 1 .. Len(kept) : \E slot \in CountSlots(log, step) : kept[k] = CountMean(log, slot, step)
      /\ \A slot \in CountSlots(log, step) :
           \/ \E k \in 1 .. Len(kept) : kept[k].ts = SlotEnd(slot, step)
           \/ Len(kept) > capacity /\ SlotEnd(slot, step) < kept[1].ts
  BY <1>1 DEF KeptRight
<1> HIDE DEF kept
<1>6. CountMatches(arch, log, step, capacity) <=>
        /\ \A slot \in CountSlots(log, step) : Consecutive(CountIn(log, slot, step))
        /\ \A k \in 1 .. Len(kept) : \E slot \in CountSlots(log, step) : kept[k] = CountMean(log, slot, step)
        /\ \A k \in 1 .. Len(kept) - 1 : kept[k].ts < kept[k + 1].ts
        /\ \A slot \in CountSlots(log, step) :
             \/ \E k \in 1 .. Len(kept) : kept[k].ts = SlotEnd(slot, step)
             \/ Len(kept) > capacity /\ SlotEnd(slot, step) < kept[1].ts
  BY Zenon DEF CountMatches, kept
<1> QED  BY <1>3, <1>4, <1>5, <1>6, Zenon

\* What counts in a slot is what its point averages.
LEMMA CountsAveraged ==
  ASSUME NEW step \in Nat \ {0}, NEW t \in Nat, NEW log, Ordered(log, t)
  PROVE  /\ PointSlots(log, step) = CountSlots(log, step)
         /\ \A slot \in CountSlots(log, step) :
              Averaged(log, slot, step) = CountIn(log, slot, step)
<1> DEFINE n == Len(log)
           at(k) == SlotOf(log, k, step)
           in(k) == CountsIn(log, k, step)
<1>1. n \in Nat /\ \A k \in 1 .. n : log[k].ts \in Nat
  BY EntryFields DEF Ordered
<1>2. \A k \in 1 .. n : at(k) = SlotAt(log[k].ts, step) /\ at(k) \in Nat
  <2>1. \A k \in 1 .. n : at(k) = SlotAt(log[k].ts, step)
    BY DEF SlotOf, SlotAt
  <2> QED  BY <1>1, <2>1, SlotTimes
<1>3. \A k \in 1 .. n : in(k) \in Nat
  BY SlotsRise
<1> HIDE DEF at, in, n
<1>4. /\ Slots(log, step) = {at(k) : k \in 1 .. n} /\ CountSlots(log, step) = {in(k) : k \in 1 .. n}
      /\ \A slot : /\ In(log, slot, step) = {k \in 1 .. n : at(k) = slot}
                   /\ CountIn(log, slot, step) = {k \in 1 .. n : in(k) = slot}
  BY DEF Slots, CountSlots, In, CountIn, at, in, n
<1>5. CASE Late(log, step) = {}
  <2>1. \A k \in 1 .. n : in(k) = 0 /\ at(k) = 0
    <3>1. \A k \in 1 .. n : in(k) = 0
      BY <1>5, OneSlot DEF in, n
    <3>2. \A k \in 1 .. n : in(k) = SlotAt(log[k].ts, step)
      BY <1>5, CountsInAt DEF in, n
    <3> QED  BY <1>2, <3>1, <3>2
  <2>2. Slots(log, step) = CountSlots(log, step)
    BY <1>4, <2>1
  <2>3. Slots(log, step) \subseteq {0}
    BY <1>4, <2>1
  <2>4. PointSlots(log, step) = CountSlots(log, step)
    <3>1. Slots(log, step) = {0} \/ Slots(log, step) = {}
      BY <2>3
    <3> QED  BY <2>2, <3>1 DEF PointSlots
  <2>5. ASSUME NEW slot \in CountSlots(log, step)
        PROVE  Averaged(log, slot, step) = CountIn(log, slot, step)
    <3>1. slot = 0
      BY <2>2, <2>3
    <3>2. In(log, 0, step) = CountIn(log, 0, step)
      BY <1>4, <2>1
    <3> QED  BY <3>1, <3>2 DEF Averaged
  <2> QED  BY <2>4, <2>5
<1>6. CASE Late(log, step) # {}
  <2> DEFINE f == FirstOf(Late(log, step))
  <2>1. /\ f \in 1 .. n
        /\ \A k \in 1 .. n : /\ k < f => log[k].ts < step
                             /\ k >= f => log[k].ts >= step
                             /\ in(k) = SlotAt(IF k < f THEN log[f].ts ELSE log[k].ts, step)
    BY <1>6, LateSlots DEF n, in
  <2> HIDE DEF f
  <2>2. \A k \in 1 .. n : in(k) = at(IF k < f THEN f ELSE k)
    BY <1>2, <2>1
  <2>3. \A k \in 1 .. n : k < f => at(k) = 0
    <3>1. \A ts \in Nat : ts < step => SlotAt(ts, step) = 0
      BY DEF SlotAt
    <3> QED  BY <1>1, <1>2, <2>1, <3>1
  <2>4. \A k \in 1 .. n : k >= f => at(k) # 0
    <3>1. \A ts \in Nat : ts >= step => SlotAt(ts, step) # 0
      <4>1. ASSUME NEW ts \in Nat, SlotAt(ts, step) = 0 PROVE ts < step
        <5>1. ts < Begin(0, step) + step /\ Begin(0, step) = 0
          BY <4>1, SlotTimes, SlotBegins
        <5> QED  BY <5>1
      <4> QED  BY <4>1
    <3> QED  BY <1>1, <1>2, <2>1, <3>1
  <2>5. \A k \in 1 .. n : at(f) <= in(k)
    <3>1. ASSUME NEW k \in 1 .. n, k >= f PROVE at(f) <= at(k)
      <4>1. log[f].ts <= log[k].ts
        BY <2>1, <3>1 DEF Ordered, n
      <4> QED  BY <1>1, <1>2, <2>1, <4>1, SlotsInOrder
    <3> QED  BY <1>1, <1>2, <2>1, <2>2, <3>1
  <2>6. in(f) = at(f) /\ at(f) # 0
    BY <2>1, <2>2, <2>4
  <2>7. CountSlots(log, step) = Slots(log, step) \ {0}
    <3>1. ASSUME NEW slot \in CountSlots(log, step) PROVE slot \in Slots(log, step) \ {0}
      <4>1. PICK k \in 1 .. n : slot = in(k)
        BY <1>4
      <4>2. PICK j \in 1 .. n : slot = at(j) /\ j >= f
        BY <2>1, <2>2, <4>1
      <4> QED  BY <1>4, <2>4, <4>2
    <3>2. ASSUME NEW slot \in Slots(log, step) \ {0} PROVE slot \in CountSlots(log, step)
      <4>1. PICK k \in 1 .. n : slot = at(k)
        BY <1>4
      <4>2. slot = in(k)
        BY <2>1, <2>2, <2>3, <4>1
      <4> QED  BY <1>4, <4>2
    <3> QED  BY <3>1, <3>2
  <2>8. PointSlots(log, step) = CountSlots(log, step)
    <3>1. Slots(log, step) # {0}
      BY <1>4, <2>1, <2>6
    <3> QED  BY <2>7, <3>1 DEF PointSlots
  <2>9. FirstOf(CountSlots(log, step)) = at(f)
    <3>1. at(f) \in CountSlots(log, step) /\ \A j \in CountSlots(log, step) : at(f) <= j /\ j \in Nat
      BY <1>3, <1>4, <2>1, <2>5, <2>6
    <3>2. \E k \in CountSlots(log, step) : \A j \in CountSlots(log, step) : k <= j
      BY <3>1
    <3>3. /\ FirstOf(CountSlots(log, step)) \in CountSlots(log, step)
          /\ \A j \in CountSlots(log, step) : FirstOf(CountSlots(log, step)) <= j
      BY <3>2 DEF FirstOf
    <3> QED  BY <3>1, <3>3
  <2>10. ASSUME NEW slot \in CountSlots(log, step)
         PROVE  Averaged(log, slot, step) = CountIn(log, slot, step)
    <3>1. slot # 0
      BY <2>7
    <3>2. ASSUME NEW k \in 1 .. n
          PROVE  in(k) = slot <=> at(k) = slot \/ (slot = at(f) /\ at(k) = 0)
      BY <2>1, <2>2, <2>3, <2>4, <2>6, <3>1
    <3>3. CASE slot = at(f)
      <4>1. Averaged(log, slot, step) = In(log, 0, step) \cup In(log, slot, step)
        BY <2>8, <2>9, <3>3 DEF Averaged
      <4> QED  BY <1>4, <3>2, <3>3, <4>1
    <3>4. CASE slot # at(f)
      <4>1. Averaged(log, slot, step) = In(log, slot, step)
        BY <2>8, <2>9, <3>4 DEF Averaged
      <4> QED  BY <1>4, <3>2, <3>4, <4>1
    <3> QED  BY <3>3, <3>4
  <2> QED  BY <2>8, <2>10
<1> QED  BY <1>5, <1>6

LEMMA PointsMatch ==
  ASSUME NEW step \in Nat \ {0}, NEW t \in Nat, NEW arch, NEW log, NEW capacity, Ordered(log, t),
         CountMatches(arch, log, step, capacity)
  PROVE  Matches(arch, log, step, capacity)
<1> DEFINE slots == CountSlots(log, step)
           kept == Kept(arch)
<1>1. PointSlots(log, step) = slots
  BY CountsAveraged
<1>2. \A slot \in slots : Averaged(log, slot, step) = CountIn(log, slot, step)
  BY CountsAveraged
<1>3. \A slot \in slots : MeanOf(log, slot, step) = CountMean(log, slot, step)
  BY <1>2 DEF MeanOf, CountMean
<1>4. /\ \A slot \in slots : Consecutive(CountIn(log, slot, step))
      /\ \A k \in 1 .. Len(kept) : \E slot \in slots : kept[k] = CountMean(log, slot, step)
      /\ \A k \in 1 .. Len(kept) - 1 : kept[k].ts < kept[k + 1].ts
      /\ \A slot \in slots :
           \/ \E k \in 1 .. Len(kept) : kept[k].ts = SlotEnd(slot, step)
           \/ Len(kept) > capacity /\ SlotEnd(slot, step) < kept[1].ts
  BY Zenon DEF CountMatches
<1>5. /\ \A slot \in slots : Consecutive(Averaged(log, slot, step))
      /\ \A k \in 1 .. Len(kept) : \E slot \in slots : kept[k] = MeanOf(log, slot, step)
  <2> HIDE DEF slots, kept
  <2>1. \A slot \in slots : Consecutive(Averaged(log, slot, step))
    BY <1>2, <1>4, Zenon
  <2>2. \A k \in 1 .. Len(kept) : \E slot \in slots : kept[k] = MeanOf(log, slot, step)
    BY <1>3, <1>4
  <2> QED  BY <2>1, <2>2
<1> HIDE DEF slots
<1> QED  BY <1>1, <1>4, <1>5, Zenon DEF Matches

\* Points in the order of time.
Rising(kept) == \A j, k \in 1 .. Len(kept) : j < k => kept[j].ts < kept[k].ts

\* From the m-th on they are not before a time.
RecentFrom(kept, since, m) == \A k \in 1 .. Len(kept) : kept[k].ts >= since <=> k >= m

LEMMA PointTimes ==
  ASSUME NEW kept \in Seq(Points3)
  PROVE  Len(kept) \in Nat /\ \A k \in 1 .. Len(kept) : kept[k].ts \in Nat
<1>1. Len(kept) \in Nat /\ \A k \in 1 .. Len(kept) : kept[k] \in Points3
  OBVIOUS
<1> QED  BY <1>1 DEF Points3

\* What is kept since a time is the end of the list.
LEMMA RecentIsTail ==
  ASSUME NEW kept \in Seq(Points3), NEW since \in Nat, Rising(kept)
  PROVE  \E m \in 1 .. Len(kept) + 1 : RecentFrom(kept, since, m)
<1> DEFINE S == {k \in 1 .. Len(kept) : kept[k].ts >= since}
<1>1. Len(kept) \in Nat /\ \A k \in 1 .. Len(kept) : kept[k].ts \in Nat
  BY PointTimes
<1>2. CASE S = {}
  BY <1>1, <1>2 DEF RecentFrom
<1>3. CASE S # {}
  <2>1. PICK m \in S : \A k \in S : m <= k
    BY <1>1, <1>3, FirstIn
  <2>2. ASSUME NEW k \in 1 .. Len(kept) PROVE kept[k].ts >= since <=> k >= m
    <3>1. k > m => kept[k].ts > kept[m].ts
      BY <2>1 DEF Rising
    <3> QED  BY <1>1, <2>1, <3>1
  <2> QED  BY <1>1, <2>1, <2>2 DEF RecentFrom
<1> QED  BY <1>2, <1>3

\* The i-th of them.
LEMMA NthOfTail ==
  ASSUME NEW n \in Nat, NEW m \in 1 .. n + 1, NEW i \in 1 .. n + 1 - m
  PROVE  (CHOOSE k \in m .. n : Cardinality({j \in m .. n : j <= k}) = i) = m + i - 1
<1>1. ASSUME NEW k \in m .. n PROVE Cardinality({j \in m .. n : j <= k}) = k - m + 1
  <2>1. {j \in m .. n : j <= k} = m .. k
    OBVIOUS
  <2>2. Cardinality(m .. k) = k - m + 1
    BY SpanEnds
  <2> QED  BY <2>1, <2>2
<1>2. m + i - 1 \in m .. n /\ (m + i - 1) - m + 1 = i
  OBVIOUS
<1>3. \A k \in m .. n : k - m + 1 = i => k = m + i - 1
  OBVIOUS
<1> QED  BY <1>1, <1>2, <1>3

LEMMA ReadsTail ==
  ASSUME NEW arch, NEW kept, kept = Kept(arch), kept \in Seq(Points3),
         NEW since \in Nat, NEW max \in Nat \ {0},
         NEW m \in 1 .. Len(kept) + 1, RecentFrom(kept, since, m)
  PROVE  GetPoints(arch, since, max) =
           SubSeq(kept, m, IF Len(kept) - m < max THEN Len(kept) ELSE m + max - 1)
<1> DEFINE size == Len(kept)
           recent == {k \in 1 .. size : kept[k].ts >= since}
           nth(i) == CHOOSE k \in recent : Cardinality({j \in recent : j <= k}) = i
           n == Cardinality(recent)
           b == IF size - m < max THEN size ELSE m + max - 1
<1>1. GetPoints(arch, since, max) = [i \in 1 .. (IF n > max THEN max ELSE n) |-> kept[nth(i)]]
  BY DEF GetPoints
<1>2. kept \in Seq(Points3) /\ size \in Nat /\ m \in 1 .. size + 1
  OBVIOUS
<1>3. recent = m .. size
  BY <1>2 DEF RecentFrom
<1>4. Cardinality(m .. size) = size + 1 - m
  <2>1. CASE m = size + 1
    <3>1. m .. size = {}
      BY <1>2, <2>1
    <3>2. Cardinality(m .. size) = 0
      BY <3>1, FS_EmptySet
    <3> QED  BY <1>2, <2>1, <3>2
  <2>2. CASE m # size + 1
    <3>1. m \in Nat \ {0} /\ m <= size
      BY <1>2, <2>2
    <3>2. Cardinality(m .. size) = size - m + 1
      BY <1>2, <3>1, SpanEnds
    <3> QED  BY <1>2, <3>2
  <2> QED  BY <2>1, <2>2
<1>5. ASSUME NEW i \in 1 .. size + 1 - m PROVE nth(i) = m + i - 1
  <2> DEFINE numbered(S) == CHOOSE k \in S : Cardinality({j \in S : j <= k}) = i
  <2>1. numbered(m .. size) = m + i - 1
    BY <1>2, NthOfTail
  <2>2. numbered(recent) = numbered(m .. size)
    <3> HIDE DEF recent, numbered
    <3> QED  BY <1>3
  <2> QED  BY <2>1, <2>2
<1>10. n = size + 1 - m
  BY <1>3, <1>4
<1> HIDE DEF recent, nth, n, size
<1>6. (IF n > max THEN max ELSE n) = 1 + b - m /\ b \in m - 1 .. size
  BY <1>2, <1>4, <1>10
<1> HIDE DEF b
<1>7. \A i \in 1 .. 1 + b - m : nth(i) = m + i - 1
  BY <1>2, <1>5, <1>6
<1>8. GetPoints(arch, since, max) = [i \in 1 .. 1 + b - m |-> kept[m + i - 1]]
  BY <1>1, <1>6, <1>7
<1>9. SubSeq(kept, m, b) = [i \in 1 .. 1 + b - m |-> kept[m + i - 1]]
  BY <1>2, <1>6 DEF size
<1> QED  BY <1>8, <1>9 DEF size, b

\* Whatever the time and the room, a reader gets what is kept since then.
LEMMA ArchiveReads ==
  ASSUME NEW arch, Kept(arch) \in Seq(Points3), Rising(Kept(arch)),
         NEW since \in Nat, NEW max \in Nat \ {0}
  PROVE  ReadsSince(arch, since, max)
<1>1. PICK kept : kept = Kept(arch)
  OBVIOUS
<1>2. kept \in Seq(Points3) /\ Rising(kept)
  BY <1>1
<1>3. PICK m \in 1 .. Len(kept) + 1 : RecentFrom(kept, since, m)
  BY <1>2, RecentIsTail
<1>4. GetPoints(arch, since, max) =
        SubSeq(kept, m, IF Len(kept) - m < max THEN Len(kept) ELSE m + max - 1)
  BY <1>1, <1>2, <1>3, ReadsTail
<1> DEFINE served(i) ==
             /\ \A k \in 1 .. Len(kept) : kept[k].ts >= since <=> k >= i
             /\ GetPoints(arch, since, max) =
                  SubSeq(kept, i, IF Len(kept) - i < max THEN Len(kept) ELSE i + max - 1)
<1>5. served(m)
  BY <1>3, <1>4, Zenon DEF RecentFrom
<1>6. ReadsSince(arch, since, max) <=> \E i \in 1 .. Len(kept) + 1 : served(i)
  BY <1>1, Zenon DEF ReadsSince
<1> HIDE DEF served
<1> QED  BY <1>3, <1>5, <1>6

LEMMA ArchiveServes ==
  ASSUME NEW step \in Nat \ {0}, NEW capacity \in Nat \ {0}, NEW t \in Nat, NEW arch, NEW log,
         ArchiveInv(arch, log, step, capacity, t)
  PROVE  ReadersServed(arch)
<1> DEFINE kept == Kept(arch)
<1>1. /\ Ring(arch, step, capacity, t)
      /\ log = <<>> => arch.count = 0 /\ arch.samples = 0
      /\ log # <<>> => arch.samples > 0
      /\ Rising(kept)
  BY DEF ArchiveInv, KeptRight, Rising
<1>2. /\ arch.capacity = capacity /\ arch.count \in 0 .. capacity /\ arch.samples \in 0 .. MaxSamples
  BY <1>1, RingFields
<1>3. /\ kept \in Seq(Points3)
      /\ Len(kept) = arch.count + (IF arch.samples > 0 THEN 1 ELSE 0)
      /\ arch.samples > 0 => kept[arch.count + 1] = Current(arch)
  BY <1>1, KeptIndexed
<1>4. \A k \in 1 .. Len(kept) : kept[k].ts \in Nat
  BY <1>3, PointTimes
<1> HIDE DEF kept
<1>5. HasLatest(arch) <=> kept # <<>>
  <2>1. kept # <<>> <=> Len(kept) # 0
    BY <1>3
  <2> QED  BY <1>2, <1>3, <2>1, Sizes DEF HasLatest
<1>6. ASSUME kept # <<>> PROVE Latest(arch) = kept[Len(kept)]
  <2>1. arch.samples > 0
    <3>1. Len(kept) # 0
      BY <1>3, <1>6
    <3> QED  BY <1>1, <1>2, <1>3, <3>1, Sizes
  <2>2. Len(kept) = arch.count + 1
    BY <1>3, <2>1
  <2> QED  BY <1>3, <2>1, <2>2 DEF Latest
<1>7. ASSUME NEW since \in {0} \cup {kept[k].ts + d : k \in 1 .. Len(kept), d \in {0, 1}},
             NEW max \in 1 .. arch.capacity + 1
      PROVE  ReadsSince(arch, since, max)
  <2>1. since \in Nat /\ max \in Nat \ {0}
    BY <1>2, <1>4
  <2> QED  BY <1>1, <1>3, <2>1, ArchiveReads DEF kept
<1> QED  BY <1>5, <1>6, <1>7 DEF ReadersServed, kept

-----------------------------------------------------------------------------
(***************************************************************************)
(* The ring of the graph, read from its newest value.                      *)
(***************************************************************************)
\* Buffers of which no time is after t.
Buffers(t) ==
  [vals : [0 .. GraphSize - 1 -> Value \cup {0}], head : 0 .. GraphSize - 1,
   count : 0 .. GraphSize, last : 0 .. t]

\* The ring is filled from its beginning.
Filled(b) == b.count < GraphSize => b.head = b.count

\* The value that is i slots older than the newest.
PlaceBack(head, i) == IF i < head THEN head - 1 - i ELSE head + GraphSize - 1 - i
Back(b, i) == b.vals[PlaceBack(b.head, i)]

\* A buffer is its four fields.
IsBuffer(b) == b = [vals |-> b.vals, head |-> b.head, count |-> b.count, last |-> b.last]

LEMMA BufferFields ==
  ASSUME NEW t, NEW b \in Buffers(t)
  PROVE  /\ b.vals \in [0 .. GraphSize - 1 -> Value \cup {0}] /\ b.head \in 0 .. GraphSize - 1
         /\ b.count \in 0 .. GraphSize /\ b.last \in 0 .. t
         /\ IsBuffer(b)
  BY DEF Buffers, IsBuffer

\* A place of the ring.
At(x) == x % GraphSize

LEMMA AtWraps ==
  ASSUME NEW x \in 0 .. GraphSize + GraphSize - 1
  PROVE  At(x) = IF x < GraphSize THEN x ELSE x - GraphSize
<1>1. GraphSize \in Nat \ {0}
  BY Sizes
<1>2. x \in Int /\ 0 <= x /\ x < GraphSize + GraphSize
  BY <1>1
<1> QED  BY <1>1, <1>2, Wrap DEF At

LEMMA BackInRing ==
  ASSUME NEW head \in 0 .. GraphSize - 1, NEW i \in 0 .. GraphSize - 1
  PROVE  PlaceBack(head, i) \in 0 .. GraphSize - 1
  BY Sizes DEF PlaceBack

\* The newest value, where it is replaced and where the next one goes.
LEMMA NewestBack ==
  ASSUME NEW t, NEW b \in Buffers(t)
  PROVE  Newest(b) = PlaceBack(b.head, 0) /\ b.vals[Newest(b)] = Back(b, 0)
<1>1. b.head \in 0 .. GraphSize - 1 /\ GraphSize \in Nat \ {0}
  BY BufferFields, Sizes
<1> DEFINE h == b.head
<1>2. h \in 0 .. GraphSize - 1
  BY <1>1
<1> HIDE DEF h
<1>3. At(h + GraphSize - 1) = PlaceBack(h, 0)
  <2>1. h + GraphSize - 1 \in 0 .. GraphSize + GraphSize - 1
    BY <1>1, <1>2
  <2>2. At(h + GraphSize - 1) =
          IF h + GraphSize - 1 < GraphSize THEN h + GraphSize - 1 ELSE h + GraphSize - 1 - GraphSize
    BY <1>1, <1>2, <2>1, AtWraps
  <2> QED  BY <1>1, <1>2, <2>2 DEF PlaceBack
<1>4. Newest(b) = PlaceBack(b.head, 0)
  BY <1>3 DEF Newest, At, h
<1> QED  BY <1>4 DEF Back

\* The chart from its newest value.
LEMMA ChartBack ==
  ASSUME NEW t, NEW b \in Buffers(t), Filled(b)
  PROVE  /\ Chart(b) = [k \in 1 .. b.count |-> Back(b, b.count - k)]
<1> DEFINE first == IF b.count < GraphSize THEN 0 ELSE b.head
           h == b.head
           c == b.count
<1>1. h \in 0 .. GraphSize - 1 /\ c \in 0 .. GraphSize /\ (c < GraphSize => h = c) /\ GraphSize \in Nat \ {0}
  BY BufferFields, Sizes DEF Filled
<1>2. first = IF c < GraphSize THEN 0 ELSE h
  OBVIOUS
<1> HIDE DEF first, h, c
<1>3. ASSUME NEW k \in 1 .. c PROVE At(first + k - 1) = PlaceBack(h, c - k)
  <2>1. first + k - 1 \in 0 .. GraphSize + GraphSize - 1
    BY <1>1, <1>2
  <2>2. At(first + k - 1) =
          IF first + k - 1 < GraphSize THEN first + k - 1 ELSE first + k - 1 - GraphSize
    BY <1>1, <1>2, <1>3, <2>1, AtWraps
  <2> QED  BY <1>1, <1>2, <2>2 DEF PlaceBack
<1>4. Chart(b) = [k \in 1 .. b.count |-> b.vals[At(first + k - 1)]]
  BY DEF Chart, At, first
<1> QED  BY <1>3, <1>4 DEF Back, h, c

\* What the pushes make of the fields of a buffer.
LEMMA PushFields ==
  ASSUME NEW b, IsBuffer(b), NEW v, NEW next, next = PushValue(b, v)
  PROVE  /\ next.vals = [b.vals EXCEPT ![b.head] = v] /\ next.last = b.last
         /\ next.head = At(b.head + 1)
         /\ next.count = IF b.count < GraphSize THEN b.count + 1 ELSE b.count
         /\ IsBuffer(next)
<1>1. PICK vals, head, count, last :
        b = [vals |-> vals, head |-> head, count |-> count, last |-> last]
  BY DEF IsBuffer
<1> QED  BY <1>1 DEF PushValue, At, IsBuffer

LEMMA PushTimesFields ==
  ASSUME NEW b, IsBuffer(b), NEW v, NEW n, NEW next, next = PushTimes(b, v, n)
  PROVE  /\ next.vals = [p \in 0 .. GraphSize - 1 |->
                           IF At(p + GraphSize - b.head) < n THEN v ELSE b.vals[p]]
         /\ next.last = b.last /\ next.head = At(b.head + n)
         /\ next.count = IF b.count + n < GraphSize THEN b.count + n ELSE GraphSize
         /\ IsBuffer(next)
<1>1. PICK vals, head, count, last :
        b = [vals |-> vals, head |-> head, count |-> count, last |-> last]
  BY DEF IsBuffer
<1> QED  BY <1>1 DEF PushTimes, At, IsBuffer

\* buf_push: the others become one slot older.
LEMMA ValuePushed ==
  ASSUME NEW t \in Nat, NEW b \in Buffers(t), Filled(b), NEW v \in Value, NEW next, next = PushValue(b, v)
  PROVE  /\ next \in Buffers(t) /\ Filled(next) /\ next.last = b.last
         /\ next.count = IF b.count < GraphSize THEN b.count + 1 ELSE GraphSize
         /\ Back(next, 0) = v
         /\ \A i \in 1 .. GraphSize - 1 : Back(next, i) = Back(b, i - 1)
<1>1. /\ b.vals \in [0 .. GraphSize - 1 -> Value \cup {0}] /\ b.head \in 0 .. GraphSize - 1
      /\ b.count \in 0 .. GraphSize /\ b.last \in 0 .. t /\ GraphSize \in Nat \ {0}
  BY BufferFields, Sizes
<1>2. /\ next.vals = [b.vals EXCEPT ![b.head] = v] /\ next.last = b.last
      /\ next.head = At(b.head + 1)
      /\ next.count = IF b.count < GraphSize THEN b.count + 1 ELSE b.count
      /\ IsBuffer(next)
  BY BufferFields, PushFields
<1> DEFINE h == b.head
           c == b.count
           g == next.head
<1>3. h \in 0 .. GraphSize - 1 /\ c \in 0 .. GraphSize /\ (c < GraphSize => h = c)
  BY <1>1 DEF Filled
<1>4. g = At(h + 1)
  BY <1>2
<1> HIDE DEF h, c, g
<1>5. g = IF h + 1 < GraphSize THEN h + 1 ELSE 0
  <2>1. h + 1 \in 0 .. GraphSize + GraphSize - 1
    BY <1>1, <1>3
  <2>2. g = IF h + 1 < GraphSize THEN h + 1 ELSE h + 1 - GraphSize
    BY <1>1, <1>3, <1>4, <2>1, AtWraps
  <2> QED  BY <1>1, <1>3, <2>2
<1>6. g \in 0 .. GraphSize - 1 /\ PlaceBack(g, 0) = h
      /\ \A i \in 1 .. GraphSize - 1 : PlaceBack(g, i) = PlaceBack(h, i - 1) /\ PlaceBack(g, i) # h
  BY <1>1, <1>3, <1>5 DEF PlaceBack
<1>7. \A i \in 0 .. GraphSize - 1 : PlaceBack(g, i) \in 0 .. GraphSize - 1
  BY <1>6, BackInRing
<1>8. next.count \in 0 .. GraphSize /\ next.count = IF c < GraphSize THEN c + 1 ELSE GraphSize
  BY <1>1, <1>2 DEF c
<1>9. next.vals \in [0 .. GraphSize - 1 -> Value \cup {0}]
  BY <1>1, <1>2
<1>10. next \in Buffers(t)
  BY <1>1, <1>2, <1>6, <1>8, <1>9 DEF Buffers, IsBuffer, g
<1>11. Filled(next)
  <2>1. next.count < GraphSize => next.count = c + 1 /\ c < GraphSize /\ c + 1 < GraphSize
    BY <1>1, <1>3, <1>8
  <2> QED  BY <1>3, <1>5, <2>1 DEF Filled, g
<1>12. Back(next, 0) = v
  BY <1>1, <1>2, <1>6 DEF Back, g, h
<1>13. ASSUME NEW i \in 1 .. GraphSize - 1 PROVE Back(next, i) = Back(b, i - 1)
  <2>1. PICK p : p = PlaceBack(g, i)
    OBVIOUS
  <2>2. i \in 0 .. GraphSize - 1
    BY <1>1
  <2>3. p \in 0 .. GraphSize - 1 /\ p # b.head
    BY <1>6, <1>7, <2>1, <2>2 DEF h
  <2>4. next.vals[p] = b.vals[p]
    BY <1>1, <1>2, <2>3
  <2> QED  BY <1>6, <2>1, <2>4 DEF Back, g, h
<1> QED  BY <1>2, <1>8, <1>10, <1>11, <1>12, <1>13 DEF c

\* buf_set_latest: the others stay.
LEMMA ValueReplaced ==
  ASSUME NEW t \in Nat, NEW b \in Buffers(t), Filled(b), NEW v \in Value, NEW next, next = SetNewest(b, v)
  PROVE  /\ next \in Buffers(t) /\ Filled(next) /\ next.last = b.last /\ next.count = b.count
         /\ Back(next, 0) = v
         /\ \A i \in 1 .. GraphSize - 1 : Back(next, i) = Back(b, i)
<1>1. /\ b.vals \in [0 .. GraphSize - 1 -> Value \cup {0}] /\ b.head \in 0 .. GraphSize - 1
      /\ b.count \in 0 .. GraphSize /\ b.last \in 0 .. t /\ GraphSize \in Nat \ {0}
  BY BufferFields, Sizes
<1>2. /\ next.vals = [b.vals EXCEPT ![Newest(b)] = v] /\ next.last = b.last
      /\ next.head = b.head /\ next.count = b.count
      /\ IsBuffer(next)
  BY BufferFields DEF SetNewest, IsBuffer
<1> DEFINE h == b.head
<1>3. h \in 0 .. GraphSize - 1
  BY <1>1
<1>4. Newest(b) = PlaceBack(h, 0)
  BY NewestBack
<1> HIDE DEF h
<1>5. \A i \in 1 .. GraphSize - 1 : PlaceBack(h, i) # PlaceBack(h, 0)
  BY <1>1, <1>3 DEF PlaceBack
<1>6. \A i \in 0 .. GraphSize - 1 : PlaceBack(h, i) \in 0 .. GraphSize - 1
  BY <1>3, BackInRing
<1>7. next.vals \in [0 .. GraphSize - 1 -> Value \cup {0}]
  BY <1>1, <1>2
<1>8. next \in Buffers(t)
  BY <1>1, <1>2, <1>7 DEF Buffers, IsBuffer
<1>9. Filled(next)
  BY <1>2 DEF Filled
<1>10. Back(next, 0) = v
  <2>1. PlaceBack(h, 0) \in 0 .. GraphSize - 1
    BY <1>1, <1>6
  <2> QED  BY <1>1, <1>2, <1>4, <2>1 DEF Back, h
<1>11. ASSUME NEW i \in 1 .. GraphSize - 1 PROVE Back(next, i) = Back(b, i)
  <2>1. next.vals[PlaceBack(h, i)] = b.vals[PlaceBack(h, i)]
    BY <1>1, <1>2, <1>4, <1>5, <1>6
  <2> QED  BY <1>2, <2>1 DEF Back, h
<1> QED  BY <1>2, <1>8, <1>9, <1>10, <1>11
\* A loop of buf_push in one: the last n values are the pushed one.
LEMMA ValuesPushed ==
  ASSUME NEW t \in Nat, NEW b \in Buffers(t), Filled(b), NEW v \in Value \cup {0},
         NEW n \in 0 .. GraphSize - 1, NEW next, next = PushTimes(b, v, n)
  PROVE  /\ next \in Buffers(t) /\ Filled(next) /\ next.last = b.last
         /\ next.count = IF b.count + n < GraphSize THEN b.count + n ELSE GraphSize
         /\ \A i \in 0 .. n - 1 : Back(next, i) = v
         /\ \A i \in n .. GraphSize - 1 : Back(next, i) = Back(b, i - n)
<1>1. /\ b.vals \in [0 .. GraphSize - 1 -> Value \cup {0}] /\ b.head \in 0 .. GraphSize - 1
      /\ b.count \in 0 .. GraphSize /\ b.last \in 0 .. t /\ GraphSize \in Nat \ {0}
  BY BufferFields, Sizes
<1> DEFINE after(p) == At(p + GraphSize - b.head)
<1>2. /\ next.vals = [p \in 0 .. GraphSize - 1 |-> IF after(p) < n THEN v ELSE b.vals[p]]
      /\ next.last = b.last /\ next.head = At(b.head + n)
      /\ next.count = IF b.count + n < GraphSize THEN b.count + n ELSE GraphSize
      /\ IsBuffer(next)
  BY BufferFields, PushTimesFields
<1> DEFINE h == b.head
           c == b.count
           g == next.head
<1>3. h \in 0 .. GraphSize - 1 /\ c \in 0 .. GraphSize /\ (c < GraphSize => h = c)
  BY <1>1 DEF Filled
<1>4. g = IF h + n < GraphSize THEN h + n ELSE h + n - GraphSize
  <2>1. h + n \in 0 .. GraphSize + GraphSize - 1
    BY <1>1, <1>3
  <2> QED  BY <1>1, <1>2, <1>3, <2>1, AtWraps
<1>5. ASSUME NEW p \in 0 .. GraphSize - 1
      PROVE  after(p) = IF p < h THEN p + GraphSize - h ELSE p - h
  <2>1. after(p) = At(p + GraphSize - h)
    OBVIOUS
  <2> HIDE DEF after, h
  <2>2. p + GraphSize - h \in 0 .. GraphSize + GraphSize - 1
    BY <1>1, <1>3
  <2>3. At(p + GraphSize - h) =
          IF p + GraphSize - h < GraphSize THEN p + GraphSize - h ELSE p + GraphSize - h - GraphSize
    BY <1>1, <1>3, <2>2, AtWraps
  <2> QED  BY <1>1, <1>3, <2>1, <2>3
<1> HIDE DEF h, c, g, after
<1>6. \A i \in 0 .. GraphSize - 1 : PlaceBack(g, i) \in 0 .. GraphSize - 1
  <2>1. g \in 0 .. GraphSize - 1
    BY <1>1, <1>3, <1>4
  <2> QED  BY <2>1, BackInRing
<1>7. ASSUME NEW i \in 0 .. n - 1
      PROVE  PlaceBack(g, i) \in 0 .. GraphSize - 1 /\ after(PlaceBack(g, i)) < n
  <2> DEFINE p == PlaceBack(g, i)
  <2>1. i \in 0 .. GraphSize - 1
    BY <1>1
  <2>2. p \in 0 .. GraphSize - 1
    BY <1>6, <2>1
  <2>3. after(p) = IF p < h THEN p + GraphSize - h ELSE p - h
    BY <1>5, <2>2
  <2>4. p = IF i < g THEN g - 1 - i ELSE g + GraphSize - 1 - i
    BY DEF PlaceBack
  <2> HIDE DEF p
  <2>5. (IF p < h THEN p + GraphSize - h ELSE p - h) < n
    BY <1>1, <1>3, <1>4, <2>4
  <2> QED  BY <2>2, <2>3, <2>5 DEF p
<1>8. ASSUME NEW i \in n .. GraphSize - 1
      PROVE  /\ PlaceBack(g, i) \in 0 .. GraphSize - 1 /\ ~(after(PlaceBack(g, i)) < n)
             /\ PlaceBack(g, i) = PlaceBack(h, i - n)
  <2> DEFINE p == PlaceBack(g, i)
  <2>1. i \in 0 .. GraphSize - 1
    BY <1>1
  <2>2. p \in 0 .. GraphSize - 1
    BY <1>6, <2>1
  <2>3. after(p) = IF p < h THEN p + GraphSize - h ELSE p - h
    BY <1>5, <2>2
  <2>4. p = IF i < g THEN g - 1 - i ELSE g + GraphSize - 1 - i
    BY DEF PlaceBack
  <2> HIDE DEF p
  <2>5. ~((IF p < h THEN p + GraphSize - h ELSE p - h) < n)
    BY <1>1, <1>3, <1>4, <2>4
  <2>6. p = PlaceBack(h, i - n)
    BY <1>1, <1>3, <1>4, <2>4 DEF PlaceBack
  <2> QED  BY <2>2, <2>3, <2>5, <2>6 DEF p
<1>9. next.count \in 0 .. GraphSize /\ g \in 0 .. GraphSize - 1
  <2>1. next.count = IF c + n < GraphSize THEN c + n ELSE GraphSize
    BY <1>2 DEF c
  <2> QED  BY <1>1, <1>3, <1>4, <2>1
<1>10. next.vals \in [0 .. GraphSize - 1 -> Value \cup {0}]
  <2>1. \A p \in 0 .. GraphSize - 1 : (IF after(p) < n THEN v ELSE b.vals[p]) \in Value \cup {0}
    BY <1>1
  <2> QED  BY <1>2, <2>1
<1>11. next \in Buffers(t)
  BY <1>1, <1>2, <1>9, <1>10 DEF Buffers, IsBuffer, g
<1>12. Filled(next)
  <2>1. next.count = IF c + n < GraphSize THEN c + n ELSE GraphSize
    BY <1>2 DEF c
  <2>2. next.count < GraphSize => next.count = c + n /\ c < GraphSize /\ c + n < GraphSize
    BY <1>1, <1>3, <2>1
  <2>3. next.count < GraphSize => g = next.count
    BY <1>1, <1>3, <1>4, <2>2
  <2> QED  BY <2>3 DEF Filled, g
<1>13. ASSUME NEW i \in 0 .. n - 1 PROVE Back(next, i) = v
  <2>1. next.vals[PlaceBack(g, i)] = v
    BY <1>2, <1>7
  <2> QED  BY <2>1 DEF Back, g
<1>14. ASSUME NEW i \in n .. GraphSize - 1 PROVE Back(next, i) = Back(b, i - n)
  <2>1. next.vals[PlaceBack(g, i)] = b.vals[PlaceBack(g, i)]
    BY <1>2, <1>8
  <2> QED  BY <1>8, <2>1 DEF Back, g, h
<1> QED  BY <1>2, <1>11, <1>12, <1>13, <1>14

\* Written out, the closed form is the loop: no push leaves the buffer as it is,
\* and one more push is a loop of one more.
THEOREM PushTimesIsTheLoop ==
  ASSUME NEW t \in Nat, NEW b \in Buffers(t), NEW v \in Value
  PROVE  /\ PushTimes(b, v, 0) = b
         /\ \A n \in 0 .. GraphSize - 1 :
              PushTimes(b, v, n + 1) = PushValue(PushTimes(b, v, n), v)
<1> DEFINE h == b.head
           c == b.count
           after(p) == At(p + GraphSize - b.head)
           filled(n) == [p \in 0 .. GraphSize - 1 |-> IF after(p) < n THEN v ELSE b.vals[p]]
           counted(n) == IF c + n < GraphSize THEN c + n ELSE GraphSize
<1>1. /\ b.vals \in [0 .. GraphSize - 1 -> Value \cup {0}] /\ h \in 0 .. GraphSize - 1
      /\ c \in 0 .. GraphSize /\ GraphSize \in Nat \ {0}
  BY BufferFields, Sizes
<1>2. ASSUME NEW n, NEW x, x = PushTimes(b, v, n)
      PROVE  /\ x.vals = filled(n) /\ x.head = At(h + n) /\ x.count = counted(n) /\ x.last = b.last
             /\ IsBuffer(x)
  BY <1>2, BufferFields, PushTimesFields
<1>3. ASSUME NEW p \in 0 .. GraphSize - 1
      PROVE  after(p) = IF p < h THEN p + GraphSize - h ELSE p - h
  <2>1. after(p) = At(p + GraphSize - h)
    OBVIOUS
  <2> HIDE DEF after, h
  <2>2. p + GraphSize - h \in 0 .. GraphSize + GraphSize - 1
    BY <1>1
  <2>3. At(p + GraphSize - h) =
          IF p + GraphSize - h < GraphSize THEN p + GraphSize - h ELSE p + GraphSize - h - GraphSize
    BY <1>1, <2>2, AtWraps
  <2> QED  BY <1>1, <2>1, <2>3
<1>4. ASSUME NEW x, IsBuffer(x), NEW y, IsBuffer(y),
             x.vals = y.vals, x.head = y.head, x.count = y.count, x.last = y.last
      PROVE  x = y
  BY <1>4, Zenon DEF IsBuffer
<1> HIDE DEF after, h, c, filled, counted
<1>5. PushTimes(b, v, 0) = b
  <2>1. PICK x : x = PushTimes(b, v, 0)
    OBVIOUS
  <2>2. x.vals = filled(0) /\ x.head = At(h + 0) /\ x.count = counted(0) /\ x.last = b.last /\ IsBuffer(x)
    BY <1>2, <2>1
  <2>3. \A p \in 0 .. GraphSize - 1 : ~(after(p) < 0)
    BY <1>1, <1>3
  <2>4. filled(0) = b.vals
    BY <1>1, <2>3 DEF filled
  <2>5. At(h + 0) = h
    <3>1. h + 0 = h /\ h \in 0 .. GraphSize + GraphSize - 1 /\ h < GraphSize
      BY <1>1
    <3>2. At(h) = h
      BY <3>1, AtWraps
    <3> QED  BY <3>1, <3>2
  <2>6. counted(0) = c
    BY <1>1 DEF counted
  <2>7. x = b
    BY <1>4, <2>2, <2>4, <2>5, <2>6, BufferFields DEF h, c
  <2> QED  BY <2>1, <2>7
<1>6. ASSUME NEW n \in 0 .. GraphSize - 1
      PROVE  PushTimes(b, v, n + 1) = PushValue(PushTimes(b, v, n), v)
  <2>1. PICK x, y, z : x = PushTimes(b, v, n) /\ y = PushTimes(b, v, n + 1) /\ z = PushValue(x, v)
    OBVIOUS
  <2> DEFINE g == At(h + n)
             d == counted(n)
  <2>2. x.vals = filled(n) /\ x.head = g /\ x.count = d /\ x.last = b.last /\ IsBuffer(x)
    BY <1>2, <2>1
  <2>3. /\ y.vals = filled(n + 1) /\ y.head = At(h + (n + 1)) /\ y.count = counted(n + 1)
        /\ y.last = b.last /\ IsBuffer(y)
    BY <1>2, <2>1
  <2>4. g = IF h + n < GraphSize THEN h + n ELSE h + n - GraphSize
    <3>1. h + n \in 0 .. GraphSize + GraphSize - 1
      BY <1>1
    <3> QED  BY <1>1, <3>1, AtWraps
  <2>5. g \in 0 .. GraphSize - 1
    BY <1>1, <2>4
  <2> HIDE DEF g, d
  <2>6. /\ z.vals = [filled(n) EXCEPT ![g] = v] /\ z.head = At(g + 1)
        /\ z.count = IF d < GraphSize THEN d + 1 ELSE d
        /\ z.last = b.last /\ IsBuffer(z)
    <3>1. /\ z.vals = [x.vals EXCEPT ![x.head] = v] /\ z.head = At(x.head + 1)
          /\ z.count = IF x.count < GraphSize THEN x.count + 1 ELSE x.count
          /\ z.last = x.last /\ IsBuffer(z)
      BY <2>1, <2>2, PushFields
    <3> QED  BY <2>2, <3>1
  <2>7. filled(n + 1) = [filled(n) EXCEPT ![g] = v]
    <3>1. ASSUME NEW p \in 0 .. GraphSize - 1
          PROVE  (after(p) < n + 1) <=> (after(p) < n \/ p = g)
      <4>1. after(p) = IF p < h THEN p + GraphSize - h ELSE p - h
        BY <1>3
      <4> QED  BY <1>1, <2>4, <2>5, <4>1
    <3>2. ASSUME NEW p \in 0 .. GraphSize - 1
          PROVE  (IF after(p) < n + 1 THEN v ELSE b.vals[p]) =
                   IF p = g THEN v ELSE IF after(p) < n THEN v ELSE b.vals[p]
      BY <3>1
    <3> QED  BY <2>5, <3>2 DEF filled
  <2>8. At(h + (n + 1)) = At(g + 1)
    <3>1. /\ g + 1 \in 0 .. GraphSize + GraphSize - 1 /\ h + (n + 1) \in 0 .. GraphSize + GraphSize - 1
      BY <1>1, <2>5
    <3>2. At(g + 1) = IF g + 1 < GraphSize THEN g + 1 ELSE g + 1 - GraphSize
      BY <1>1, <2>5, <3>1, AtWraps
    <3>3. At(h + (n + 1)) = IF h + (n + 1) < GraphSize THEN h + (n + 1) ELSE h + (n + 1) - GraphSize
      BY <1>1, <3>1, AtWraps
    <3> QED  BY <1>1, <2>4, <3>2, <3>3
  <2>9. counted(n + 1) = IF d < GraphSize THEN d + 1 ELSE d
    BY <1>1 DEF counted, d
  <2>10. y = z
    BY <1>4, <2>3, <2>6, <2>7, <2>8, <2>9
  <2> QED  BY <2>1, <2>10
<1> QED  BY <1>5, <1>6
-----------------------------------------------------------------------------
(***************************************************************************)
(* The list of what is drawn, and its value in every column of the chart.  *)
(***************************************************************************)
DrawnEntries(t) == [ts : 0 .. t, v : Value, column : Nat]

\* Columns do not go back, and the first is column 1.
Drawing(log, t) ==
  /\ log \in Seq(DrawnEntries(t))
  /\ log # <<>> => log[1].column = 1
  /\ \A j, k \in 1 .. Len(log) : j <= k => log[j].column <= log[k].column

\* The list with one measurement more, whose column is not before the others.
DrawsOn(more, log, ts, v, s) ==
  /\ more = Append(log, [ts |-> ts, v |-> v, column |-> s])
  /\ s \in Nat /\ End(log) <= s
  /\ log = <<>> => s = 1

Upto(log, i) == {k \in 1 .. Len(log) : log[k].column <= i}

LEMMA DrawingFields ==
  ASSUME NEW t \in Nat, NEW log, Drawing(log, t)
  PROVE  /\ Len(log) \in Nat /\ (log = <<>> <=> Len(log) = 0)
         /\ End(log) \in Nat
         /\ \A k \in 1 .. Len(log) : log[k].column \in Nat /\ log[k].ts \in 0 .. t /\ log[k].v \in Value
<1>1. Len(log) \in Nat /\ (log = <<>> <=> Len(log) = 0)
      /\ \A k \in 1 .. Len(log) : log[k] \in DrawnEntries(t)
  BY DEF Drawing
<1>2. \A k \in 1 .. Len(log) : log[k].column \in Nat /\ log[k].ts \in 0 .. t /\ log[k].v \in Value
  BY <1>1 DEF DrawnEntries
<1>3. End(log) \in Nat
  <2>1. log # <<>> => Len(log) \in 1 .. Len(log)
    BY <1>1
  <2> QED  BY <1>2, <2>1 DEF End
<1> QED  BY <1>1, <1>2, <1>3

LEMMA FirstColumn ==
  ASSUME NEW t \in Nat, NEW log, Drawing(log, t), log # <<>>
  PROVE  End(log) = log[Len(log)].column /\ End(log) \in Nat \ {0}
<1>1. Len(log) \in 1 .. Len(log) /\ 1 \in 1 .. Len(log) /\ 1 <= Len(log)
  BY DrawingFields
<1>2. log[1].column <= log[Len(log)].column /\ log[1].column = 1
  BY <1>1 DEF Drawing
<1>3. log[Len(log)].column \in Nat
  BY <1>1, DrawingFields
<1> QED  BY <1>2, <1>3 DEF End

\* The value of a column is that of the last measurement up to it.
LEMMA ValueThere ==
  ASSUME NEW t \in Nat, NEW log, Drawing(log, t), log # <<>>, NEW i \in Nat \ {0}
  PROVE  /\ Upto(log, i) # {} /\ Upto(log, i) \subseteq 1 .. Len(log)
         /\ LastOf(Upto(log, i)) \in Upto(log, i)
         /\ ValueAt(log, i) = log[LastOf(Upto(log, i))].v
         /\ End(log) <= i => LastOf(Upto(log, i)) = Len(log)
<1>1. /\ Len(log) \in Nat /\ Len(log) # 0 /\ End(log) = log[Len(log)].column
      /\ log[1].column = 1
  BY DrawingFields DEF Drawing, End
<1>2. 1 \in Upto(log, i) /\ Upto(log, i) \subseteq 1 .. Len(log)
  BY <1>1 DEF Upto
<1>3. LastOf(Upto(log, i)) \in Upto(log, i) /\ \A j \in Upto(log, i) : j <= LastOf(Upto(log, i))
  BY <1>1, <1>2, FirstAndLast
<1>4. ASSUME End(log) <= i PROVE LastOf(Upto(log, i)) = Len(log)
  <2>1. Len(log) \in Upto(log, i)
    BY <1>1, <1>4 DEF Upto
  <2>2. Len(log) <= LastOf(Upto(log, i)) /\ LastOf(Upto(log, i)) \in 1 .. Len(log)
    BY <1>2, <1>3, <2>1
  <2> QED  BY <1>1, <2>2
<1> QED  BY <1>2, <1>3, <1>4 DEF ValueAt, Upto

LEMMA DrawnOn ==
  ASSUME NEW t \in Nat, NEW log, Drawing(log, t), NEW ts \in Nat, t <= ts, NEW v \in Value,
         NEW s, NEW more, DrawsOn(more, log, ts, v, s)
  PROVE  /\ Drawing(more, ts) /\ more # <<>> /\ End(more) = s /\ s \in Nat \ {0}
         /\ more[Len(more)].ts = ts
         /\ ValueAt(more, s) = v
         /\ log # <<>> => \A i \in Nat \ {0} : i < s => ValueAt(more, i) = ValueAt(log, i)
<1> DEFINE n == Len(log)
           e == [ts |-> ts, v |-> v, column |-> s]
<1>1. /\ n \in Nat /\ (log = <<>> <=> n = 0) /\ End(log) \in Nat
      /\ \A k \in 1 .. n : log[k].column \in Nat
  BY DrawingFields
<1>2. more = Append(log, e) /\ s \in Nat /\ End(log) <= s /\ (log = <<>> => s = 1)
  BY DEF DrawsOn
<1>3. e \in DrawnEntries(ts) /\ log \in Seq(DrawnEntries(ts))
  <2>1. DrawnEntries(t) \subseteq DrawnEntries(ts)
    BY DEF DrawnEntries
  <2>2. log \in Seq(DrawnEntries(t))
    BY DEF Drawing
  <2>3. log \in Seq(DrawnEntries(ts))
    BY <2>1, <2>2
  <2>4. e \in DrawnEntries(ts)
    BY <1>2 DEF DrawnEntries
  <2> QED  BY <2>3, <2>4
<1>4. e.column = s /\ e.ts = ts /\ e.v = v
  OBVIOUS
<1> HIDE DEF e, n
<1>5. /\ more \in Seq(DrawnEntries(ts)) /\ Len(more) = n + 1
      /\ more[n + 1] = e /\ \A k \in 1 .. n : more[k] = log[k]
  BY <1>2, <1>3, AppendIndexed DEF n
<1>6. /\ more # <<>> /\ End(more) = s /\ more[Len(more)].ts = ts /\ more[n + 1].column = s
      /\ more[n + 1].v = v
  BY <1>1, <1>4, <1>5 DEF End
<1>7. \A k \in 1 .. n : log[k].column <= s
  <2>1. ASSUME NEW k \in 1 .. n PROVE log[k].column <= End(log)
    <3>1. log # <<>> /\ n \in 1 .. n /\ k <= n
      BY <1>1
    <3> QED  BY <3>1 DEF End, Drawing, n
  <2>2. \A k \in 1 .. n : log[k].column <= End(log) /\ log[k].column \in Nat
    BY <1>1, <2>1
  <2> QED  BY <1>1, <1>2, <2>2
<1>12. \A j, k \in 1 .. Len(more) : j <= k => more[j].column <= more[k].column
  <2>1. SUFFICES ASSUME NEW j \in 1 .. n + 1, NEW k \in 1 .. n + 1, j <= k
                 PROVE  more[j].column <= more[k].column
    BY <1>5
  <2>2. CASE k = n + 1 /\ j \in 1 .. n
    BY <1>5, <1>6, <1>7, <2>2
  <2>3. CASE k = n + 1 /\ j = n + 1
    <3>1. more[j].column = s /\ more[k].column = s
      BY <1>6, <2>3
    <3> QED  BY <1>2, <3>1
  <2>4. CASE k \in 1 .. n
    <3>1. j \in 1 .. n
      BY <1>1, <2>1, <2>4
    <3>2. log[j].column <= log[k].column
      BY <2>1, <2>4, <3>1 DEF Drawing, n
    <3> QED  BY <1>5, <2>4, <3>1, <3>2
  <2>5. k = n + 1 \/ k \in 1 .. n
    BY <1>1
  <2>6. j = n + 1 \/ j \in 1 .. n
    BY <1>1
  <2> QED  BY <2>2, <2>3, <2>4, <2>5, <2>6
<1>13. more[1].column = 1
  <2>1. CASE log = <<>>
    BY <1>1, <1>2, <1>6, <2>1
  <2>2. CASE log # <<>>
    <3>1. 1 \in 1 .. n
      BY <1>1, <2>2
    <3>2. log[1].column = 1
      BY <2>2 DEF Drawing
    <3> QED  BY <1>5, <3>1, <3>2
  <2> QED  BY <2>1, <2>2
<1>8. Drawing(more, ts)
  BY <1>5, <1>12, <1>13 DEF Drawing
<1>9. s \in Nat \ {0}
  <2>1. 1 \in 1 .. Len(more) /\ n + 1 \in 1 .. Len(more) /\ 1 <= n + 1
    BY <1>1, <1>5
  <2>2. more[1].column <= more[n + 1].column
    BY <1>12, <2>1
  <2> QED  BY <1>2, <1>6, <1>13, <2>2
<1>10. ValueAt(more, s) = v
  <2>1. End(more) <= s
    BY <1>2, <1>6
  <2>2. LastOf(Upto(more, s)) = Len(more) /\ ValueAt(more, s) = more[LastOf(Upto(more, s))].v
    BY <1>6, <1>8, <1>9, <2>1, ValueThere
  <2> QED  BY <1>5, <1>6, <2>2
<1>11. ASSUME log # <<>>, NEW i \in Nat \ {0}, i < s PROVE ValueAt(more, i) = ValueAt(log, i)
  <2>1. Upto(more, i) = Upto(log, i)
    <3>1. ASSUME NEW k PROVE k \in Upto(more, i) <=> k \in Upto(log, i)
      <4>1. k \in 1 .. Len(more) <=> k \in 1 .. n \/ k = n + 1
        BY <1>1, <1>5
      <4>2. ~(more[n + 1].column <= i) /\ ~(n + 1 \in 1 .. n)
        BY <1>1, <1>2, <1>6, <1>11
      <4> QED  BY <1>5, <4>1, <4>2 DEF Upto, n
    <3> QED  BY <3>1
  <2>2. /\ LastOf(Upto(log, i)) \in 1 .. n
        /\ ValueAt(log, i) = log[LastOf(Upto(log, i))].v
    BY <1>11, ValueThere DEF n
  <2>3. ValueAt(more, i) = more[LastOf(Upto(more, i))].v
    BY <1>6, <1>8, ValueThere
  <2> QED  BY <1>5, <2>1, <2>2, <2>3
<1> QED  BY <1>6, <1>8, <1>9, <1>10, <1>11
-----------------------------------------------------------------------------
(***************************************************************************)
(* One measurement more in the graph (buf_push_timed).                     *)
(***************************************************************************)
\* How much of a series of n columns the chart shows.
Shown(n) == IF n < GraphSize THEN n ELSE GraphSize

\* The buffer is d columns further: between the value before and the new one are
\* d - 1 that are held.
Advanced(b, next, d, v) ==
  /\ next.count = Shown(b.count + d)
  /\ Back(next, 0) = v
  /\ \A i \in 1 .. GraphSize - 1 : Back(next, i) = IF i < d THEN Back(b, 0) ELSE Back(b, i - d)

\* How far a measurement takes the buffer.
Further(b, ts) ==
  IF b.count = 0 \/ ts = 0 \/ b.last = 0 THEN 1 ELSE SlotAt(ts - b.last, GraphSlot)

LEMMA TimeMoved ==
  ASSUME NEW t \in Nat, NEW b \in Buffers(t), Filled(b), NEW u \in Nat
  PROVE  /\ [b EXCEPT !.last = u] \in Buffers(u) /\ Filled([b EXCEPT !.last = u])
         /\ [b EXCEPT !.last = u].count = b.count /\ [b EXCEPT !.last = u].last = u
         /\ \A i : Back([b EXCEPT !.last = u], i) = Back(b, i)
<1> DEFINE next == [b EXCEPT !.last = u]
<1>1. /\ next.vals = b.vals /\ next.head = b.head /\ next.count = b.count /\ next.last = u
      /\ IsBuffer(next)
  <2>1. PICK vals, head, count, last :
          b = [vals |-> vals, head |-> head, count |-> count, last |-> last]
    BY BufferFields DEF IsBuffer
  <2> QED  BY <2>1 DEF IsBuffer
<1> HIDE DEF next
<1>2. next \in Buffers(u)
  BY <1>1, BufferFields DEF Buffers, IsBuffer
<1>3. Filled(next) /\ \A i : Back(next, i) = Back(b, i)
  BY <1>1 DEF Filled, Back
<1> QED  BY <1>1, <1>2, <1>3 DEF next

\* A push is one column, and with values held before it more.
LEMMA PushAdvances ==
  ASSUME NEW t \in Nat, NEW b \in Buffers(t), Filled(b), NEW v \in Value,
         NEW next, next = PushValue(b, v)
  PROVE  next \in Buffers(t) /\ Filled(next) /\ Advanced(b, next, 1, v)
<1>1. /\ next \in Buffers(t) /\ Filled(next)
      /\ next.count = IF b.count < GraphSize THEN b.count + 1 ELSE GraphSize
      /\ Back(next, 0) = v
      /\ \A i \in 1 .. GraphSize - 1 : Back(next, i) = Back(b, i - 1)
  BY ValuePushed
<1>2. b.count \in 0 .. GraphSize /\ GraphSize \in Nat \ {0}
  BY BufferFields, Sizes
<1>3. next.count = Shown(b.count + 1)
  BY <1>1, <1>2 DEF Shown
<1>4. \A i \in 1 .. GraphSize - 1 : ~(i < 1)
  BY <1>2
<1> QED  BY <1>1, <1>3, <1>4 DEF Advanced

LEMMA HoldAdvances ==
  ASSUME NEW t \in Nat, NEW b \in Buffers(t), Filled(b), b.count # 0, NEW v \in Value,
         NEW d \in Nat \ {0}, NEW next, next = PushValue(PushTimes(b, b.vals[Newest(b)], Held(d)), v)
  PROVE  next \in Buffers(t) /\ Filled(next) /\ Advanced(b, next, d, v)
<1> DEFINE w == b.vals[Newest(b)]
           n == Held(d)
           held == PushTimes(b, w, n)
<1>1. b.count \in 1 .. GraphSize /\ GraphSize \in Nat \ {0}
  BY BufferFields, Sizes
<1>2. n \in 0 .. GraphSize - 1 /\ n = (IF d > GraphSize THEN GraphSize ELSE d) - 1
  BY <1>1 DEF Held
<1>3. w = Back(b, 0) /\ w \in Value \cup {0}
  <2>1. 0 \in 0 .. GraphSize - 1 /\ b.head \in 0 .. GraphSize - 1
    BY <1>1, BufferFields
  <2>2. PlaceBack(b.head, 0) \in 0 .. GraphSize - 1
    BY <2>1, BackInRing
  <2>3. Back(b, 0) \in Value \cup {0}
    BY <2>2, BufferFields DEF Back
  <2> QED  BY <2>3, NewestBack
<1> HIDE DEF w, n
<1>4. /\ held \in Buffers(t) /\ Filled(held)
      /\ held.count = IF b.count + n < GraphSize THEN b.count + n ELSE GraphSize
      /\ \A i \in 0 .. n - 1 : Back(held, i) = w
      /\ \A i \in n .. GraphSize - 1 : Back(held, i) = Back(b, i - n)
  <2>1. held = PushTimes(b, w, n) /\ w \in Value \cup {0} /\ n \in 0 .. GraphSize - 1
    BY <1>2, <1>3
  <2> HIDE DEF held
  <2> QED  BY <2>1, ValuesPushed
<1> HIDE DEF held
<1>5. next = PushValue(held, v)
  BY DEF held, w, n
<1>6. /\ next \in Buffers(t) /\ Filled(next)
      /\ next.count = IF held.count < GraphSize THEN held.count + 1 ELSE GraphSize
      /\ Back(next, 0) = v
      /\ \A i \in 1 .. GraphSize - 1 : Back(next, i) = Back(held, i - 1)
  BY <1>4, <1>5, ValuePushed
<1>7. next.count = Shown(b.count + d)
  <2> DEFINE c == b.count
  <2>1. c \in 1 .. GraphSize /\ held.count = IF c + n < GraphSize THEN c + n ELSE GraphSize
    BY <1>1, <1>4
  <2> HIDE DEF c
  <2>2. (IF held.count < GraphSize THEN held.count + 1 ELSE GraphSize) = Shown(c + d)
    BY <1>1, <1>2, <2>1 DEF Shown
  <2> QED  BY <1>6, <2>2 DEF c
<1>8. ASSUME NEW i \in 1 .. GraphSize - 1
      PROVE  Back(next, i) = IF i < d THEN Back(b, 0) ELSE Back(b, i - d)
  <2>1. Back(next, i) = Back(held, i - 1)
    BY <1>6
  <2>2. CASE i < d
    <3>1. i - 1 \in 0 .. n - 1
      BY <1>1, <1>2, <2>2
    <3> QED  BY <1>3, <1>4, <2>1, <2>2, <3>1
  <2>3. CASE ~(i < d)
    <3>1. i - 1 \in n .. GraphSize - 1 /\ (i - 1) - n = i - d
      BY <1>1, <1>2, <2>3
    <3>2. Back(held, i - 1) = Back(b, (i - 1) - n)
      BY <1>4, <3>1
    <3> QED  BY <2>1, <2>3, <3>1, <3>2
  <2> QED  BY <2>2, <2>3
<1> QED  BY <1>6, <1>7, <1>8 DEF Advanced

LEMMA ReplaceAdvances ==
  ASSUME NEW t \in Nat, NEW b \in Buffers(t), Filled(b), NEW v \in Value,
         NEW next, next = SetNewest(b, v)
  PROVE  next \in Buffers(t) /\ Filled(next) /\ next.last = b.last /\ Advanced(b, next, 0, v)
<1>1. /\ next \in Buffers(t) /\ Filled(next) /\ next.last = b.last /\ next.count = b.count
      /\ Back(next, 0) = v
      /\ \A i \in 1 .. GraphSize - 1 : Back(next, i) = Back(b, i)
  BY ValueReplaced
<1>2. b.count \in 0 .. GraphSize /\ GraphSize \in Nat \ {0}
  BY BufferFields, Sizes
<1>3. next.count = Shown(b.count + 0)
  BY <1>1, <1>2 DEF Shown
<1>4. \A i \in 1 .. GraphSize - 1 : ~(i < 0) /\ i - 0 = i
  BY <1>2
<1> QED  BY <1>1, <1>3, <1>4 DEF Advanced

LEMMA TimedAdvances ==
  ASSUME NEW t \in Nat, NEW b \in Buffers(t), Filled(b), NEW v \in Value,
         NEW ts \in Nat, t <= ts, NEW next, next = PushTimed(b, v, ts)
  PROVE  /\ next \in Buffers(ts) /\ Filled(next) /\ next.last = ts
         /\ Further(b, ts) \in Nat /\ Advanced(b, next, Further(b, ts), v)
<1>1. b.last \in 0 .. t /\ ts - b.last \in Nat /\ (ts - b.last = 0 <=> ts <= b.last)
  BY BufferFields
<1>2. GraphSlot \in Nat \ {0} /\ GraphSize \in Nat \ {0}
  BY Sizes
<1> DEFINE slots == SlotAt(ts - b.last, GraphSlot)
<1>3. slots \in Nat
  <2> DEFINE x == ts - b.last
  <2>1. x \in Nat
    BY <1>1
  <2> HIDE DEF x
  <2>2. SlotAt(x, GraphSlot) \in Nat
    BY <1>2, <2>1, SlotTimes
  <2> QED  BY <2>2 DEF x
<1>4. (ts - b.last) \div GraphSlot = slots
  BY DEF SlotAt
<1> HIDE DEF slots
<1>5. ASSUME NEW x \in Buffers(t), Filled(x), NEW d \in Nat, d = Further(b, ts),
             Advanced(b, x, d, v), next = [x EXCEPT !.last = ts]
      PROVE  /\ next \in Buffers(ts) /\ Filled(next) /\ next.last = ts
             /\ Further(b, ts) \in Nat /\ Advanced(b, next, Further(b, ts), v)
  <2>1. /\ next \in Buffers(ts) /\ Filled(next) /\ next.last = ts /\ next.count = x.count
        /\ \A i : Back(next, i) = Back(x, i)
    BY <1>5, TimeMoved
  <2> QED  BY <1>5, <2>1 DEF Advanced
<1>6. CASE b.count = 0 \/ ts = 0 \/ b.last = 0
  <2>1. PICK x : x = PushValue(b, v)
    OBVIOUS
  <2>2. next = [x EXCEPT !.last = ts]
    BY <1>6, <2>1 DEF PushTimed
  <2>3. Further(b, ts) = 1
    BY <1>6 DEF Further
  <2>4. x \in Buffers(t) /\ Filled(x) /\ Advanced(b, x, 1, v)
    BY <2>1, PushAdvances
  <2> QED  BY <1>5, <2>2, <2>3, <2>4
<1>7. CASE ~(b.count = 0 \/ ts = 0 \/ b.last = 0)
  <2>1. Further(b, ts) = slots
    BY <1>7 DEF Further, slots
  <2>2. CASE ts <= b.last
    <3>1. ts = b.last /\ slots = 0
      <4>1. ts = b.last /\ ts - b.last = 0
        BY <1>1, <2>2
      <4>2. 0 \div GraphSlot = 0
        BY <1>2
      <4> QED  BY <1>4, <4>1, <4>2
    <3>2. next = SetNewest(b, v)
      BY <1>7, <2>2 DEF PushTimed
    <3>3. next \in Buffers(t) /\ Filled(next) /\ next.last = b.last /\ Advanced(b, next, 0, v)
      BY <3>2, ReplaceAdvances
    <3>4. Buffers(t) \subseteq Buffers(ts)
      <4>1. 0 .. t \subseteq 0 .. ts
        OBVIOUS
      <4> QED  BY <4>1 DEF Buffers
    <3> QED  BY <2>1, <3>1, <3>3, <3>4
  <2>3. CASE ~(ts <= b.last) /\ slots = 0
    <3>1. PICK x : x = SetNewest(b, v)
      OBVIOUS
    <3>2. next = [x EXCEPT !.last = ts]
      BY <1>4, <1>7, <2>3, <3>1 DEF PushTimed
    <3>3. x \in Buffers(t) /\ Filled(x) /\ Advanced(b, x, 0, v)
      BY <3>1, ReplaceAdvances
    <3> QED  BY <1>5, <2>1, <2>3, <3>2, <3>3
  <2>4. CASE ~(ts <= b.last) /\ slots # 0
    <3>1. PICK x : x = PushValue(PushTimes(b, b.vals[Newest(b)], Held(slots)), v)
      OBVIOUS
    <3>2. next = [x EXCEPT !.last = ts]
      BY <1>4, <1>7, <2>4, <3>1 DEF PushTimed
    <3>3. x \in Buffers(t) /\ Filled(x) /\ Advanced(b, x, slots, v)
      BY <1>3, <1>7, <2>4, <3>1, HoldAdvances
    <3> QED  BY <1>3, <1>5, <2>1, <3>2, <3>3
  <2> QED  BY <2>2, <2>3, <2>4
<1> QED  BY <1>6, <1>7
-----------------------------------------------------------------------------
(***************************************************************************)
(* The invariant of the graph and the measurements it was given.           *)
(***************************************************************************)
GraphInv(b, log, t) ==
  /\ b \in Buffers(t) /\ Filled(b)
  /\ Drawing(log, t)
  /\ b.count = Shown(End(log))
  /\ b.last = IF log = <<>> THEN 0 ELSE log[Len(log)].ts
  /\ \A i \in 0 .. b.count - 1 : Back(b, i) = ValueAt(log, End(log) - i)

LEMMA GraphInit == GraphInv(EmptyGraph, <<>>, 0)
<1>1. GraphSize \in Nat \ {0}
  BY Sizes
<1> DEFINE b == EmptyGraph
<1>2. /\ b.vals = [k \in 0 .. GraphSize - 1 |-> 0] /\ b.head = 0 /\ b.count = 0 /\ b.last = 0
      /\ IsBuffer(b)
  BY DEF EmptyGraph, IsBuffer
<1> HIDE DEF b
<1>3. b \in Buffers(0) /\ Filled(b)
  <2>1. b.vals \in [0 .. GraphSize - 1 -> Value \cup {0}]
    BY <1>2
  <2> QED  BY <1>1, <1>2, <2>1 DEF Buffers, IsBuffer, Filled
<1>4. Drawing(<<>>, 0)
  BY DEF Drawing
<1>5. End(<<>>) = 0 /\ Shown(0) = 0
  BY <1>1 DEF End, Shown
<1>6. \A i \in 0 .. b.count - 1 : Back(b, i) = ValueAt(<<>>, End(<<>>) - i)
  <2>1. 0 .. b.count - 1 = {}
    BY <1>2
  <2> QED  BY <2>1
<1> QED  BY <1>2, <1>3, <1>4, <1>5, <1>6 DEF GraphInv, b

\* A measurement that the graph does not get leaves it as it is.
LEMMA GraphKeeps ==
  ASSUME NEW t \in Nat, NEW b, NEW log, GraphInv(b, log, t), NEW u \in Nat, t <= u
  PROVE  GraphInv(b, log, u)
<1>1. 0 .. t \subseteq 0 .. u
  OBVIOUS
<1>2. Buffers(t) \subseteq Buffers(u)
  BY <1>1 DEF Buffers
<1>3. DrawnEntries(t) \subseteq DrawnEntries(u)
  BY <1>1 DEF DrawnEntries
<1>4. Drawing(log, t) => Drawing(log, u)
  <2>1. log \in Seq(DrawnEntries(t)) => log \in Seq(DrawnEntries(u))
    BY <1>3
  <2> QED  BY <2>1 DEF Drawing
<1> QED  BY <1>2, <1>4 DEF GraphInv

\* The column of the list goes as far as the buffer.
LEMMA ColumnsAgree ==
  ASSUME NEW t \in Nat, NEW b, NEW log, GraphInv(b, log, t), NEW ts \in Nat, t <= ts
  PROVE  /\ NextColumn(log, ts) = End(log) + Further(b, ts)
         /\ log = <<>> => NextColumn(log, ts) = 1
<1>1. /\ b \in Buffers(t) /\ Filled(b) /\ Drawing(log, t) /\ b.count = Shown(End(log))
      /\ b.last = IF log = <<>> THEN 0 ELSE log[Len(log)].ts
  BY DEF GraphInv
<1>2. GraphSize \in Nat \ {0}
  BY Sizes
<1>3. CASE log = <<>>
  <2>1. b.count = 0 /\ End(log) = 0
    BY <1>1, <1>2, <1>3 DEF End, Shown
  <2>2. Further(b, ts) = 1 /\ NextColumn(log, ts) = 1
    BY <1>3, <2>1 DEF Further, NextColumn
  <2> QED  BY <2>1, <2>2
<1>4. CASE log # <<>>
  <2> DEFINE m == log[Len(log)]
  <2>1. End(log) = m.column /\ m.column \in Nat \ {0} /\ m.ts = b.last
    BY <1>1, <1>4, FirstColumn
  <2>2. NextColumn(log, ts) =
          m.column + (IF ts = 0 \/ m.ts = 0 THEN 1 ELSE SlotAt(ts - m.ts, GraphSlot))
    BY <1>4 DEF NextColumn, SlotAt
  <2> HIDE DEF m
  <2>3. b.count # 0
    BY <1>1, <1>2, <2>1 DEF Shown
  <2>4. Further(b, ts) = IF ts = 0 \/ m.ts = 0 THEN 1 ELSE SlotAt(ts - m.ts, GraphSlot)
    BY <2>1, <2>3 DEF Further
  <2> QED  BY <1>4, <2>1, <2>2, <2>4
<1> QED  BY <1>3, <1>4

LEMMA GraphStep ==
  ASSUME NEW t \in Nat, NEW b, NEW log, GraphInv(b, log, t), NEW ts \in Nat, t <= ts, NEW v \in Value,
         NEW more, more = Append(log, [ts |-> ts, v |-> v, column |-> NextColumn(log, ts)]),
         NEW next, next = PushTimed(b, v, ts)
  PROVE  GraphInv(next, more, ts)
<1> DEFINE e == End(log)
           d == Further(b, ts)
           s == NextColumn(log, ts)
<1>1. /\ b \in Buffers(t) /\ Filled(b) /\ Drawing(log, t) /\ b.count = Shown(e)
      /\ \A i \in 0 .. b.count - 1 : Back(b, i) = ValueAt(log, e - i)
  BY DEF GraphInv
<1>2. /\ next \in Buffers(ts) /\ Filled(next) /\ next.last = ts /\ d \in Nat
      /\ Advanced(b, next, d, v)
  BY <1>1, TimedAdvances
<1>3. s = e + d /\ (log = <<>> => s = 1)
  BY ColumnsAgree
<1>4. e \in Nat /\ (log = <<>> => e = 0) /\ GraphSize \in Nat \ {0}
  BY <1>1, DrawingFields, Sizes DEF End
<1> HIDE DEF e, d
<1>5. DrawsOn(more, log, ts, v, s)
  BY <1>2, <1>3, <1>4 DEF DrawsOn, e
<1> HIDE DEF s
<1>6. /\ Drawing(more, ts) /\ more # <<>> /\ End(more) = s /\ s \in Nat \ {0}
      /\ more[Len(more)].ts = ts /\ ValueAt(more, s) = v
      /\ log # <<>> => \A i \in Nat \ {0} : i < s => ValueAt(more, i) = ValueAt(log, i)
  BY <1>1, <1>5, DrawnOn
<1>7. next.count = Shown(s)
  <2>1. next.count = Shown(b.count + d) /\ b.count = Shown(e)
    BY <1>1, <1>2 DEF Advanced
  <2>2. Shown(Shown(e) + d) = Shown(e + d)
    BY <1>2, <1>4 DEF Shown
  <2> QED  BY <1>3, <2>1, <2>2
<1>8. ASSUME NEW i \in 0 .. next.count - 1 PROVE Back(next, i) = ValueAt(more, s - i)
  <2>1. next.count \in 0 .. GraphSize /\ next.count <= s
    BY <1>4, <1>6, <1>7 DEF Shown
  <2>2. CASE i = 0
    <3>1. s - i = s
      BY <1>6, <2>2
    <3> QED  BY <1>2, <1>6, <2>2, <3>1 DEF Advanced
  <2>3. CASE i # 0 /\ i < d
    <3>1. i \in 1 .. GraphSize - 1 /\ log # <<>> /\ s - i \in Nat \ {0} /\ s - i < s /\ e <= s - i
      BY <1>2, <1>3, <1>4, <1>6, <2>1, <2>3
    <3>2. Back(next, i) = Back(b, 0)
      BY <1>2, <2>3, <3>1 DEF Advanced
    <3>3. ValueAt(more, s - i) = ValueAt(log, s - i)
      BY <1>6, <3>1
    <3>4. e \in Nat \ {0}
      BY <1>1, <1>4, <3>1, FirstColumn DEF e
    <3>5. ValueAt(log, s - i) = ValueAt(log, e)
      <4>1. /\ ValueAt(log, s - i) = log[LastOf(Upto(log, s - i))].v
            /\ LastOf(Upto(log, s - i)) = Len(log)
        BY <1>1, <3>1, ValueThere DEF e
      <4>2. ValueAt(log, e) = log[LastOf(Upto(log, e))].v /\ LastOf(Upto(log, e)) = Len(log)
        <5>1. e <= e /\ End(log) = e
          BY <3>4 DEF e
        <5> HIDE DEF e
        <5> QED  BY <1>1, <3>1, <3>4, <5>1, ValueThere
      <4> QED  BY <4>1, <4>2
    <3>6. Back(b, 0) = ValueAt(log, e)
      <4>1. 0 \in 0 .. b.count - 1 /\ e - 0 = e
        BY <1>1, <1>4, <3>4 DEF Shown
      <4> QED  BY <1>1, <4>1
    <3> QED  BY <3>2, <3>3, <3>5, <3>6
  <2>4. CASE i # 0 /\ ~(i < d)
    <3>1. i \in 1 .. GraphSize - 1 /\ i - d \in Nat /\ s - i = e - (i - d)
      BY <1>2, <1>3, <1>4, <2>1, <2>4
    <3>2. Back(next, i) = Back(b, i - d)
      BY <1>2, <2>4, <3>1 DEF Advanced
    <3>3. i - d \in 0 .. b.count - 1
      <4>1. b.count \in 0 .. GraphSize /\ next.count = Shown(b.count + d)
        BY <1>1, <1>2, BufferFields DEF Advanced
      <4>2. next.count <= b.count + d
        BY <1>2, <1>4, <4>1 DEF Shown
      <4> QED  BY <1>2, <2>1, <3>1, <4>1, <4>2
    <3>4. b.count <= e /\ b.count \in Nat
      BY <1>1, <1>4 DEF Shown
    <3>5. s - i \in Nat \ {0} /\ s - i < s /\ log # <<>>
      <4>1. i - d < e /\ i - d \in Nat /\ s - i = e - (i - d)
        BY <1>4, <3>1, <3>3, <3>4
      <4>2. e - (i - d) \in Nat \ {0}
        BY <1>4, <4>1
      <4>3. s - i < s
        BY <1>6, <3>1
      <4>4. log # <<>>
        BY <1>4, <4>1
      <4> QED  BY <4>1, <4>2, <4>3, <4>4
    <3> QED  BY <1>1, <1>6, <3>1, <3>2, <3>3, <3>5
  <2> QED  BY <2>2, <2>3, <2>4
<1> QED  BY <1>2, <1>6, <1>7, <1>8 DEF GraphInv

LEMMA GraphShows ==
  ASSUME NEW t \in Nat, NEW b, NEW log, GraphInv(b, log, t)
  PROVE  LET n == IF End(log) > GraphSize THEN GraphSize ELSE End(log)
         IN  Chart(b) = [k \in 1 .. n |-> ValueAt(log, End(log) - n + k)]
<1> DEFINE n == IF End(log) > GraphSize THEN GraphSize ELSE End(log)
           e == End(log)
<1>1. /\ b \in Buffers(t) /\ Filled(b) /\ Drawing(log, t) /\ b.count = Shown(e)
      /\ \A i \in 0 .. b.count - 1 : Back(b, i) = ValueAt(log, e - i)
  BY DEF GraphInv
<1>2. e \in Nat /\ GraphSize \in Nat \ {0}
  BY <1>1, DrawingFields, Sizes
<1> HIDE DEF e
<1>3. b.count = n /\ n \in Nat
  BY <1>1, <1>2 DEF Shown, e
<1> HIDE DEF n
<1>4. Chart(b) = [k \in 1 .. n |-> Back(b, n - k)]
  BY <1>1, <1>3, ChartBack
<1>5. ASSUME NEW k \in 1 .. n PROVE Back(b, n - k) = ValueAt(log, e - n + k)
  <2>1. n - k \in 0 .. b.count - 1 /\ e - (n - k) = e - n + k
    BY <1>2, <1>3
  <2> QED  BY <1>1, <2>1
<1> QED  BY <1>4, <1>5 DEF n, e
-----------------------------------------------------------------------------
(***************************************************************************)
(* The columns of the chart and the time between its measurements.         *)
(***************************************************************************)
\* A measurement more is as many columns further as whole slots passed.
LEMMA OneMoreRest ==
  ASSUME NEW size \in Nat \ {0}, NEW d \in Nat, NEW x \in Int, NEW c \in Int, NEW n \in Nat,
         x - c * size \in 0 .. n * (size - 1)
  PROVE  (x + d) - (c + (d \div size)) * size \in 0 .. (n + 1) * (size - 1)
<1>1. PICK q \in Nat : q = d \div size /\ d - q * size \in 0 .. size - 1
  <2>1. d \div size \in Nat /\ d - (d \div size) * size \in 0 .. size - 1
    OBVIOUS
  <2> QED  BY <2>1
<1>2. (c + q) * size = c * size + q * size /\ c * size \in Int /\ q * size \in Int
  OBVIOUS
<1>3. (n + 1) * (size - 1) = n * (size - 1) + (size - 1) /\ n * (size - 1) \in Int
  OBVIOUS
<1>4. (x + d) - (c * size + q * size) \in 0 .. n * (size - 1) + (size - 1)
  BY <1>1, <1>2, <1>3
<1> QED  BY <1>1, <1>2, <1>3, <1>4

\* The times of what is drawn do not go back, and its columns keep to them.
Timed(log) ==
  /\ \A j, k \in 1 .. Len(log) : j <= k => log[j].ts <= log[k].ts
  /\ InTime(log)

LEMMA TimedStep ==
  ASSUME NEW t \in Nat, NEW log, Drawing(log, t), Timed(log), NEW ts \in Nat, t <= ts,
         NEW v, NEW more,
         more = Append(log, [ts |-> ts, v |-> v, column |-> NextColumn(log, ts)])
  PROVE  Timed(more)
<1> DEFINE n == Len(log)
           c == NextColumn(log, ts)
           e == [ts |-> ts, v |-> v, column |-> c]
<1>1. /\ n \in Nat /\ (log = <<>> <=> n = 0)
      /\ \A k \in 1 .. n : log[k].column \in Nat /\ log[k].ts \in Nat /\ log[k].ts <= ts
  BY DrawingFields
<1>2. e.ts = ts /\ e.column = c
  OBVIOUS
<1>3. more = Append(log, e)
  OBVIOUS
<1>4. \A k \in 1 .. n - 1 : k \in 1 .. n
  BY <1>1
<1>5. log \in Seq(DrawnEntries(t))
  BY DEF Drawing
<1>6. c \in Nat
  <2>1. CASE log = <<>>
    BY <2>1 DEF NextColumn
  <2>2. CASE log # <<>>
    <3>1. n \in 1 .. n
      BY <1>1, <2>2
    <3>2. PICK m : m = log[n]
      OBVIOUS
    <3>3. m.column \in Nat /\ m.ts \in Nat /\ ts - m.ts \in Nat
      BY <1>1, <3>1, <3>2
    <3>4. SlotAt(ts - m.ts, GraphSlot) \in Nat
      BY <3>3, Sizes, SlotTimes
    <3>5. c = m.column + (IF ts = 0 \/ m.ts = 0 THEN 1 ELSE SlotAt(ts - m.ts, GraphSlot))
      BY <2>2, <3>2 DEF NextColumn, SlotAt
    <3> HIDE DEF c
    <3> QED  BY <3>3, <3>4, <3>5
  <2> QED  BY <2>1, <2>2
<1> HIDE DEF e
<1>7. Len(more) = n + 1 /\ more[n + 1] = e /\ \A k \in 1 .. n : more[k] = log[k]
  <2>1. log \in Seq(DrawnEntries(t) \cup {e})
    BY <1>5
  <2> QED  BY <1>3, <2>1
<1>8. \A k \in 1 .. n + 1 : k \in 1 .. n \/ k = n + 1
  BY <1>1
<1>9. \A j, k \in 1 .. Len(more) : j <= k => more[j].ts <= more[k].ts
  <2>1. SUFFICES ASSUME NEW j \in 1 .. n + 1, NEW k \in 1 .. n + 1, j <= k
                 PROVE  more[j].ts <= more[k].ts
    BY <1>7
  <2>2. CASE k \in 1 .. n
    <3>1. j \in 1 .. n
      BY <1>1, <2>1, <2>2
    <3> QED  BY <1>7, <2>1, <2>2, <3>1 DEF Timed
  <2>3. CASE k = n + 1
    BY <1>1, <1>2, <1>7, <1>8, <2>1, <2>3
  <2> QED  BY <1>8, <2>2, <2>3
<1>10. GraphSlot \in Nat \ {0}
  BY Sizes
<1>11. ASSUME NEW j \in 1 .. n, log[j].ts > 0
       PROVE  (ts - log[j].ts) - (c - log[j].column) * GraphSlot
                \in 0 .. (n + 1 - j) * (GraphSlot - 1)
  <2>1. n \in 1 .. n /\ j <= n /\ n - j \in Nat /\ log # <<>>
    BY <1>1
  <2>2. PICK m : m = log[n]
    OBVIOUS
  <2>3. PICK first : first = log[j]
    OBVIOUS
  <2>4. first.ts <= m.ts /\ first.ts > 0 /\ first.ts \in Nat /\ m.ts \in Nat /\ m.ts <= ts
        /\ m.column \in Nat /\ first.column \in Nat
    BY <1>1, <1>11, <2>1, <2>2, <2>3 DEF Timed
  <2>5. c = m.column + ((ts - m.ts) \div GraphSlot)
    BY <2>1, <2>2, <2>4 DEF NextColumn
  <2> HIDE DEF c
  <2>6. (m.ts - first.ts) - (m.column - first.column) * GraphSlot \in 0 .. (n - j) * (GraphSlot - 1)
    BY <1>11, <2>1, <2>2, <2>3 DEF Timed, InTime, Shortened
  <2>7. /\ ts - m.ts \in Nat /\ m.ts - first.ts \in Int /\ m.column - first.column \in Int
    BY <2>4
  <2>8. ((m.ts - first.ts) + (ts - m.ts))
          - ((m.column - first.column) + ((ts - m.ts) \div GraphSlot)) * GraphSlot
          \in 0 .. ((n - j) + 1) * (GraphSlot - 1)
    BY <1>10, <2>1, <2>6, <2>7, OneMoreRest
  <2>9. PICK q : q = (ts - m.ts) \div GraphSlot
    OBVIOUS
  <2>10. q \in Nat
    <3>1. SlotAt(ts - m.ts, GraphSlot) \in Nat
      BY <1>10, <2>7, SlotTimes
    <3> QED  BY <2>9, <3>1 DEF SlotAt
  <2>11. (m.ts - first.ts) + (ts - m.ts) = ts - first.ts /\ (n - j) + 1 = n + 1 - j
    BY <1>1, <2>1, <2>4
  <2>12. (m.column - first.column) + q = c - first.column
    BY <2>4, <2>5, <2>9, <2>10
  <2> QED  BY <2>3, <2>8, <2>9, <2>11, <2>12
<1>12. ASSUME NEW j \in 1 .. n + 1, NEW k \in 1 .. n + 1, j <= k, more[j].ts > 0
       PROVE  Shortened(more, j, k) \in 0 .. (k - j) * (GraphSlot - 1)
  <2>1. CASE k \in 1 .. n
    <3>1. j \in 1 .. n
      BY <1>1, <1>12, <2>1
    <3>2. Shortened(log, j, k) \in 0 .. (k - j) * (GraphSlot - 1)
      BY <1>7, <1>12, <2>1, <3>1 DEF Timed, InTime
    <3> QED  BY <1>7, <2>1, <3>1, <3>2 DEF Shortened
  <2>2. CASE k = n + 1 /\ j \in 1 .. n
    <3>1. Shortened(more, j, k) = (ts - log[j].ts) - (c - log[j].column) * GraphSlot
      BY <1>2, <1>7, <2>2 DEF Shortened
    <3> HIDE DEF c
    <3> QED  BY <1>7, <1>11, <1>12, <2>2, <3>1
  <2>3. CASE k = n + 1 /\ j = n + 1
    <3> HIDE DEF c
    <3>1. Shortened(more, j, k) = (ts - ts) - (c - c) * GraphSlot
      BY <1>2, <1>7, <2>3 DEF Shortened
    <3>2. (ts - ts) - (c - c) * GraphSlot = 0 /\ (k - j) * (GraphSlot - 1) = 0
      <4>1. ts - ts = 0 /\ c - c = 0 /\ k - j = 0
        BY <1>6, <2>3
      <4>2. 0 * GraphSlot = 0 /\ 0 * (GraphSlot - 1) = 0
        BY <1>10
      <4> QED  BY <4>1, <4>2
    <3> QED  BY <3>1, <3>2
  <2> QED  BY <1>8, <2>1, <2>2, <2>3
<1> QED  BY <1>7, <1>9, <1>12 DEF Timed, InTime

-----------------------------------------------------------------------------
(***************************************************************************)
(* The invariant of the module, and the theorems.                          *)
(***************************************************************************)
\* A list stays a list of its entries when time goes on, and with one more.
LEMMA ListLater ==
  ASSUME NEW t \in Nat, NEW u \in Nat, t <= u, NEW log \in Seq([ts : 0 .. t, v : Value, total : Nat])
  PROVE  log \in Seq([ts : 0 .. u, v : Value, total : Nat])
<1>1. [ts : 0 .. t, v : Value, total : Nat] \subseteq [ts : 0 .. u, v : Value, total : Nat]
  OBVIOUS
<1> DEFINE S == [ts : 0 .. t, v : Value, total : Nat]
           T == [ts : 0 .. u, v : Value, total : Nat]
<1>2. S \subseteq T /\ log \in Seq(S)
  BY <1>1
<1> HIDE DEF S, T
<1>3. log \in Seq(T)
  BY <1>2
<1> QED  BY <1>3 DEF T

LEMMA ListTyped ==
  ASSUME NEW t \in Nat, NEW u \in Nat, t <= u, NEW log \in Seq([ts : 0 .. t, v : Value, total : Nat]),
         NEW v \in Value, NEW total \in Nat
  PROVE  Append(log, [ts |-> u, v |-> v, total |-> total]) \in Seq([ts : 0 .. u, v : Value, total : Nat])
<1> DEFINE T == [ts : 0 .. u, v : Value, total : Nat]
           e == [ts |-> u, v |-> v, total |-> total]
<1>1. log \in Seq(T)
  BY ListLater
<1>2. e \in T
  OBVIOUS
<1> HIDE DEF T, e
<1>3. Append(log, e) \in Seq(T)
  BY <1>1, <1>2
<1> QED  BY <1>3 DEF T, e

\* Each owner keeps the newest part of what it was given.
HistoryInv ==
  /\ now \in Nat /\ measured \in 0 .. MaxMeasurements
  /\ archived \in Seq([ts : 0 .. now, v : Value, total : Nat])
  /\ ArchiveInv(short, archived, Step, Capacity, now)
  /\ ArchiveInv(long, archived, LongStep, LongCapacity, now)
  /\ GraphInv(graph, drawn, now) /\ Timed(drawn)

LEMMA HistoryInit == Init => HistoryInv
<1> SUFFICES ASSUME Init PROVE HistoryInv
  OBVIOUS
<1>1. ArchiveInv(short, archived, Step, Capacity, now)
  BY Sizes, ArchiveInit DEF Init
<1>2. ArchiveInv(long, archived, LongStep, LongCapacity, now)
  BY Sizes, ArchiveInit DEF Init
<1>3. GraphInv(graph, drawn, now)
  BY GraphInit DEF Init
<1>4. Timed(drawn)
  <2>1. drawn = <<>> /\ 1 .. Len(drawn) = {}
    BY DEF Init
  <2> QED  BY <2>1 DEF Timed, InTime
<1> QED  BY <1>1, <1>2, <1>3, <1>4, Sizes DEF Init, HistoryInv

LEMMA HistoryNext == HistoryInv /\ [Next]_vars => HistoryInv'
<1> SUFFICES ASSUME HistoryInv, [Next]_vars PROVE HistoryInv'
  OBVIOUS
<1>1. /\ now \in Nat /\ measured \in 0 .. MaxMeasurements /\ MaxMeasurements \in Nat
      /\ archived \in Seq([ts : 0 .. now, v : Value, total : Nat])
      /\ ArchiveInv(short, archived, Step, Capacity, now)
      /\ ArchiveInv(long, archived, LongStep, LongCapacity, now)
      /\ GraphInv(graph, drawn, now) /\ Timed(drawn)
  BY Sizes DEF HistoryInv
<1>2. CASE UNCHANGED vars
  BY <1>1, <1>2 DEF HistoryInv, vars
<1>3. CASE Next
  <2>1. PICK delay \in Delay, v \in Value : Measure(delay, v)
    BY <1>3 DEF Next
  <2>2. v \in Nat /\ v \in Value /\ now' \in Nat /\ now <= now' /\ measured' \in 0 .. MaxMeasurements
    BY <1>1, <2>1, Sizes DEF Measure
  <2>3. ASSUME Archive(now', v)
        PROVE  /\ archived' \in Seq([ts : 0 .. now', v : Value, total : Nat])
               /\ ArchiveInv(short', archived', Step, Capacity, now')
               /\ ArchiveInv(long', archived', LongStep, LongCapacity, now')
    <3>1. /\ short' = Ingest(short, now', v) /\ long' = Ingest(long, now', v)
          /\ Extends(archived', archived, now', v)
      BY <2>3 DEF Archive, Extends
    <3>2. ArchiveInv(short', archived', Step, Capacity, now')
      BY <1>1, <2>2, <3>1, Sizes, ArchiveStep
    <3>3. ArchiveInv(long', archived', LongStep, LongCapacity, now')
      BY <1>1, <2>2, <3>1, Sizes, ArchiveStep
    <3>4. archived' \in Seq([ts : 0 .. now', v : Value, total : Nat])
      <4>1. Total(archived) \in Nat
        BY <1>1, <2>2, <3>1, MoreInList DEF ArchiveInv
      <4>2. Total(archived) + v \in Nat
        BY <2>2, <4>1
      <4>3. archived' = Append(archived, [ts |-> now', v |-> v, total |-> Total(archived) + v])
        BY <3>1 DEF Extends
      <4> HIDE DEF Total
      <4> QED  BY <1>1, <2>2, <4>2, <4>3, ListTyped
    <3> QED  BY <3>2, <3>3, <3>4
  <2>4. ASSUME Keep
        PROVE  /\ archived' \in Seq([ts : 0 .. now', v : Value, total : Nat])
               /\ ArchiveInv(short', archived', Step, Capacity, now')
               /\ ArchiveInv(long', archived', LongStep, LongCapacity, now')
    <3>1. short' = short /\ long' = long /\ archived' = archived
      BY <2>4 DEF Keep
    <3>2. ArchiveInv(short, archived, Step, Capacity, now')
      BY <1>1, <2>2, Sizes, ArchiveKeeps
    <3>3. ArchiveInv(long, archived, LongStep, LongCapacity, now')
      BY <1>1, <2>2, Sizes, ArchiveKeeps
    <3>4. archived \in Seq([ts : 0 .. now', v : Value, total : Nat])
      BY <1>1, <2>2, ListLater
    <3> QED  BY <3>1, <3>2, <3>3, <3>4
  <2>5. ASSUME Draw(now', v) PROVE GraphInv(graph', drawn', now') /\ Timed(drawn')
    <3>1. /\ graph' = PushTimed(graph, v, now')
          /\ drawn' = Append(drawn, [ts |-> now', v |-> v, column |-> NextColumn(drawn, now')])
      BY <2>5 DEF Draw
    <3>2. GraphInv(graph', drawn', now')
      BY <1>1, <2>2, <3>1, GraphStep
    <3>3. Timed(drawn')
      <4>1. Drawing(drawn, now)
        BY <1>1 DEF GraphInv
      <4> QED  BY <1>1, <2>2, <3>1, <4>1, TimedStep
    <3> QED  BY <3>2, <3>3
  <2>6. ASSUME Leave PROVE GraphInv(graph', drawn', now') /\ Timed(drawn')
    <3>1. graph' = graph /\ drawn' = drawn
      BY <2>6 DEF Leave
    <3>2. GraphInv(graph', drawn', now')
      BY <1>1, <2>2, <3>1, GraphKeeps
    <3> QED  BY <1>1, <3>1, <3>2
  <2>7. (Archive(now', v) \/ Keep) /\ (Draw(now', v) \/ Leave)
    BY <2>1 DEF Measure
  <2> QED  BY <2>2, <2>3, <2>4, <2>5, <2>6, <2>7 DEF HistoryInv
<1> QED  BY <1>2, <1>3

LEMMA HistoryInvariant == Spec => []HistoryInv
  BY HistoryInit, HistoryNext, PTL DEF Spec

\* The rings of rrd.c and ui_graph.c stay within their arrays, and no finished
\* point lies in the future, for rings of any size and slots of any length.
THEOREM HistoryTyped == Spec => []TypeOK
<1>1. HistoryInv => TypeOK
  <2> SUFFICES ASSUME HistoryInv PROVE TypeOK
    OBVIOUS
  <2>1. /\ now \in Nat /\ measured \in 0 .. MaxMeasurements
        /\ archived \in Seq([ts : 0 .. now, v : Value, total : Nat])
        /\ ArchiveInv(short, archived, Step, Capacity, now)
        /\ ArchiveInv(long, archived, LongStep, LongCapacity, now)
        /\ GraphInv(graph, drawn, now)
    BY DEF HistoryInv
  <2>2. ASSUME NEW step, NEW capacity, NEW arch, NEW log, ArchiveInv(arch, log, step, capacity, now)
        PROVE  ArchiveOK(arch, step, capacity)
    <3>1. arch \in Archives(step, capacity, now) /\ arch.start \in Aligned(step)
      BY <2>2, RingFields DEF ArchiveInv
    <3>2. arch.start % step = 0
      BY <3>1 DEF Aligned
    <3> QED  BY <3>1, <3>2 DEF ArchiveOK, Archives, Point
  <2>3. graph \in Buffers(now) /\ drawn \in Seq(DrawnEntries(now))
    BY <2>1 DEF GraphInv, Drawing
  <2> QED  BY <2>1, <2>2, <2>3 DEF TypeOK, Buffers, DrawnEntries
<1> QED  BY <1>1, HistoryInvariant, PTL

\* After any measurements, at whatever distances and whichever of them the queue
\* of rrd_task lost, both archives hold the points of the newest slots, each the
\* mean of the measurements made in its slot, but for the first, which has those
\* of the slot of boot as well; and every read returns what is kept since its time
\* (arch_ingest, rrd_get_points, rrd_get_latest).
THEOREM HistoryArchives == Spec => []ArchivesMatch
<1>1. HistoryInv => ArchivesMatch
  <2> SUFFICES ASSUME HistoryInv PROVE ArchivesMatch
    OBVIOUS
  <2>1. /\ now \in Nat
        /\ ArchiveInv(short, archived, Step, Capacity, now)
        /\ ArchiveInv(long, archived, LongStep, LongCapacity, now)
    BY DEF HistoryInv
  <2>2. Matches(short, archived, Step, Capacity) /\ ReadersServed(short)
    <3>1. CountMatches(short, archived, Step, Capacity) /\ ReadersServed(short)
      BY <2>1, Sizes, ArchiveMatches, ArchiveServes
    <3>2. Ordered(archived, now)
      BY <2>1 DEF ArchiveInv
    <3> QED  BY <2>1, <3>1, <3>2, Sizes, PointsMatch
  <2>3. Matches(long, archived, LongStep, LongCapacity) /\ ReadersServed(long)
    <3>1. CountMatches(long, archived, LongStep, LongCapacity) /\ ReadersServed(long)
      BY <2>1, Sizes, ArchiveMatches, ArchiveServes
    <3>2. Ordered(archived, now)
      BY <2>1 DEF ArchiveInv
    <3> QED  BY <2>1, <3>1, <3>2, Sizes, PointsMatch
  <2> QED  BY <2>2, <2>3 DEF ArchivesMatch
<1> QED  BY <1>1, HistoryInvariant, PTL

\* The chart shows the newest columns, with values held over gaps of any length;
\* two measurements are never more columns apart than slots passed between them,
\* and each one from the one to the other costs less than a slot (buf_push_timed,
\* chart_repopulate).
THEOREM HistoryChart == Spec => []ChartMatches
<1>1. HistoryInv => ChartMatches
  <2> SUFFICES ASSUME HistoryInv PROVE ChartMatches
    OBVIOUS
  <2>1. now \in Nat /\ GraphInv(graph, drawn, now) /\ Timed(drawn)
    BY DEF HistoryInv
  <2>2. InTime(drawn)
    BY <2>1 DEF Timed
  <2> QED  BY <2>1, <2>2, GraphShows DEF ChartMatches
<1> QED  BY <1>1, HistoryInvariant, PTL
=============================================================================
