---------------------------- MODULE QueueLemmas ----------------------------
(***************************************************************************)
(* What the proofs about DcLoad and Display need of their queues: a        *)
(* message is added behind, the oldest is taken, a set of positions has a  *)
(* last one.                                                               *)
(***************************************************************************)
EXTENDS Integers, SequenceTheorems, WellFoundedInduction, TLAPS

\* What taking the oldest message does to the positions of the others.
LEMMA TailIndexed ==
  ASSUME NEW S, NEW q \in Seq(S), q # <<>>
  PROVE  /\ Len(q) \in Nat \ {0} /\ Head(q) = q[1]
         /\ Tail(q) \in Seq(S) /\ Len(Tail(q)) = Len(q) - 1
         /\ \A k \in 1 .. Len(q) - 1 : Tail(q)[k] = q[k + 1]
<1>1. Len(q) \in Nat \ {0} /\ Head(q) = q[1]
  OBVIOUS
<1>2. Tail(q) \in Seq(S) /\ Len(Tail(q)) = Len(q) - 1
  BY HeadTailProperties
<1>3. \A k \in 1 .. Len(Tail(q)) : Tail(q)[k] = q[k + 1]
  BY HeadTailProperties
<1> QED  BY <1>1, <1>2, <1>3

\* And what adding one does.
LEMMA AppendIndexed ==
  ASSUME NEW S, NEW q \in Seq(S), NEW m
  PROVE  /\ Len(q) \in Nat /\ Len(Append(q, m)) = Len(q) + 1
         /\ Append(q, m)[Len(q) + 1] = m
         /\ \A k \in 1 .. Len(q) : Append(q, m)[k] = q[k]
<1>1. q \in Seq(S \cup {m})
  OBVIOUS
<1>2. Len(q) \in Nat /\ Len(Append(q, m)) = Len(q) + 1
  BY <1>1, LenProperties, AppendProperties
<1>3. Append(q, m)[Len(q) + 1] = m /\ \A k \in 1 .. Len(q) : Append(q, m)[k] = q[k]
  BY <1>1, AppendProperties
<1> QED  BY <1>2, <1>3

\* A set of positions has a last one.
LEMMA LastIn ==
  ASSUME NEW n \in Nat, NEW S, S \subseteq 1 .. n, S # {}
  PROVE  \E k \in S : \A j \in S : j <= k
<1> DEFINE R == {p \in Nat \X Nat : p[1] < p[2]}
           T == {i \in Nat : n - i \in S}
<1>1. IsWellFoundedOn(R, Nat)
  BY NatLessThanWellFounded DEF OpToRel
<1>2. \A x, y \in Nat : <<y, x>> \in R <=> y < x
  OBVIOUS
<1>3. \A k \in S : n - k \in T /\ n - (n - k) = k
  OBVIOUS
<1>4. T \subseteq Nat /\ T # {}
  BY <1>3
<1> HIDE DEF R, T
<1>5. PICK i \in T : \A y \in T : ~(<<y, i>> \in R)
  BY <1>1, <1>4, WFMin
<1>6. n - i \in S /\ i \in Nat
  BY <1>5 DEF T
<1>7. ASSUME NEW j \in S PROVE j <= n - i
  <2>1. n - j \in T /\ n - j \in Nat
    BY <1>3, <1>4
  <2>2. ~(n - j < i)
    BY <1>2, <1>5, <1>6, <2>1
  <2> QED  BY <1>6, <2>1, <2>2
<1> QED  BY <1>6, <1>7

-----------------------------------------------------------------------------
(***************************************************************************)
(* The value that a queue will leave behind.                               *)
(***************************************************************************)
\* The newest message of queue q that is in T, or else the value x that is
\* held now, has the value w.
Follows(q, T, x, w) ==
  /\ (\A k \in 1 .. Len(q) : q[k] \notin T) => x = w
  /\ \A k \in 1 .. Len(q) :
       q[k] \in T /\ (\A j \in 1 .. Len(q) : q[j] \in T => j <= k) => q[k].value = w

\* A message that is not in T changes nothing.
LEMMA FollowsAppendOther ==
  ASSUME NEW S, NEW q \in Seq(S), NEW m, NEW T, NEW x, NEW w,
         m \notin T, Follows(q, T, x, w)
  PROVE  Follows(Append(q, m), T, x, w)
<1> DEFINE p == Append(q, m)
<1>1. /\ Len(q) \in Nat /\ Len(p) = Len(q) + 1 /\ p[Len(q) + 1] = m
      /\ \A k \in 1 .. Len(q) : p[k] = q[k]
  BY AppendIndexed
<1> HIDE DEF p
<1>2. \A k \in 1 .. Len(p) : k \in 1 .. Len(q) \/ k = Len(q) + 1
  BY <1>1
<1>3. \A k \in 1 .. Len(q) : k \in 1 .. Len(p)
  BY <1>1
<1>4. \A k \in 1 .. Len(p) : p[k] \in T => k \in 1 .. Len(q) /\ q[k] \in T
  BY <1>1, <1>2
<1>5. \A k \in 1 .. Len(q) : q[k] \in T => p[k] \in T
  BY <1>1
<1>6. Follows(p, T, x, w)
  BY <1>1, <1>3, <1>4, <1>5 DEF Follows
<1> QED  BY <1>6 DEF p

\* One that is in T decides.
LEMMA FollowsAppendSet ==
  ASSUME NEW S, NEW q \in Seq(S), NEW m, NEW T, NEW x,
         m \in T
  PROVE  Follows(Append(q, m), T, x, m.value)
<1> DEFINE p == Append(q, m)
<1>1. /\ Len(q) \in Nat /\ Len(p) = Len(q) + 1 /\ p[Len(q) + 1] = m
      /\ \A k \in 1 .. Len(q) : p[k] = q[k]
  BY AppendIndexed
<1> HIDE DEF p
<1>2. Len(q) + 1 \in 1 .. Len(p) /\ p[Len(q) + 1] \in T
  BY <1>1
<1>3. ASSUME NEW k \in 1 .. Len(p), \A j \in 1 .. Len(p) : p[j] \in T => j <= k
      PROVE  p[k].value = m.value
  <2>1. Len(q) + 1 <= k
    BY <1>2, <1>3
  <2>2. k = Len(q) + 1
    BY <1>1, <2>1
  <2> QED  BY <1>1, <2>2
<1>4. Follows(p, T, x, m.value)
  BY <1>2, <1>3 DEF Follows
<1> QED  BY <1>4 DEF p

\* The oldest message leaves; if it is in T, its value is held.
LEMMA FollowsTail ==
  ASSUME NEW S, NEW q \in Seq(S), q # <<>>, NEW T, NEW x, NEW w,
         Follows(q, T, x, w)
  PROVE  Follows(Tail(q), T, IF Head(q) \in T THEN Head(q).value ELSE x, w)
<1> DEFINE p == Tail(q)
           y == IF Head(q) \in T THEN Head(q).value ELSE x
<1>1. /\ Len(q) \in Nat \ {0} /\ Head(q) = q[1] /\ Len(p) = Len(q) - 1
      /\ \A k \in 1 .. Len(p) : p[k] = q[k + 1]
  BY TailIndexed
<1> HIDE DEF p
<1>2. \A k \in 1 .. Len(p) : k + 1 \in 1 .. Len(q)
  BY <1>1
<1>3. \A k \in 1 .. Len(q) : k = 1 \/ (k - 1 \in 1 .. Len(p) /\ q[k] = p[k - 1])
  BY <1>1
<1>4. ASSUME \A k \in 1 .. Len(p) : p[k] \notin T PROVE y = w
  <2>1. \A k \in 1 .. Len(q) : q[k] \in T => k = 1
    BY <1>3, <1>4
  <2>2. CASE q[1] \in T
    <3>1. 1 \in 1 .. Len(q) /\ \A j \in 1 .. Len(q) : q[j] \in T => j <= 1
      BY <1>1, <2>1
    <3>2. q[1].value = w
      BY <2>2, <3>1 DEF Follows
    <3> QED  BY <1>1, <2>2, <3>2
  <2>3. CASE q[1] \notin T
    <3>1. \A k \in 1 .. Len(q) : q[k] \notin T
      BY <2>1, <2>3
    <3>2. x = w
      BY <3>1 DEF Follows
    <3> QED  BY <1>1, <2>3, <3>2
  <2> QED  BY <2>2, <2>3
<1>5. ASSUME NEW k \in 1 .. Len(p), p[k] \in T,
             \A j \in 1 .. Len(p) : p[j] \in T => j <= k
      PROVE  p[k].value = w
  <2>1. k + 1 \in 1 .. Len(q) /\ p[k] = q[k + 1] /\ k \in Nat
    BY <1>1, <1>2
  <2>2. ASSUME NEW j \in 1 .. Len(q), q[j] \in T PROVE j <= k + 1
    <3>1. CASE j = 1
      BY <2>1, <3>1
    <3>2. CASE j # 1
      <4>1. j - 1 \in 1 .. Len(p) /\ q[j] = p[j - 1]
        BY <1>3, <3>2
      <4>2. j - 1 <= k
        BY <1>5, <2>2, <4>1
      <4> QED  BY <2>1, <4>2
    <3> QED  BY <3>1, <3>2
  <2>3. q[k + 1].value = w
    BY <1>5, <2>1, <2>2 DEF Follows
  <2> QED  BY <2>1, <2>3
<1>6. Follows(p, T, y, w)
  BY <1>4, <1>5 DEF Follows
<1> QED  BY <1>6 DEF p

\* Follows says which value the newest message has.
LEMMA FollowsNewest ==
  ASSUME NEW S, NEW q \in Seq(S), NEW T, NEW x, NEW w, Follows(q, T, x, w),
         NEW P, P = {k \in 1 .. Len(q) : q[k] \in T}
  PROVE  w = IF P = {} THEN x ELSE q[CHOOSE k \in P : \A j \in P : j <= k].value
<1>1. CASE P = {}
  BY <1>1 DEF Follows
<1>2. CASE P # {}
  <2>1. \E k \in P : \A j \in P : j <= k
    <3>1. Len(q) \in Nat /\ P \subseteq 1 .. Len(q)
      OBVIOUS
    <3> QED  BY <1>2, <3>1, LastIn
  <2> DEFINE n == CHOOSE k \in P : \A j \in P : j <= k
  <2>2. n \in P /\ \A j \in P : j <= n
    BY <2>1
  <2> HIDE DEF n
  <2>3. n \in 1 .. Len(q) /\ q[n] \in T /\ \A j \in 1 .. Len(q) : q[j] \in T => j <= n
    BY <2>2
  <2>4. q[n].value = w
    BY <2>3 DEF Follows
  <2> QED  BY <1>2, <2>4 DEF n
<1> QED  BY <1>1, <1>2
=============================================================================
