---------------------------- MODULE AppBusProofs ----------------------------
(***************************************************************************)
(* The bus keeps its inductive invariant and implements the lossy ordered  *)
(* channels of BusService, for any number of publishers and subscribers,   *)
(* any capacities and any length of the array.                             *)
(***************************************************************************)
EXTENDS AppBus, SequenceTheorems, TLAPS

\* What xQueueReceive leaves of a queue.
LEMMA TailFacts ==
  ASSUME NEW S, NEW s \in Seq(S), s # <<>>
  PROVE  /\ Head(s) \in S /\ Head(s) = s[1]
         /\ Tail(s) \in Seq(S)
         /\ Len(s) \in Nat \ {0} /\ Len(Tail(s)) = Len(s) - 1
         /\ \A k \in 1 .. Len(s) - 1 : Tail(s)[k] = s[k + 1]
  BY HeadTailProperties, ElementOfSeq, LenProperties

\* What xQueueSend makes of a queue.
LEMMA AppendFacts ==
  ASSUME NEW S, NEW s \in Seq(S), NEW e \in S
  PROVE  /\ Append(s, e) \in Seq(S)
         /\ Len(s) \in Nat /\ Len(Append(s, e)) = Len(s) + 1
         /\ \A k \in 1 .. Len(s) : Append(s, e)[k] = s[k]
         /\ Append(s, e)[Len(s) + 1] = e
  BY AppendProperties, LenProperties

\* One iteration of the publish loop: only q's queue changes, and q either
\* takes the message or loses it.
LEMMA OfferFacts ==
  ASSUME TypeOK, NEW q \in Subscriber, NEW p \in Publisher, Offer(q, p)
  PROVE  /\ queue' \in [Subscriber -> Seq(Message)]
         /\ lost' \in [Subscriber -> [Publisher -> Nat]]
         /\ \A r \in Subscriber : r # q => queue'[r] = queue[r]
         /\ \A r \in Subscriber, s \in Publisher :
              r # q \/ s # p => lost'[r][s] = lost[r][s]
         /\ \/ /\ queue'[q] = Append(queue[q], [from |-> p, seq |-> issued[p]])
               /\ lost' = lost
            \/ /\ queue' = queue
               /\ lost'[q][p] = issued[p]
  <1> DEFINE m == [from |-> p, seq |-> issued[p]]
  <1>1. m \in Message
    BY DEF TypeOK, Message
  <1> HIDE DEF m
  <1>2. CASE Len(queue[q]) < Capacity[q]
    <2>1. queue' = [queue EXCEPT ![q] = Append(@, m)] /\ lost' = lost
      BY <1>2 DEF Offer, m
    <2>2. Append(queue[q], m) \in Seq(Message)
      BY <1>1, AppendFacts DEF TypeOK
    <2>3. QED
      BY <2>1, <2>2 DEF TypeOK, m
  <1>3. CASE ~(Len(queue[q]) < Capacity[q])
    <2>1. queue' = queue /\ lost' = [lost EXCEPT ![q][p] = issued[p]]
      BY <1>3 DEF Offer
    <2>2. issued[p] \in Nat /\ lost[q] \in [Publisher -> Nat]
      BY DEF TypeOK
    <2>3. lost'[q] = [lost[q] EXCEPT ![p] = issued[p]]
      BY <2>1 DEF TypeOK
    <2>4. \A r \in Subscriber : r # q => lost'[r] = lost[r]
      BY <2>1 DEF TypeOK
    <2>5. lost' \in [Subscriber -> [Publisher -> Nat]]
      BY <2>1, <2>2 DEF TypeOK
    <2>6. lost'[q][p] = issued[p] /\ \A s \in Publisher : s # p => lost'[q][s] = lost[q][s]
      BY <2>2, <2>3
    <2>7. QED
      BY <2>1, <2>4, <2>5, <2>6 DEF TypeOK
  <1>4. QED
    BY <1>2, <1>3

\* The variables have their types at reset.
LEMMA InitType == Init => TypeOK
  <1> SUFFICES ASSUME Init PROVE TypeOK
    OBVIOUS
  <1>1. slots \in [Slot -> Subscriber \cup {NoQueue}] /\ joining \in Subscriber \cup {NoQueue}
    BY DEF Init
  <1>2. count \in 0 .. MaxSubscribers /\ todo \in {"none", "store", "count"} /\ halted \in BOOLEAN
    <2>1. 0 \in 0 .. MaxSubscribers
      BY BusAssumption
    <2>2. QED
      BY <2>1 DEF Init
  <1>3. queue \in [Subscriber -> Seq(Message)]
    BY DEF Init
  <1>4. issued \in [Publisher -> Nat] /\ index \in [Publisher -> 0 .. MaxSubscribers + 1]
    BY BusAssumption DEF Init
  <1>5. last \in [Subscriber -> [Publisher -> Nat]] /\ lost \in [Subscriber -> [Publisher -> Nat]]
    BY DEF Init
  <1>6. QED
    BY <1>1, <1>2, <1>3, <1>4, <1>5 DEF TypeOK

\* The empty bus satisfies the inductive invariant.
LEMMA InitBusInv == Init => BusInv
  <1> SUFFICES ASSUME Init PROVE BusInv
    OBVIOUS
  <1>1. TypeOK
    BY InitType
  <1>2. SlotsInv
    BY BusAssumption DEF Init, SlotsInv, Subscribed, Slot
  <1>3. QueueOrdered
    BY DEF Init, QueueOrdered
  <1>4. ServedInv
    BY DEF Init, ServedInv, Idle
  <1>5. Accounted
    BY DEF Init, Accounted, Idle
  <1>6. QED
    BY <1>1, <1>2, <1>3, <1>4, <1>5 DEF BusInv

\* Every step keeps the types; the array is never overrun.
LEMMA StepType ==
  ASSUME TypeOK, SlotsInv, Next PROVE TypeOK'
  <1> USE DEF TypeOK, subscriptionVars
  <1>1. ASSUME NEW q \in Subscriber, SubscribeStoreFirst(q) PROVE TypeOK'
    BY <1>1, BusAssumption DEF SubscribeStoreFirst, BeginSubscribe
  <1>2. ASSUME NEW q \in Subscriber, SubscribeCountFirst(q) PROVE TypeOK'
    BY <1>2, BusAssumption DEF SubscribeCountFirst, BeginSubscribe
  <1>3. ASSUME NEW q \in Subscriber, SubscribeTooMany(q) PROVE TypeOK'
    BY <1>3 DEF SubscribeTooMany
  <1>4. ASSUME FinishSubscribe PROVE TypeOK'
    <2>1. todo \in {"count", "store"}
      BY <1>4 DEF FinishSubscribe, SlotsInv
    <2>2. CASE todo = "count"
      <3>1. count' \in 0 .. MaxSubscribers
        BY <1>4, <2>2, BusAssumption DEF FinishSubscribe, SlotsInv
      <3>2. QED
        BY <1>4, <2>2, <3>1 DEF FinishSubscribe
    <2>3. CASE todo = "store"
      BY <1>4, <2>3 DEF FinishSubscribe
    <2>4. QED
      BY <2>1, <2>2, <2>3
  <1>5. ASSUME NEW p \in Publisher, Publish(p) PROVE TypeOK'
    BY <1>5, BusAssumption DEF Publish
  <1>6. ASSUME NEW p \in Publisher, Send(p) PROVE TypeOK'
    <2>1. index[p] \in Slot /\ slots[index[p]] \in Subscriber
      BY <1>6, BusAssumption DEF Send, Idle, Slot
    <2>2. /\ queue' \in [Subscriber -> Seq(Message)]
          /\ lost' \in [Subscriber -> [Publisher -> Nat]]
      BY <1>6, <2>1, OfferFacts DEF Send
    <2>4. index' \in [Publisher -> 0 .. MaxSubscribers + 1]
      BY <1>6, <2>1, BusAssumption DEF Send, Slot
    <2>5. QED
      BY <1>6, <2>2, <2>4 DEF Send
  <1>7. ASSUME NEW p \in Publisher, SendToNull(p) PROVE TypeOK'
    BY <1>7 DEF SendToNull
  <1>8. ASSUME NEW p \in Publisher, Return(p) PROVE TypeOK'
    BY <1>8, BusAssumption DEF Return
  <1>9. ASSUME NEW q \in Subscriber, Receive(q) PROVE TypeOK'
    <2>1. queue[q] \in Seq(Message) /\ queue[q] # <<>>
      BY <1>9 DEF Receive
    <2>2. Head(queue[q]) \in Message /\ Tail(queue[q]) \in Seq(Message)
      BY <2>1, TailFacts
    <2>3. last' \in [Subscriber -> [Publisher -> Nat]]
      BY <1>9, <2>2 DEF Receive, Message
    <2>4. queue' \in [Subscriber -> Seq(Message)]
      BY <1>9, <2>2 DEF Receive
    <2>5. QED
      BY <1>9, <2>3, <2>4 DEF Receive
  <1>10. QED
    BY <1>1, <1>2, <1>3, <1>4, <1>5, <1>6, <1>7, <1>8, <1>9
    DEF Next, Subscribe, PublishStep

-----------------------------------------------------------------------------
\* The steps of publishers and subscribers leave the array alone.
LEMMA ArrayUnchanged ==
  ASSUME Next PROVE \/ UNCHANGED subscriptionVars
                    \/ \E q \in Subscriber : SubscribeStoreFirst(q) \/ SubscribeCountFirst(q)
                    \/ FinishSubscribe
  BY DEF Next, Subscribe, PublishStep, SubscribeTooMany, Publish, Send, SendToNull,
     Return, Receive

\* Every step keeps the array free of holes and repetitions.
LEMMA StepSlots ==
  ASSUME TypeOK, SlotsInv, Next PROVE SlotsInv'
  <1> USE BusAssumption DEF Slot
  <1>1. CASE UNCHANGED subscriptionVars
    BY <1>1 DEF SlotsInv, Subscribed, subscriptionVars
  <1>2. ASSUME NEW q \in Subscriber, SubscribeStoreFirst(q) PROVE SlotsInv'
    <2>1. /\ slots' = [slots EXCEPT ![count + 1] = q] /\ count + 1 \in Slot
          /\ count' = count /\ joining' = q /\ todo' = "count"
          /\ joining = NoQueue /\ todo = "none" /\ \A k \in Slot : slots[k] # q
      BY <1>2 DEF SubscribeStoreFirst, BeginSubscribe, Subscribed, TypeOK, SlotsInv
    <2>2. QED
      BY <2>1 DEF SlotsInv, TypeOK
  <1>3. ASSUME NEW q \in Subscriber, SubscribeCountFirst(q) PROVE SlotsInv'
    <2>1. /\ slots' = slots /\ count' = count + 1 /\ joining' = q /\ todo' = "store"
          /\ joining = NoQueue /\ todo = "none" /\ ~Subscribed(q) /\ count + 1 \in Slot
      BY <1>3 DEF SubscribeCountFirst, BeginSubscribe, TypeOK, SlotsInv
    <2>2. QED
      BY <2>1 DEF SlotsInv, TypeOK, Subscribed
  <1>4. CASE FinishSubscribe
    <2>1. CASE todo = "count"
      BY <1>4, <2>1 DEF FinishSubscribe, SlotsInv, TypeOK
    <2>2. CASE todo = "store"
      <3>1. /\ slots' = [slots EXCEPT ![count] = joining] /\ count \in Slot
            /\ count' = count /\ joining' = NoQueue /\ todo' = "none"
            /\ joining \in Subscriber /\ \A k \in Slot : slots[k] # joining
        BY <1>4, <2>2 DEF FinishSubscribe, SlotsInv, TypeOK, Subscribed
      <3>2. QED
        BY <2>2, <3>1 DEF SlotsInv, TypeOK
    <2>3. QED
      BY <1>4, <2>1, <2>2 DEF FinishSubscribe, SlotsInv, TypeOK
  <1>5. QED
    BY <1>1, <1>2, <1>3, <1>4, ArrayUnchanged

\* A slot that holds a queue keeps it.
LEMMA SlotsStable ==
  ASSUME TypeOK, SlotsInv, Next
  PROVE  \A k \in Slot : slots[k] \in Subscriber => slots'[k] = slots[k]
  <1> USE BusAssumption DEF Slot
  <1>1. CASE UNCHANGED subscriptionVars
    BY <1>1 DEF subscriptionVars
  <1>2. ASSUME NEW q \in Subscriber, SubscribeStoreFirst(q)
        PROVE  \A k \in Slot : slots[k] \in Subscriber => slots'[k] = slots[k]
    BY <1>2 DEF SubscribeStoreFirst, BeginSubscribe, SlotsInv, TypeOK
  <1>3. ASSUME NEW q \in Subscriber, SubscribeCountFirst(q)
        PROVE  \A k \in Slot : slots[k] \in Subscriber => slots'[k] = slots[k]
    BY <1>3 DEF SubscribeCountFirst
  <1>4. CASE FinishSubscribe
    BY <1>4 DEF FinishSubscribe, SlotsInv, TypeOK
  <1>5. QED
    BY <1>1, <1>2, <1>3, <1>4, ArrayUnchanged

-----------------------------------------------------------------------------
\* A queue that already holds the message being published is not offered it
\* again, because the loop serves each slot once and each queue has one slot.
LEMMA FirstOffer ==
  ASSUME BusInv, NEW p \in Publisher, Send(p)
  PROVE  /\ index[p] \in Slot
         /\ slots[index[p]] \in Subscriber
         /\ ~HasCurrent(slots[index[p]], p)
  <1> USE BusAssumption DEF BusInv
  <1>1. index[p] \in Slot /\ slots[index[p]] \in Subscriber /\ ~Idle(p)
    BY DEF Send, Idle, Slot, TypeOK
  <1>2. ASSUME HasCurrent(slots[index[p]], p) PROVE FALSE
    <2>1. PICK k \in Slot : k < index[p] /\ slots[k] = slots[index[p]]
      BY <1>1, <1>2 DEF ServedInv
    <2>2. k = index[p]
      BY <1>1, <2>1 DEF SlotsInv
    <2>3. QED
      BY <2>1, <2>2 DEF TypeOK
  <1>3. QED
    BY <1>1, <1>2

\* The positions of a queue hold messages.
LEMMA QueueElements ==
  ASSUME TypeOK, NEW q \in Subscriber
  PROVE  /\ Len(queue[q]) \in Nat
         /\ \A k \in 1 .. Len(queue[q]) :
              /\ queue[q][k] \in Message
              /\ queue[q][k].from \in Publisher
              /\ queue[q][k].seq \in Nat
              /\ queue[q][k] = [from |-> queue[q][k].from, seq |-> queue[q][k].seq]
  <1>1. queue[q] \in Seq(Message)
    BY DEF TypeOK
  <1>2. ASSUME NEW k \in 1 .. Len(queue[q]) PROVE queue[q][k] \in Message
    BY <1>1, ElementOfSeq
  <1>3. \A m \in Message : /\ m.from \in Publisher /\ m.seq \in Nat
                            /\ m = [from |-> m.from, seq |-> m.seq]
    BY DEF Message
  <1>4. Len(queue[q]) \in Nat
    BY <1>1, LenProperties
  <1>5. QED
    BY <1>2, <1>3, <1>4

\* Every step keeps the queues in the order of publication.
LEMMA StepOrdered ==
  ASSUME BusInv, Next PROVE QueueOrdered'
  <1> USE DEF BusInv
  <1>1. CASE UNCHANGED <<queue, last, issued>>
    BY <1>1 DEF QueueOrdered
  <1>2. ASSUME NEW p \in Publisher, Publish(p) PROVE QueueOrdered'
    <2>1. /\ queue' = queue /\ last' = last
          /\ \A s \in Publisher : issued[s] \in Nat /\ issued'[s] \in Nat /\ issued[s] <= issued'[s]
      BY <1>2 DEF Publish, TypeOK
    <2>2. ASSUME NEW q \in Subscriber, NEW k \in 1 .. Len(queue[q])
          PROVE  queue[q][k].seq \in last[q][queue[q][k].from] + 1 .. issued'[queue[q][k].from]
      <3>1. queue[q][k].from \in Publisher /\ queue[q][k].seq \in Nat
        BY <2>2, QueueElements
      <3>2. queue[q][k].seq \in last[q][queue[q][k].from] + 1 .. issued[queue[q][k].from]
        BY <2>2 DEF QueueOrdered
      <3>3. last[q][queue[q][k].from] \in Nat
        BY <3>1 DEF TypeOK
      <3>4. QED
        BY <2>1, <3>1, <3>2, <3>3
    <2>3. QED
      BY <2>1, <2>2 DEF QueueOrdered
  <1>3. ASSUME NEW p \in Publisher, Send(p) PROVE QueueOrdered'
    <2> DEFINE m == [from |-> p, seq |-> issued[p]]
    <2>1. PICK q \in Subscriber : q = slots[index[p]] /\ ~HasCurrent(q, p) /\ Offer(q, p)
      BY <1>3, FirstOffer DEF Send
    <2>2. last' = last /\ issued' = issued
      BY <1>3 DEF Send
    <2>3. CASE queue' = queue
      BY <2>2, <2>3 DEF QueueOrdered
    <2>4. CASE queue'[q] = Append(queue[q], m)
      <3>1. m \in Message
        BY DEF TypeOK, Message
      <3>2. /\ Len(queue[q]) \in Nat /\ Len(queue'[q]) = Len(queue[q]) + 1
            /\ \A k \in 1 .. Len(queue[q]) : queue'[q][k] = queue[q][k]
            /\ queue'[q][Len(queue[q]) + 1] = m
        BY <2>4, <3>1, AppendFacts DEF TypeOK
      <3>3. last[q][p] \in Nat /\ issued[p] \in Nat /\ last[q][p] < issued[p]
        BY <2>1 DEF HasCurrent, ServedInv, TypeOK
      <3>4. ASSUME NEW k \in 1 .. Len(queue[q]), queue[q][k].from = p
            PROVE  queue[q][k].seq < issued[p]
        BY <2>1, <3>4, QueueElements DEF HasCurrent, QueueOrdered, TypeOK
      <3>5. \A k \in 1 .. Len(queue'[q]) :
              queue'[q][k].seq \in last[q][queue'[q][k].from] + 1 .. issued[queue'[q][k].from]
        <4>1. ASSUME NEW k \in 1 .. Len(queue[q])
              PROVE  queue'[q][k].seq \in last[q][queue'[q][k].from] + 1 .. issued[queue'[q][k].from]
          BY <3>2, <4>1 DEF QueueOrdered
        <4>2. m.seq \in last[q][m.from] + 1 .. issued[m.from]
          BY <3>3
        <4>3. QED
          BY <3>2, <4>1, <4>2
      <3>6. ASSUME NEW j \in 1 .. Len(queue'[q]), NEW k \in 1 .. Len(queue'[q]),
                   j < k, queue'[q][j].from = queue'[q][k].from
            PROVE  queue'[q][j].seq < queue'[q][k].seq
        <4>1. j \in 1 .. Len(queue[q])
          BY <3>2, <3>6
        <4>2. CASE k \in 1 .. Len(queue[q])
          BY <3>2, <3>6, <4>1, <4>2 DEF QueueOrdered
        <4>3. CASE k = Len(queue[q]) + 1
          BY <3>2, <3>4, <3>6, <4>1, <4>3
        <4>4. QED
          BY <3>2, <4>2, <4>3
      <3>7. \A r \in Subscriber : r # q => queue'[r] = queue[r]
        BY <2>1, OfferFacts
      <3>8. QED
        BY <2>2, <3>5, <3>6, <3>7 DEF QueueOrdered
    <2>5. QED
      BY <2>1, <2>3, <2>4, OfferFacts
  <1>4. ASSUME NEW q \in Subscriber, Receive(q) PROVE QueueOrdered'
    <2> DEFINE h == Head(queue[q])
    <2>1. /\ queue[q] \in Seq(Message) /\ queue[q] # <<>> /\ issued' = issued
          /\ queue' = [queue EXCEPT ![q] = Tail(@)]
          /\ last' = [last EXCEPT ![q][h.from] = h.seq]
      BY <1>4 DEF Receive, TypeOK
    <2>2. /\ h \in Message /\ h = queue[q][1] /\ Len(queue[q]) \in Nat \ {0}
          /\ Len(queue'[q]) = Len(queue[q]) - 1
          /\ \A k \in 1 .. Len(queue[q]) - 1 : queue'[q][k] = queue[q][k + 1]
      BY <2>1, TailFacts DEF TypeOK
    <2>3. /\ \A r \in Subscriber : r # q => queue'[r] = queue[r] /\ last'[r] = last[r]
          /\ last'[q] = [last[q] EXCEPT ![h.from] = h.seq]
      BY <2>1 DEF TypeOK
    <2>4. ASSUME NEW k \in 1 .. Len(queue'[q])
          PROVE  queue'[q][k].seq \in last'[q][queue'[q][k].from] + 1 .. issued[queue'[q][k].from]
      <3>1. k + 1 \in 1 .. Len(queue[q]) /\ queue'[q][k] = queue[q][k + 1] /\ 1 < k + 1
            /\ 1 \in 1 .. Len(queue[q])
        BY <2>2, <2>4
      <3>2. queue[q][k + 1].from = h.from => h.seq < queue[q][k + 1].seq
        BY <2>2, <3>1 DEF QueueOrdered
      <3>3. last'[q] \in [Publisher -> Nat] /\ last[q] \in [Publisher -> Nat]
        <4>1. h.from \in Publisher /\ h.seq \in Nat
          BY <2>2 DEF Message
        <4>2. last[q] \in [Publisher -> Nat]
          BY DEF TypeOK
        <4>3. QED
          BY <2>3, <4>1, <4>2
      <3>4. /\ queue[q][k + 1].from \in Publisher /\ queue[q][k + 1].seq \in Nat
            /\ queue[q][k + 1].seq \in last[q][queue[q][k + 1].from] + 1 .. issued[queue[q][k + 1].from]
        BY <3>1, QueueElements DEF QueueOrdered
      <3>5. CASE queue[q][k + 1].from = h.from
        <4>1. last'[q][h.from] = h.seq /\ h.seq \in Nat /\ issued[h.from] \in Nat
          BY <2>2, <2>3, <3>3, <3>4, <3>5 DEF Message, TypeOK
        <4>2. queue[q][k + 1].seq \in Nat /\ h.seq < queue[q][k + 1].seq
          BY <3>2, <3>4, <3>5
        <4>3. queue[q][k + 1].seq <= issued[h.from]
          BY <3>4, <3>5, <4>1
        <4>4. queue[q][k + 1].seq \in h.seq + 1 .. issued[h.from]
          BY <4>1, <4>2, <4>3
        <4>5. QED
          BY <3>1, <3>5, <4>1, <4>4
      <3>6. CASE queue[q][k + 1].from # h.from
        BY <2>2, <2>3, <3>1, <3>3, <3>4, <3>6 DEF Message, TypeOK
      <3>7. QED
        BY <3>5, <3>6
    <2>5. ASSUME NEW j \in 1 .. Len(queue'[q]), NEW k \in 1 .. Len(queue'[q]),
                 j < k, queue'[q][j].from = queue'[q][k].from
          PROVE  queue'[q][j].seq < queue'[q][k].seq
      <3>1. /\ j + 1 \in 1 .. Len(queue[q]) /\ k + 1 \in 1 .. Len(queue[q]) /\ j + 1 < k + 1
            /\ queue'[q][j] = queue[q][j + 1] /\ queue'[q][k] = queue[q][k + 1]
        <4>1. j + 1 \in 1 .. Len(queue[q]) /\ k + 1 \in 1 .. Len(queue[q]) /\ j + 1 < k + 1
          BY <2>2, <2>5
        <4>2. j \in 1 .. Len(queue[q]) - 1 /\ k \in 1 .. Len(queue[q]) - 1
          BY <2>2, <2>5
        <4>3. QED
          BY <2>2, <4>1, <4>2
      <3>2. QED
        BY <2>5, <3>1 DEF QueueOrdered
    <2>6. ASSUME NEW r \in Subscriber, r # q
          PROVE  /\ \A k \in 1 .. Len(queue'[r]) :
                      queue'[r][k].seq \in last'[r][queue'[r][k].from] + 1 .. issued[queue'[r][k].from]
                 /\ \A j, k \in 1 .. Len(queue'[r]) :
                      j < k /\ queue'[r][j].from = queue'[r][k].from
                        => queue'[r][j].seq < queue'[r][k].seq
      <3>1. queue'[r] = queue[r] /\ last'[r] = last[r]
        BY <2>3, <2>6
      <3>2. QED
        BY <3>1 DEF QueueOrdered
    <2>7. ASSUME NEW r \in Subscriber
          PROVE  /\ \A k \in 1 .. Len(queue'[r]) :
                      queue'[r][k].seq \in last'[r][queue'[r][k].from] + 1 .. issued[queue'[r][k].from]
                 /\ \A j, k \in 1 .. Len(queue'[r]) :
                      j < k /\ queue'[r][j].from = queue'[r][k].from
                        => queue'[r][j].seq < queue'[r][k].seq
      <3>1. CASE r = q
        <4>1. \A k \in 1 .. Len(queue'[q]) :
                queue'[q][k].seq \in last'[q][queue'[q][k].from] + 1 .. issued[queue'[q][k].from]
          BY <2>4
        <4>2. \A j, k \in 1 .. Len(queue'[q]) :
                j < k /\ queue'[q][j].from = queue'[q][k].from
                  => queue'[q][j].seq < queue'[q][k].seq
          BY <2>5
        <4>3. QED
          BY <3>1, <4>1, <4>2
      <3>2. CASE r # q
        BY <3>2, <2>6
      <3>3. QED
        BY <3>1, <3>2
    <2>8. QED
      BY <2>1, <2>7 DEF QueueOrdered
  <1>5. QED
    BY <1>1, <1>2, <1>3, <1>4 DEF Next, Subscribe, PublishStep, SubscribeStoreFirst,
       SubscribeCountFirst, SubscribeTooMany, FinishSubscribe, SendToNull, Return

-----------------------------------------------------------------------------
\* What a queue holds or its subscriber has received does not depend on who
\* receives: only the publication of the next message starts afresh.
LEMMA HasCurrentReceive ==
  ASSUME BusInv, NEW r \in Subscriber, Receive(r), NEW q \in Subscriber, NEW p \in Publisher
  PROVE  /\ HasCurrent(q, p)' <=> HasCurrent(q, p)
         /\ last'[q][p] <= issued'[p]
  <1> USE DEF BusInv
  <1> DEFINE h == Head(queue[r])
  <1>1. /\ queue[r] \in Seq(Message) /\ queue[r] # <<>> /\ issued' = issued
        /\ queue' = [queue EXCEPT ![r] = Tail(@)]
        /\ last' = [last EXCEPT ![r][h.from] = h.seq]
    BY DEF Receive, TypeOK
  <1>2. last[q][p] <= issued[p]
    BY DEF ServedInv
  <1>3. CASE q # r
    BY <1>1, <1>2, <1>3 DEF HasCurrent, TypeOK
  <1>4. CASE q = r
    <2>1. /\ h \in Message /\ h = queue[q][1] /\ Len(queue[q]) \in Nat \ {0}
          /\ Len(queue'[q]) = Len(queue[q]) - 1
          /\ \A k \in 1 .. Len(queue[q]) - 1 : queue'[q][k] = queue[q][k + 1]
      BY <1>1, <1>4, TailFacts DEF TypeOK
    <2>2. h.from \in Publisher /\ h.seq \in Nat /\ h = [from |-> h.from, seq |-> h.seq]
      BY <2>1 DEF Message
    <2>3. last'[q] = [last[q] EXCEPT ![h.from] = h.seq] /\ last[q] \in [Publisher -> Nat]
      BY <1>1, <1>4, <2>2 DEF TypeOK
    <2>4. 1 \in 1 .. Len(queue[q])
      BY <2>1
    <2>5. h.seq \in last[q][h.from] + 1 .. issued[h.from]
      BY <2>1, <2>4 DEF QueueOrdered
    <2>6. CASE h.from # p
      <3>1. last'[q][p] = last[q][p]
        BY <2>3, <2>6
      <3>2. ASSUME NEW k \in 1 .. Len(queue[q]), queue[q][k] = [from |-> p, seq |-> issued[p]]
            PROVE  \E j \in 1 .. Len(queue'[q]) : queue'[q][j] = [from |-> p, seq |-> issued[p]]
        <4>1. k # 1
          BY <2>1, <2>6, <3>2
        <4>2. k - 1 \in 1 .. Len(queue[q]) - 1 /\ (k - 1) + 1 = k
          BY <2>1, <4>1
        <4>3. queue'[q][k - 1] = queue[q][k]
          BY <2>1, <4>2
        <4>4. QED
          BY <2>1, <3>2, <4>2, <4>3
      <3>3. ASSUME NEW k \in 1 .. Len(queue'[q]), queue'[q][k] = [from |-> p, seq |-> issued[p]]
            PROVE  \E j \in 1 .. Len(queue[q]) : queue[q][j] = [from |-> p, seq |-> issued[p]]
        <4>1. k \in 1 .. Len(queue[q]) - 1 /\ k + 1 \in 1 .. Len(queue[q])
          BY <2>1
        <4>2. QED
          BY <2>1, <3>3, <4>1
      <3>4. QED
        BY <1>1, <1>2, <3>1, <3>2, <3>3 DEF HasCurrent
    <2>7. CASE h.from = p
      <3>1. last'[q][p] = h.seq /\ h.seq <= issued[p] /\ issued[p] \in Nat /\ last[q][p] \in Nat
        BY <2>2, <2>3, <2>5, <2>7 DEF TypeOK
      <3>2. CASE h.seq = issued[p]
        <4>1. queue[q][1] = [from |-> p, seq |-> issued[p]]
          BY <2>1, <2>2, <2>7, <3>2
        <4>2. QED
          BY <1>1, <2>4, <3>1, <3>2, <4>1 DEF HasCurrent
      <3>3. CASE h.seq # issued[p]
        <4>1. last[q][p] # issued[p] /\ last'[q][p] # issued[p]
          BY <2>5, <2>7, <3>1, <3>3
        <4>2. ASSUME NEW k \in 1 .. Len(queue[q]), queue[q][k] = [from |-> p, seq |-> issued[p]]
              PROVE  \E j \in 1 .. Len(queue'[q]) : queue'[q][j] = [from |-> p, seq |-> issued[p]]
          <5>1. k # 1
            BY <2>1, <3>3, <4>2
          <5>2. k - 1 \in 1 .. Len(queue[q]) - 1 /\ (k - 1) + 1 = k
            BY <2>1, <5>1
          <5>3. queue'[q][k - 1] = queue[q][k]
            BY <2>1, <5>2
          <5>4. QED
            BY <2>1, <4>2, <5>2, <5>3
        <4>3. ASSUME NEW k \in 1 .. Len(queue'[q]), queue'[q][k] = [from |-> p, seq |-> issued[p]]
              PROVE  \E j \in 1 .. Len(queue[q]) : queue[q][j] = [from |-> p, seq |-> issued[p]]
          <5>1. k \in 1 .. Len(queue[q]) - 1 /\ k + 1 \in 1 .. Len(queue[q])
            BY <2>1
          <5>2. QED
            BY <2>1, <4>3, <5>1
        <4>4. QED
          BY <1>1, <3>1, <4>1, <4>2, <4>3 DEF HasCurrent
      <3>4. QED
        BY <3>2, <3>3
    <2>8. QED
      BY <2>6, <2>7
  <1>5. QED
    BY <1>3, <1>4

\* A publication puts the message of p in one queue at most and takes none out.
LEMMA HasCurrentSend ==
  ASSUME BusInv, NEW s \in Publisher, Send(s), NEW q \in Subscriber, NEW p \in Publisher
  PROVE  /\ HasCurrent(q, p) => HasCurrent(q, p)'
         /\ HasCurrent(q, p)' => HasCurrent(q, p) \/ (p = s /\ q = slots[index[s]])
         /\ q = slots[index[s]] => HasCurrent(q, s)' \/ lost'[q][s] = issued[s]
         /\ lost'[q][p] = lost[q][p] \/ lost'[q][p] = issued[p]
  <1> USE DEF BusInv
  <1> DEFINE m == [from |-> s, seq |-> issued[s]]
  <1>1. PICK r \in Subscriber : r = slots[index[s]] /\ Offer(r, s)
    BY FirstOffer DEF Send
  <1>2. last' = last /\ issued' = issued /\ m \in Message
    BY DEF Send, TypeOK, Message
  <1>3. CASE q # r
    BY <1>1, <1>2, <1>3, OfferFacts DEF HasCurrent
  <1>4. CASE q = r /\ queue'[q] = Append(queue[q], m) /\ lost' = lost
    <2>1. /\ Len(queue[q]) \in Nat /\ Len(queue'[q]) = Len(queue[q]) + 1
          /\ \A k \in 1 .. Len(queue[q]) : queue'[q][k] = queue[q][k]
          /\ queue'[q][Len(queue[q]) + 1] = m
      BY <1>2, <1>4, AppendFacts DEF TypeOK
    <2>2. HasCurrent(q, p) => HasCurrent(q, p)'
      BY <1>2, <2>1 DEF HasCurrent
    <2>3. HasCurrent(q, p)' => HasCurrent(q, p) \/ p = s
      BY <1>2, <2>1 DEF HasCurrent
    <2>4. HasCurrent(q, s)'
      BY <1>2, <2>1 DEF HasCurrent
    <2>5. QED
      BY <1>1, <1>4, <2>2, <2>3, <2>4
  <1>5. CASE q = r /\ queue' = queue /\ lost'[q][s] = issued[s]
    BY <1>1, <1>2, <1>5, OfferFacts DEF HasCurrent
  <1>6. QED
    BY <1>1, <1>3, <1>4, <1>5, OfferFacts

-----------------------------------------------------------------------------
\* Every step keeps the account of what running publications have served.
LEMMA StepServed ==
  ASSUME BusInv, Next, TypeOK', SlotsInv' PROVE ServedInv' /\ Accounted'
  <1> USE BusAssumption DEF BusInv
  <1> DEFINE Good(p) ==
        /\ \A q \in Subscriber :
             /\ last[q][p] <= issued[p]
             /\ ~Idle(p) /\ HasCurrent(q, p) => \E k \in Slot : k < index[p] /\ slots[k] = q
        /\ ~Idle(p) => \A k \in Slot : k < index[p] =>
             /\ slots[k] \in Subscriber
             /\ HasCurrent(slots[k], p) \/ lost[slots[k]][p] = issued[p]
  <1>1. \A p \in Publisher : Good(p)
    BY DEF ServedInv, Accounted
  <1>2. \A k \in Slot : slots[k] \in Subscriber => slots'[k] = slots[k]
    BY SlotsStable
  <1>3. SUFFICES ASSUME NEW p \in Publisher PROVE Good(p)'
    BY DEF ServedInv, Accounted
  <1>4. CASE UNCHANGED <<queue, last, issued, index, lost>>
    <2>1. /\ \A q \in Subscriber : HasCurrent(q, p)' <=> HasCurrent(q, p)
          /\ Idle(p)' <=> Idle(p)
      BY <1>4 DEF HasCurrent, Idle
    <2>2. QED
      BY <1>1, <1>2, <1>4, <2>1
  <1>5. ASSUME NEW s \in Publisher, Publish(s) PROVE Good(p)'
    <2>1. queue' = queue /\ last' = last /\ lost' = lost /\ slots' = slots
      BY <1>5 DEF Publish, subscriptionVars
    <2>2. CASE p # s
      <3>1. issued'[p] = issued[p] /\ index'[p] = index[p]
        BY <1>5, <2>2 DEF Publish, TypeOK
      <3>2. \A q \in Subscriber : HasCurrent(q, p)' <=> HasCurrent(q, p)
        BY <2>1, <3>1 DEF HasCurrent
      <3>3. QED
        BY <1>1, <2>1, <3>1, <3>2 DEF Idle
    <2>3. CASE p = s
      <3>1. /\ issued'[p] = issued[p] + 1 /\ index'[p] = 1 /\ issued[p] \in Nat
        BY <1>5, <2>3 DEF Publish, TypeOK
      <3>2. ASSUME NEW q \in Subscriber PROVE last'[q][p] <= issued'[p] /\ ~HasCurrent(q, p)'
        <4>1. last[q][p] \in Nat /\ last[q][p] <= issued[p]
          BY <1>1 DEF TypeOK
        <4>2. ASSUME NEW k \in 1 .. Len(queue[q]), queue[q][k] = [from |-> p, seq |-> issued[p] + 1]
              PROVE  FALSE
          <5>1. queue[q][k].seq = issued[p] + 1 /\ queue[q][k].from = p
            BY <4>2
          <5>2. queue[q][k].seq \in last[q][p] + 1 .. issued[p]
            BY <4>2, <5>1 DEF QueueOrdered
          <5>3. QED
            BY <3>1, <5>1, <5>2
        <4>3. QED
          BY <2>1, <3>1, <4>1, <4>2 DEF HasCurrent
      <3>3. \A k \in Slot : ~(k < index'[p])
        BY <3>1 DEF Slot
      <3>4. QED
        BY <3>2, <3>3
    <2>4. QED
      BY <2>2, <2>3
  <1>6. ASSUME NEW s \in Publisher, Send(s) PROVE Good(p)'
    <2>1. /\ last' = last /\ issued' = issued /\ slots' = slots
          /\ index' = [index EXCEPT ![s] = @ + 1] /\ ~Idle(s)
      BY <1>6 DEF Send, subscriptionVars
    <2>2. index[s] \in Slot /\ slots[index[s]] \in Subscriber
      BY <1>6, FirstOffer
    <2>3. CASE p # s
      <3>1. index'[p] = index[p]
        BY <2>1, <2>3 DEF TypeOK
      <3>2. \A q \in Subscriber : HasCurrent(q, p)' <=> HasCurrent(q, p)
        BY <1>6, <2>3, HasCurrentSend
      <3>3. \A q \in Subscriber : lost[q][p] = issued[p] => lost'[q][p] = issued[p]
        BY <1>6, HasCurrentSend
      <3>4. QED
        BY <1>1, <2>1, <3>1, <3>2, <3>3 DEF Idle
    <2>4. CASE p = s
      <3>1. index'[p] = index[p] + 1 /\ index[p] \in Nat
        BY <2>1, <2>2, <2>4 DEF TypeOK
      <3>2. ASSUME NEW q \in Subscriber, HasCurrent(q, p)'
            PROVE  \E k \in Slot : k < index'[p] /\ slots'[k] = q
        <4>1. CASE q = slots[index[s]]
          BY <2>1, <2>2, <2>4, <3>1, <4>1
        <4>2. CASE HasCurrent(q, p)
          <5>1. PICK k \in Slot : k < index[p] /\ slots[k] = q
            BY <1>1, <2>1, <2>4, <4>2
          <5>2. k < index'[p]
            BY <3>1, <5>1 DEF Slot
          <5>3. QED
            BY <2>1, <5>1, <5>2
        <4>3. QED
          BY <1>6, <3>2, <4>1, <4>2, HasCurrentSend
      <3>3. ASSUME NEW k \in Slot, k < index'[p]
            PROVE  /\ slots'[k] \in Subscriber
                   /\ HasCurrent(slots[k], p)' \/ lost'[slots[k]][p] = issued'[p]
        <4>1. CASE k = index[p]
          BY <1>6, <2>1, <2>2, <2>4, <4>1, HasCurrentSend
        <4>2. CASE k < index[p]
          <5>1. /\ slots[k] \in Subscriber
                /\ HasCurrent(slots[k], p) \/ lost[slots[k]][p] = issued[p]
            BY <1>1, <2>1, <2>4, <4>2
          <5>2. QED
            BY <1>6, <2>1, <5>1, HasCurrentSend
        <4>3. QED
          BY <3>1, <3>3, <4>1, <4>2 DEF Slot
      <3>4. \A q \in Subscriber : last'[q][p] <= issued'[p]
        BY <1>1, <2>1
      <3>5. QED
        BY <2>1, <3>2, <3>3, <3>4
    <2>5. QED
      BY <2>3, <2>4
  <1>7. ASSUME NEW s \in Publisher, Return(s) PROVE Good(p)'
    <2>1. /\ queue' = queue /\ last' = last /\ lost' = lost /\ slots' = slots /\ issued' = issued
          /\ index' = [index EXCEPT ![s] = 0]
      BY <1>7 DEF Return, subscriptionVars
    <2>2. \A q \in Subscriber : HasCurrent(q, p)' <=> HasCurrent(q, p)
      BY <2>1 DEF HasCurrent
    <2>3. index'[p] = index[p] \/ Idle(p)'
      BY <2>1 DEF Idle, TypeOK
    <2>4. QED
      BY <1>1, <2>1, <2>2, <2>3 DEF Idle
  <1>8. ASSUME NEW r \in Subscriber, Receive(r) PROVE Good(p)'
    <2>1. lost' = lost /\ slots' = slots /\ issued' = issued /\ index' = index
      BY <1>8 DEF Receive, subscriptionVars
    <2>2. \A q \in Subscriber : (HasCurrent(q, p)' <=> HasCurrent(q, p)) /\ last'[q][p] <= issued'[p]
      BY <1>8, HasCurrentReceive
    <2>3. QED
      BY <1>1, <2>1, <2>2 DEF Idle
  <1>9. QED
    BY <1>4, <1>5, <1>6, <1>7, <1>8 DEF Next, Subscribe, PublishStep, SubscribeStoreFirst,
       SubscribeCountFirst, SubscribeTooMany, FinishSubscribe, SendToNull

\* Every step, and stuttering, keeps the inductive invariant.
LEMMA StepBusInv == BusInv /\ [Next]_vars => BusInv'
  <1> SUFFICES ASSUME BusInv, [Next]_vars PROVE BusInv'
    OBVIOUS
  <1>1. CASE Next
    <2>1. TypeOK' /\ SlotsInv'
      BY <1>1, StepType, StepSlots DEF BusInv
    <2>2. QED
      BY <1>1, <2>1, StepOrdered, StepServed DEF BusInv
  <1>2. CASE UNCHANGED vars
    <2>1. TypeOK' /\ SlotsInv'
      BY <1>2 DEF vars, BusInv, TypeOK, SlotsInv, Subscribed
    <2>2. \A q \in Subscriber, p \in Publisher : HasCurrent(q, p)' <=> HasCurrent(q, p)
      BY <1>2 DEF vars, HasCurrent
    <2>3. QueueOrdered'
      BY <1>2 DEF vars, BusInv, QueueOrdered
    <2>4. ServedInv' /\ Accounted'
      BY <1>2, <2>2 DEF vars, BusInv, ServedInv, Accounted, Idle
    <2>5. QED
      BY <2>1, <2>3, <2>4 DEF BusInv
  <1>3. QED
    BY <1>1, <1>2

-----------------------------------------------------------------------------
\* The inductive invariant of the bus: array, queues and running publications
\* agree in every reachable state.
THEOREM BusCorrect == Spec => []BusInv
  <1>1. QED
    BY InitBusInv, StepBusInv, PTL DEF Spec

\* The type invariant of the bus.
THEOREM BusTyped == Spec => []TypeOK
  <1>1. BusInv => TypeOK
    BY DEF BusInv
  <1>2. QED
    BY <1>1, BusCorrect, PTL

\* Every queue is in the order of publication, per publisher, and holds no
\* message twice.
THEOREM BusOrdered == Spec => []QueueOrdered
  <1>1. BusInv => QueueOrdered
    BY DEF BusInv
  <1>2. QED
    BY <1>1, BusCorrect, PTL

\* The publish loop skips no subscriber, whatever joins while it runs.
THEOREM BusAccounted == Spec => []Accounted
  <1>1. BusInv => Accounted
    BY DEF BusInv
  <1>2. QED
    BY <1>1, BusCorrect, PTL

\* A panic inside the bus happens only in the window of a subscription.
THEOREM BusPanic == Spec => []PanicOnlyInSubscribe
  <1>1. Init => PanicOnlyInSubscribe
    BY DEF Init, PanicOnlyInSubscribe
  <1>2. BusInv /\ PanicOnlyInSubscribe /\ [Next]_vars => PanicOnlyInSubscribe'
    <2> SUFFICES ASSUME BusInv, PanicOnlyInSubscribe, [Next]_vars, halted' PROVE PanicOnlyInSubscribe'
      BY DEF PanicOnlyInSubscribe
    <2>1. ASSUME NEW q \in Subscriber, SubscribeTooMany(q) PROVE PanicOnlyInSubscribe'
      BY <2>1, BusAssumption
      DEF SubscribeTooMany, PanicOnlyInSubscribe, subscriptionVars, BusInv, TypeOK
    <2>2. ASSUME NEW p \in Publisher, SendToNull(p) PROVE PanicOnlyInSubscribe'
      <3>1. index[p] \in Slot
        BY <2>2, BusAssumption DEF SendToNull, Idle, Slot, BusInv, TypeOK
      <3>2. todo = "store"
        BY <2>2, <3>1 DEF SendToNull, BusInv, SlotsInv, TypeOK, Slot
      <3>3. QED
        BY <2>2, <3>2 DEF SendToNull, PanicOnlyInSubscribe, subscriptionVars
    <2>3. CASE UNCHANGED vars
      BY <2>3 DEF PanicOnlyInSubscribe, vars
    <2>4. QED
      BY <2>1, <2>2, <2>3 DEF Next, Subscribe, PublishStep, SubscribeStoreFirst,
         SubscribeCountFirst, FinishSubscribe, Publish, Send, Return, Receive,
         PanicOnlyInSubscribe
  <1>3. QED
    BY <1>1, <1>2, BusCorrect, PTL DEF Spec

\* The bus is, for each publisher and subscriber, a lossy channel that neither
\* reorders nor duplicates.
THEOREM BusImplementsService == Spec => ImplementsService
  <1>1. Init => Service!Init
    BY DEF Init, Service!Init
  <1>2. BusInv /\ [Next]_vars => [Service!Next]_Service!vars
    <2> SUFFICES ASSUME BusInv, [Next]_vars PROVE Service!Next \/ UNCHANGED <<issued, last>>
      BY DEF Service!vars
    <2>1. ASSUME NEW p \in Publisher, Publish(p) PROVE Service!Next
      BY <2>1 DEF Publish, Service!Next, Service!Publish
    <2>2. ASSUME NEW q \in Subscriber, Receive(q) PROVE Service!Next
      <3> DEFINE h == Head(queue[q])
      <3>1. queue[q] \in Seq(Message) /\ queue[q] # <<>>
        BY <2>2 DEF Receive, BusInv, TypeOK
      <3>2. h \in Message /\ h = queue[q][1] /\ 1 \in 1 .. Len(queue[q])
        BY <3>1, TailFacts
      <3>3. h.from \in Publisher /\ h.seq \in last[q][h.from] + 1 .. issued[h.from]
        BY <3>2 DEF BusInv, QueueOrdered, Message
      <3>4. Service!Deliver(q, h.from)
        BY <2>2, <3>3 DEF Receive, Service!Deliver
      <3>5. QED
        BY <3>3, <3>4 DEF Service!Next
    <2>3. QED
      BY <2>1, <2>2 DEF Next, Subscribe, PublishStep, SubscribeStoreFirst, SubscribeCountFirst,
         SubscribeTooMany, FinishSubscribe, Send, SendToNull, Return, vars
  <1>3. QED
    BY <1>1, <1>2, BusCorrect, PTL DEF Spec, ImplementsService, Service!Spec
=============================================================================
