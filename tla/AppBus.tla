------------------------------- MODULE AppBus -------------------------------
(***************************************************************************)
(* The publish/subscribe bus of src/firmware/src/app_bus.h, which every    *)
(* task of the firmware uses to reach the others.                          *)
(*                                                                         *)
(* A subscriber owns one bounded FreeRTOS queue and stores its handle in   *)
(* the array s_subscribers[]; a publisher walks that array and offers the  *)
(* message to each queue with a timeout of zero, so a full queue loses the *)
(* message and the publisher never blocks.  No lock protects the array or  *)
(* the walk: tasks of higher priority (the Modbus task, the Wi-Fi event    *)
(* task) publish while app_main is still subscribing.  The store of the    *)
(* handle and the store of s_sub_count are two memory accesses whose order *)
(* the language does not fix; both orders are modelled.                    *)
(***************************************************************************)
EXTENDS Naturals, Sequences

CONSTANTS
  Publisher,        \* the tasks that call app_bus_publish
  Subscriber,       \* the queues passed to app_bus_subscribe
  NoQueue,          \* a slot of s_subscribers[] that was never written (NULL)
  MaxSubscribers,   \* app_bus_MAX_SUBSCRIBERS
  Capacity,         \* the length of a queue, per subscriber
  MaxMessages       \* bound: messages each publisher publishes

ASSUME BusAssumption ==
  /\ NoQueue \notin Subscriber
  /\ MaxSubscribers \in Nat \ {0}
  /\ Capacity \in [Subscriber -> Nat \ {0}]
  /\ MaxMessages \in Nat

VARIABLES
  slots,      \* s_subscribers[]
  count,      \* s_sub_count
  joining,    \* the queue whose app_bus_subscribe call is half done
  todo,       \* the memory access that call still has to make
  queue,      \* the contents of each subscriber's queue
  issued,     \* per publisher, the number of messages it has published
  index,      \* per publisher, the loop index of its running app_bus_publish
  last,       \* per subscriber and publisher, the newest message it received
  lost,       \* per subscriber and publisher, the newest message it lost
  halted      \* an assertion failed: the chip panics and every task stops

vars == <<slots, count, joining, todo, queue, issued, index, last, lost, halted>>
subscriptionVars == <<slots, count, joining, todo>>

Slot == 1 .. MaxSubscribers

\* bus_msg_t, as far as the bus is concerned: who published it, and its rank
\* among the messages of that publisher.
Message == [from : Publisher, seq : Nat]

\* index[p] = 0: p is not in app_bus_publish; otherwise the next slot to serve.
Idle(p) == index[p] = 0

Subscribed(q) == \E k \in Slot : slots[k] = q

Init ==
  /\ slots = [k \in Slot |-> NoQueue]
  /\ count = 0
  /\ joining = NoQueue
  /\ todo = "none"
  /\ queue = [q \in Subscriber |-> <<>>]
  /\ issued = [p \in Publisher |-> 0]
  /\ index = [p \in Publisher |-> 0]
  /\ last = [q \in Subscriber |-> [p \in Publisher |-> 0]]
  /\ lost = [q \in Subscriber |-> [p \in Publisher |-> 0]]
  /\ halted = FALSE

-----------------------------------------------------------------------------
(***************************************************************************)
(* app_bus_subscribe.  Only app_main calls it, one queue after the other,  *)
(* and each *_init function asserts that it runs once.                     *)
(***************************************************************************)
BeginSubscribe(q) ==
  /\ joining = NoQueue
  /\ ~Subscribed(q)

SubscribeStoreFirst(q) ==
  /\ BeginSubscribe(q)
  /\ count < MaxSubscribers
  /\ slots' = [slots EXCEPT ![count + 1] = q]
  /\ joining' = q
  /\ todo' = "count"
  /\ UNCHANGED <<count, queue, issued, index, last, lost, halted>>

\* Mutant: the assertion on s_sub_count is off by one.
SubscribeCountPastEnd(q) ==
  /\ BeginSubscribe(q)
  /\ count <= MaxSubscribers
  /\ count' = count + 1
  /\ joining' = q
  /\ todo' = "store"
  /\ UNCHANGED <<slots, queue, issued, index, last, lost, halted>>

SubscribeCountFirst(q) ==
  /\ BeginSubscribe(q)
  /\ count < MaxSubscribers
  /\ count' = count + 1
  /\ joining' = q
  /\ todo' = "store"
  /\ UNCHANGED <<slots, queue, issued, index, last, lost, halted>>

FinishSubscribe ==
  /\ joining # NoQueue
  /\ IF todo = "count"
       THEN count' = count + 1 /\ UNCHANGED slots
       ELSE slots' = [slots EXCEPT ![count] = joining] /\ UNCHANGED count
  /\ joining' = NoQueue
  /\ todo' = "none"
  /\ UNCHANGED <<queue, issued, index, last, lost, halted>>

\* assert(s_sub_count < app_bus_MAX_SUBSCRIBERS) fails.
SubscribeTooMany(q) ==
  /\ BeginSubscribe(q)
  /\ count >= MaxSubscribers
  /\ halted' = TRUE
  /\ UNCHANGED <<subscriptionVars, queue, issued, index, last, lost>>

-----------------------------------------------------------------------------
(***************************************************************************)
(* app_bus_publish.  The loop reads s_sub_count again at every iteration,  *)
(* so a queue that subscribes meanwhile is served too.                     *)
(***************************************************************************)
\* Mutant: the loop starts at the second slot.
PublishFromSecond(p) ==
  /\ Idle(p)
  /\ issued[p] < MaxMessages
  /\ issued' = [issued EXCEPT ![p] = @ + 1]
  /\ index' = [index EXCEPT ![p] = 2]
  /\ UNCHANGED <<subscriptionVars, queue, last, lost, halted>>

Publish(p) ==
  /\ Idle(p)
  /\ issued[p] < MaxMessages
  /\ issued' = [issued EXCEPT ![p] = @ + 1]
  /\ index' = [index EXCEPT ![p] = 1]
  /\ UNCHANGED <<subscriptionVars, queue, last, lost, halted>>

\* Mutant: xQueueSendToFront.
OfferToFront(q, p) ==
  IF Len(queue[q]) < Capacity[q]
    THEN /\ queue' = [queue EXCEPT ![q] = <<[from |-> p, seq |-> issued[p]]>> \o @]
         /\ UNCHANGED lost
    ELSE /\ lost' = [lost EXCEPT ![q][p] = issued[p]]
         /\ UNCHANGED queue

\* xQueueSend(q, msg, 0).
Offer(q, p) ==
  IF Len(queue[q]) < Capacity[q]
    THEN /\ queue' = [queue EXCEPT ![q] = Append(@, [from |-> p, seq |-> issued[p]])]
         /\ UNCHANGED lost
    ELSE /\ lost' = [lost EXCEPT ![q][p] = issued[p]]
         /\ UNCHANGED queue

\* Mutant: xQueueSend waits for room (portMAX_DELAY).
SendBlocking(p) ==
  /\ ~Idle(p)
  /\ index[p] <= count
  /\ slots[index[p]] # NoQueue
  /\ Len(queue[slots[index[p]]]) < Capacity[slots[index[p]]]
  /\ Offer(slots[index[p]], p)
  /\ index' = [index EXCEPT ![p] = @ + 1]
  /\ UNCHANGED <<subscriptionVars, issued, last, halted>>

Send(p) ==
  /\ ~Idle(p)
  /\ index[p] <= count
  /\ slots[index[p]] # NoQueue
  /\ Offer(slots[index[p]], p)
  /\ index' = [index EXCEPT ![p] = @ + 1]
  /\ UNCHANGED <<subscriptionVars, issued, last, halted>>

\* Mutant: the loop runs one slot too far.
SendPastEnd(p) ==
  /\ ~Idle(p)
  /\ index[p] <= count + 1
  /\ slots[index[p]] = NoQueue
  /\ halted' = TRUE
  /\ UNCHANGED <<subscriptionVars, queue, issued, index, last, lost>>

\* xQueueSend asserts that the handle is not NULL.
SendToNull(p) ==
  /\ ~Idle(p)
  /\ index[p] <= count
  /\ slots[index[p]] = NoQueue
  /\ halted' = TRUE
  /\ UNCHANGED <<subscriptionVars, queue, issued, index, last, lost>>

Return(p) ==
  /\ ~Idle(p)
  /\ index[p] > count
  /\ index' = [index EXCEPT ![p] = 0]
  /\ UNCHANGED <<subscriptionVars, queue, issued, last, lost, halted>>

\* The subscriber's task takes the oldest message (xQueueReceive).
Receive(q) ==
  /\ queue[q] # <<>>
  /\ last' = [last EXCEPT ![q][Head(queue[q]).from] = Head(queue[q]).seq]
  /\ queue' = [queue EXCEPT ![q] = Tail(@)]
  /\ UNCHANGED <<subscriptionVars, issued, index, lost, halted>>

Subscribe(q) ==
  SubscribeStoreFirst(q) \/ SubscribeCountFirst(q) \/ SubscribeTooMany(q)

PublishStep(p) == Send(p) \/ SendToNull(p) \/ Return(p)

Next ==
  /\ ~halted
  /\ \/ \E q \in Subscriber : Subscribe(q) \/ Receive(q)
     \/ FinishSubscribe
     \/ \E p \in Publisher : Publish(p) \/ PublishStep(p)

Spec == Init /\ [][Next]_vars

(***************************************************************************)
(* The scheduler runs every ready task: a publisher in the loop advances,  *)
(* whatever its subscribers do.  No fairness is assumed of the subscribers *)
(* (a stopped service keeps its queue in the array and never empties it).  *)
(***************************************************************************)
FairSpec == Spec /\ \A p \in Publisher : WF_vars(~halted /\ PublishStep(p))

-----------------------------------------------------------------------------
TypeOK ==
  /\ slots \in [Slot -> Subscriber \cup {NoQueue}]
  /\ count \in 0 .. MaxSubscribers
  /\ joining \in Subscriber \cup {NoQueue}
  /\ todo \in {"none", "store", "count"}
  /\ queue \in [Subscriber -> Seq(Message)]
  /\ issued \in [Publisher -> Nat]
  /\ index \in [Publisher -> 0 .. MaxSubscribers + 1]
  /\ last \in [Subscriber -> [Publisher -> Nat]]
  /\ lost \in [Subscriber -> [Publisher -> Nat]]
  /\ halted \in BOOLEAN

\* The array is filled without holes and without repetition, except for the
\* one slot that a half-done app_bus_subscribe is about to fill or to count.
SlotsInv ==
  /\ \A j, k \in Slot : slots[j] = slots[k] /\ slots[j] # NoQueue => j = k
  /\ todo = "none" <=> joining = NoQueue
  /\ todo = "count" => count < MaxSubscribers /\ slots[count + 1] = joining
  /\ todo = "store" => count > 0 /\ slots[count] = NoQueue /\ ~Subscribed(joining)
  /\ \A k \in Slot : slots[k] = NoQueue => k > count \/ (todo = "store" /\ k = count)
  /\ \A k \in Slot : k > count => slots[k] = NoQueue \/ (todo = "count" /\ k = count + 1)

\* Each queue holds, for each publisher, distinct messages in the order they
\* were published, all newer than what its subscriber already received.
QueueOrdered ==
  \A q \in Subscriber :
    /\ \A k \in 1 .. Len(queue[q]) :
         LET m == queue[q][k]
         IN  m.seq \in last[q][m.from] + 1 .. issued[m.from]
    /\ \A j, k \in 1 .. Len(queue[q]) :
         j < k /\ queue[q][j].from = queue[q][k].from
           => queue[q][j].seq < queue[q][k].seq

\* q has the message p is publishing now, in its queue or already received.
HasCurrent(q, p) ==
  \/ last[q][p] = issued[p]
  \/ \E k \in 1 .. Len(queue[q]) : queue[q][k] = [from |-> p, seq |-> issued[p]]

\* A running app_bus_publish has served exactly the slots below its index: a
\* queue that holds the current message sits in one of them.
ServedInv ==
  \A p \in Publisher, q \in Subscriber :
    /\ last[q][p] <= issued[p]
    /\ ~Idle(p) /\ HasCurrent(q, p) => \E k \in Slot : k < index[p] /\ slots[k] = q

\* Every slot a running app_bus_publish has passed holds a queue that took the
\* message or lost it because the queue was full: joining, leaving and other
\* publishers never make the loop skip a subscriber.
Accounted ==
  \A p \in Publisher : ~Idle(p) =>
    \A k \in Slot : k < index[p] =>
      /\ slots[k] \in Subscriber
      /\ HasCurrent(slots[k], p) \/ lost[slots[k]][p] = issued[p]

\* The inductive invariant behind the properties above.
BusInv == TypeOK /\ SlotsInv /\ QueueOrdered /\ ServedInv /\ Accounted

\* The firmware panics on the bus only in the window of a subscription that
\* counted its slot before filling it, or on one subscription too many.
PanicOnlyInSubscribe == halted => todo = "store" \/ count = MaxSubscribers

\* app_bus_publish returns although no subscriber empties its queue.
PublishReturns == \A p \in Publisher : ~Idle(p) ~> (Idle(p) \/ halted)

(***************************************************************************)
(* What the bus promises, module BusService: per publisher and subscriber, *)
(* a lossy channel without duplication or reordering.                      *)
(***************************************************************************)
Service == INSTANCE BusService WITH issued <- issued, last <- last

\* The bus implements the lossy ordered channels of BusService.
ImplementsService == Service!Spec
=============================================================================
