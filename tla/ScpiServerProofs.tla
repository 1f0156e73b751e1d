-------------------------- MODULE ScpiServerProofs --------------------------
(***************************************************************************)
(* Proofs about ScpiServer, for any number of connections, slots, sockets  *)
(* and channels: its types, that slots and sockets agree, that continuous  *)
(* subscriptions end with their connection, that an answer goes astray     *)
(* only when its asker has gone, and that the error latch loses no error.  *)
(***************************************************************************)
EXTENDS ScpiServer, TLAPS, SequenceTheorems, WellFoundedInduction

\* The parts of TypeOK: connections, what the two tasks share, the state of each
\* task, the bus, and the histories.
NetTyped ==
  /\ link \in [Conn -> {"idle", "backlog", "open", "fin", "closed"}]
  /\ backlog \in Seq(Conn)
  /\ input \in [Conn -> Seq(Line)]
  /\ owner \in [Socket -> Conn \cup {NoConn}]

SharedTyped ==
  /\ clients \in [Slot -> Socket \cup {NoSocket}]
  /\ cont \in [Quantity -> [Channel -> Socket \cup {NoSocket}]]
  /\ error_pending \in BOOLEAN /\ running \in BOOLEAN

ServerTyped ==
  /\ spc \in {"select", "accept", "service", "err_clear", "err_send", "peek", "reject", "exited"}
  /\ slot \in Slot
  /\ ready \subseteq Socket \cup {Listener}

\* The reply task, with what it holds while it handles a message.
ReplyTyped ==
  /\ rpc \in {"wait", "test", "load", "push", "reply", "deleted"}
  /\ rq \in Quantity
  /\ rmsg \in QueryMessage \cup Measurement \cup {NoMessage}
  /\ rsock \in Socket \cup {NoSocket}

ReplyHolds ==
  /\ rpc \in {"test", "load", "push"} => rmsg \in Measurement
  /\ rpc = "reply" => rmsg \in QueryMessage /\ rsock = rmsg.reply

BusTyped ==
  /\ pending \in Seq(QueryMessage)
  /\ queue \in Seq(QueryMessage \cup Measurement) /\ Len(queue) <= QueueLength

HistoryTyped ==
  /\ received \in [Conn -> SUBSET Conn]
  /\ subscriber \in [Quantity -> [Channel -> Conn \cup {NoConn}]]
  /\ stray \in [Quantity -> [Channel -> Nat]]
  /\ unreported \in BOOLEAN
  /\ budget \in [lines : Nat, measurements : Nat]

Typed ==
  /\ NetTyped /\ SharedTyped /\ ServerTyped /\ ReplyTyped /\ ReplyHolds
  /\ BusTyped /\ HistoryTyped

\* TypeOK is part of Typed.
LEMMA TypeParts == Typed => TypeOK
  BY DEF Typed, TypeOK, NetTyped, SharedTyped, ServerTyped, ReplyTyped, BusTyped, HistoryTyped

-----------------------------------------------------------------------------
(***************************************************************************)
(* The invariant.  SlotsAndSockets needs that a socket is one connection's *)
(* and that the backlog holds each connection once; while a connection is  *)
(* to be rejected, it is the only one without a slot.                      *)
(***************************************************************************)
Unlisted(s) == owner[s] # NoConn /\ \A i \in Slot : clients[i] # s

SocketInv ==
  /\ \A s, t \in Socket : owner[s] = owner[t] /\ owner[s] # NoConn => s = t
  /\ \A s \in Socket : owner[s] # NoConn => link[owner[s]] \in {"open", "fin"}
  /\ \A k \in 1 .. Len(backlog) : link[backlog[k]] = "backlog"
  /\ \A j, k \in 1 .. Len(backlog) : backlog[j] = backlog[k] => j = k
  /\ \A s, t \in Socket : Unlisted(s) /\ Unlisted(t) => s = t

\* A query on its way names the socket of its asker, who may have gone.
QueryOK(m) == link[m.asker] = "closed" \/ owner[m.reply] = m.asker

QueriesOK ==
  /\ \A k \in 1 .. Len(pending) : QueryOK(pending[k])
  /\ \A k \in 1 .. Len(queue) : queue[k] \in QueryMessage => QueryOK(queue[k])
  /\ rpc = "reply" => QueryOK(rmsg)

\* The reply task is about to push a reading for this subscription.
Holding(q, ch) == rpc = "push" /\ rq = q /\ rmsg.channel = ch

\* Once a reading has gone astray, the task has read the subscription again.
StrayInv ==
  \A q \in Quantity, ch \in Channel :
    /\ stray[q][ch] <= 1
    /\ stray[q][ch] = 1 /\ Holding(q, ch) => rsock = cont[q][ch]

-----------------------------------------------------------------------------
\* The constants, with names for later use.
LEMMA Numbers ==
  /\ MaxClients \in Nat \ {0} /\ NumSockets \in Nat /\ QueueLength \in Nat \ {0}
  /\ MaxLines \in Nat /\ MaxMeasurements \in Nat /\ NoConn \notin Conn
  BY ScpiAssumption

LEMMA SocketsTyped ==
  /\ NoSocket \notin Socket /\ Listener \notin Socket
  /\ 1 \in Slot
  BY Numbers DEF NoSocket, Listener, Socket, Slot

\* The lowest member of a set of numbers is one of its members.
LEMMA LowestIn ==
  ASSUME NEW S, S \subseteq Nat, S # {}
  PROVE  Lowest(S) \in S
<1> DEFINE R == {p \in Nat \X Nat : p[1] < p[2]}
<1>1. IsWellFoundedOn(R, Nat)
  BY NatLessThanWellFounded DEF OpToRel
<1>2. \A x, y \in Nat : <<y, x>> \in R <=> y < x
  OBVIOUS
<1> HIDE DEF R
<1>3. PICK x \in S : \A y \in S : ~(<<y, x>> \in R)
  BY <1>1, WFMin
<1>4. ASSUME NEW y \in S PROVE x <= y
  <2>1. x \in Nat /\ y \in Nat /\ ~(<<y, x>> \in R)
    BY <1>3
  <2>2. ~(y < x)
    BY <1>2, <2>1
  <2> QED  BY <2>1, <2>2
<1> QED  BY <1>4 DEF Lowest

-----------------------------------------------------------------------------
(***************************************************************************)
(* Types.                                                                  *)
(***************************************************************************)
\* What an action leaves alone keeps its type.
LEMMA NetFrame == NetTyped /\ UNCHANGED <<netVars, input>> => NetTyped'
  BY DEF NetTyped, netVars

LEMMA SharedFrame ==
  SharedTyped /\ UNCHANGED <<clients, cont, error_pending, running>> => SharedTyped'
  BY DEF SharedTyped

LEMMA ServerFrame == ServerTyped /\ UNCHANGED serverVars => ServerTyped'
  BY DEF ServerTyped, serverVars

LEMMA ReplyFrame ==
  ReplyTyped /\ ReplyHolds /\ UNCHANGED replyVars => ReplyTyped' /\ ReplyHolds'
  BY DEF ReplyTyped, ReplyHolds, replyVars

LEMMA BusFrame == BusTyped /\ UNCHANGED <<pending, queue>> => BusTyped'
  BY DEF BusTyped

LEMMA HistoryFrame == HistoryTyped /\ UNCHANGED <<historyVars, budget>> => HistoryTyped'
  BY DEF HistoryTyped, historyVars

\* A client that is served has a socket, and the socket has a connection.
LEMMA ServedClient ==
  ASSUME Typed, SlotsAndSockets, spc = "service", Sock # NoSocket
  PROVE  /\ slot \in Slot /\ Sock \in Socket /\ Client \in Conn
         /\ link[Client] \in {"open", "fin"}
<1>1. slot \in Slot /\ clients[slot] \in Socket \cup {NoSocket}
  BY DEF Typed, ServerTyped, SharedTyped
<1>2. Sock \in Socket /\ owner[Sock] # NoConn /\ link[owner[Sock]] \in {"open", "fin"}
  BY <1>1 DEF Sock, SlotsAndSockets
<1>3. owner[Sock] \in Conn
  BY <1>2 DEF Typed, NetTyped
<1> QED  BY <1>1, <1>2, <1>3 DEF Client

LEMMA CloseTyped ==
  ASSUME NetTyped, NEW s \in Socket, Close(s), backlog' = backlog
  PROVE  NetTyped'
<1>1. <<>> \in Seq(Line)
  OBVIOUS
<1>2. owner' \in [Socket -> Conn \cup {NoConn}]
  BY DEF NetTyped, Close
<1>3. link' \in [Conn -> {"idle", "backlog", "open", "fin", "closed"}]
  BY DEF NetTyped, Close
<1>4. input' \in [Conn -> Seq(Line)]
  BY <1>1 DEF NetTyped, Close
<1> QED  BY <1>2, <1>3, <1>4 DEF NetTyped

LEMMA NextSlotTyped ==
  ASSUME ServerTyped, NextSlot, ready' = ready
  PROVE  ServerTyped'
<1>1. slot' \in Slot
  <2>1. slot \in Nat /\ slot >= 1 /\ slot <= MaxClients
    BY Numbers DEF ServerTyped, Slot
  <2>2. CASE slot < MaxClients
    BY <2>1, <2>2, Numbers DEF NextSlot, Slot
  <2>3. CASE ~(slot < MaxClients)
    BY <2>3, SocketsTyped DEF NextSlot
  <2> QED  BY <2>2, <2>3
<1>2. spc' \in {"service", "select", "exited"}
  BY DEF NextSlot
<1> QED  BY <1>1, <1>2 DEF ServerTyped

\* A client whose line is read.
LEMMA ReadsTyped ==
  ASSUME Typed, SlotsAndSockets, NEW cmds, Reads(cmds)
  PROVE  /\ input' \in [Conn -> Seq(Line)]
         /\ slot \in Slot /\ Sock \in Socket /\ Client \in Conn
         /\ Head(input[Client]) \in Line
<1>1. slot \in Slot /\ Sock \in Socket /\ Client \in Conn
  BY ServedClient DEF Reads, Served
<1>2. input[Client] \in Seq(Line) /\ input[Client] # <<>>
  BY <1>1 DEF Typed, NetTyped, Reads
<1>3. Head(input[Client]) \in Line /\ Tail(input[Client]) \in Seq(Line)
  BY <1>2, HeadTailProperties
<1>4. input' \in [Conn -> Seq(Line)]
  BY <1>1, <1>3 DEF Typed, NetTyped, Reads
<1> QED  BY <1>1, <1>3, <1>4

LEMMA InitTyped == Init => Typed
<1> SUFFICES ASSUME Init PROVE Typed
  OBVIOUS
<1>1. NetTyped
  <2>1. <<>> \in Seq(Line) /\ <<>> \in Seq(Conn)
    OBVIOUS
  <2> QED  BY <2>1 DEF Init, NetTyped
<1>2. SharedTyped
  BY DEF Init, SharedTyped
<1>3. ServerTyped
  BY SocketsTyped DEF Init, ServerTyped
<1>4. ReplyTyped /\ ReplyHolds
  BY DEF Init, ReplyTyped, ReplyHolds, Quantity
<1>5. BusTyped
  <2>1. <<>> \in Seq(QueryMessage) /\ <<>> \in Seq(QueryMessage \cup Measurement)
        /\ Len(<<>>) <= QueueLength
    BY Numbers
  <2> QED  BY <2>1 DEF Init, BusTyped
<1>6. HistoryTyped
  BY Numbers DEF Init, HistoryTyped
<1> QED  BY <1>1, <1>2, <1>3, <1>4, <1>5, <1>6 DEF Typed

\* Clients, and scpi_server_stop.
LEMMA ClientsTyped ==
  ASSUME Typed, (\E c \in Conn : Connect(c) \/ SendLine(c) \/ PeerClose(c)) \/ Stop
  PROVE  Typed'
<1>1. NetTyped /\ SharedTyped /\ ServerTyped /\ ReplyTyped /\ ReplyHolds /\ BusTyped /\ HistoryTyped
  BY DEF Typed
<1>2. ASSUME NEW c \in Conn, Connect(c) PROVE Typed'
  <2>1. Append(backlog, c) \in Seq(Conn)
    BY <1>1 DEF NetTyped
  <2>2. NetTyped'
    BY <1>1, <1>2, <2>1 DEF Connect, NetTyped
  <2> QED  BY <1>1, <1>2, <2>2, SharedFrame, ServerFrame, ReplyFrame, BusFrame, HistoryFrame
           DEF Connect, Typed
<1>3. ASSUME NEW c \in Conn, SendLine(c) PROVE Typed'
  <2>1. PICK l \in Line : input' = [input EXCEPT ![c] = Append(@, l)]
    BY <1>3 DEF SendLine
  <2>2. Append(input[c], l) \in Seq(Line)
    BY <1>1 DEF NetTyped
  <2>3. NetTyped'
    BY <1>1, <1>3, <2>1, <2>2 DEF SendLine, NetTyped, netVars
  <2>4. HistoryTyped'
    BY <1>1, <1>3 DEF SendLine, HistoryTyped, historyVars
  <2> QED  BY <1>1, <1>3, <2>3, <2>4, SharedFrame, ServerFrame, ReplyFrame, BusFrame
           DEF SendLine, Typed
<1>4. ASSUME NEW c \in Conn, PeerClose(c) PROVE Typed'
  <2>1. NetTyped'
    BY <1>1, <1>4 DEF PeerClose, NetTyped
  <2> QED  BY <1>1, <1>4, <2>1, SharedFrame, ServerFrame, ReplyFrame, BusFrame, HistoryFrame
           DEF PeerClose, Typed
<1>5. CASE Stop
  <2>1. <<>> \in Seq(Conn) /\ <<>> \in Seq(Line)
    OBVIOUS
  <2>2. NetTyped'
    BY <1>1, <1>5, <2>1 DEF Stop, NetTyped
  <2>3. SharedTyped'
    BY <1>1, <1>5 DEF Stop, SharedTyped
  <2>4. ReplyTyped' /\ ReplyHolds'
    BY <1>1, <1>5 DEF Stop, ReplyTyped, ReplyHolds
  <2> QED  BY <1>1, <1>5, <2>2, <2>3, <2>4, ServerFrame, BusFrame, HistoryFrame
           DEF Stop, Typed
<1> QED  BY <1>2, <1>3, <1>4, <1>5

\* A message that is offered to queue_scpi.
LEMMA OfferTyped ==
  ASSUME BusTyped, NEW m \in QueryMessage \cup Measurement, queue' \in {queue, Offer(m)}
  PROVE  queue' \in Seq(QueryMessage \cup Measurement) /\ Len(queue') <= QueueLength
<1>1. queue \in Seq(QueryMessage \cup Measurement) /\ Len(queue) <= QueueLength
  BY DEF BusTyped
<1>2. /\ Append(queue, m) \in Seq(QueryMessage \cup Measurement)
      /\ Len(Append(queue, m)) = Len(queue) + 1 /\ Len(queue) \in Nat
  BY <1>1, AppendProperties, LenProperties
<1> QED  BY <1>1, <1>2, Numbers DEF Offer

LEMMA ControllerTyped ==
  ASSUME Typed, ControllerAnswer \/ ControllerMeasure
  PROVE  Typed'
<1>1. NetTyped /\ SharedTyped /\ ServerTyped /\ ReplyTyped /\ ReplyHolds /\ BusTyped /\ HistoryTyped
  BY DEF Typed
<1>2. CASE ControllerAnswer
  <2>1. Head(pending) \in QueryMessage /\ Tail(pending) \in Seq(QueryMessage)
    BY <1>1, <1>2, HeadTailProperties DEF ControllerAnswer, BusTyped
  <2>2. BusTyped'
    BY <1>1, <1>2, <2>1, OfferTyped DEF ControllerAnswer, BusTyped
  <2> QED  BY <1>1, <1>2, <2>2, NetFrame, SharedFrame, ServerFrame, ReplyFrame, HistoryFrame
           DEF ControllerAnswer, Typed
<1>3. CASE ControllerMeasure
  <2>1. PICK m \in Measurement : queue' \in {queue, Offer(m)}
    BY <1>3 DEF ControllerMeasure, Measurement
  <2>2. BusTyped'
    BY <1>1, <1>3, <2>1, OfferTyped DEF ControllerMeasure, BusTyped
  <2>3. HistoryTyped'
    BY <1>1, <1>3 DEF ControllerMeasure, HistoryTyped, historyVars
  <2> QED  BY <1>1, <1>3, <2>2, <2>3, NetFrame, SharedFrame, ServerFrame, ReplyFrame
           DEF ControllerMeasure, Typed
<1> QED  BY <1>2, <1>3

\* The queries and the measurements differ in their command.
LEMMA Kinds ==
  /\ \A m \in QueryMessage : m.cmd = "REPLY" /\ m.reply \in Socket /\ m.asker \in Conn
  /\ \A m \in Measurement : m.cmd = "MEASUREMENTS" /\ m.channel \in Channel
                              /\ m.error \in BOOLEAN /\ m.stale \in BOOLEAN
  BY DEF QueryMessage, Measurement

\* The reply task takes the oldest message.
LEMMA TakeTyped ==
  ASSUME BusTyped, ReplyReceive
  PROVE  /\ Head(queue) \in QueryMessage \cup Measurement
         /\ BusTyped'
         /\ Head(queue).cmd = "MEASUREMENTS" <=> Head(queue) \in Measurement
<1>1. /\ queue \in Seq(QueryMessage \cup Measurement) /\ queue # <<>>
      /\ Len(queue) <= QueueLength /\ queue' = Tail(queue) /\ pending' = pending
  BY DEF BusTyped, ReplyReceive
<1>2. /\ Head(queue) \in QueryMessage \cup Measurement
      /\ Tail(queue) \in Seq(QueryMessage \cup Measurement)
      /\ Len(Tail(queue)) = Len(queue) - 1 /\ Len(queue) \in Nat
  BY <1>1, HeadTailProperties, LenProperties
<1>3. BusTyped'
  BY <1>1, <1>2, Numbers DEF BusTyped
<1> QED  BY <1>2, <1>3, Kinds

LEMMA NextQuantityTyped ==
  ASSUME ReplyTyped, ReplyHolds, rpc \in {"test", "load", "push"}, NextQuantity,
         rsock' \in Socket \cup {NoSocket}
  PROVE  ReplyTyped' /\ ReplyHolds'
<1>1. rmsg \in Measurement
  BY DEF ReplyHolds
<1>2. CASE rq = "volt"
  BY <1>1, <1>2 DEF ReplyTyped, ReplyHolds, NextQuantity, Quantity
<1>3. CASE rq # "volt"
  BY <1>3 DEF ReplyTyped, ReplyHolds, NextQuantity, Quantity
<1> QED  BY <1>2, <1>3

LEMMA ReplyTaskTyped == ASSUME Typed, Reply PROVE Typed'
<1>1. NetTyped /\ SharedTyped /\ ServerTyped /\ ReplyTyped /\ ReplyHolds /\ BusTyped /\ HistoryTyped
  BY DEF Typed
<1>2. NetTyped' /\ ServerTyped'
  BY <1>1, NetFrame, ServerFrame
     DEF Reply, ReplyReceive, ReplyTest, ReplyLoad, ReplyPush, ReplySend
<1>3. CASE ReplyReceive
  <2>1. Head(queue) \in QueryMessage \cup Measurement /\ BusTyped'
        /\ (Head(queue).cmd = "MEASUREMENTS" <=> Head(queue) \in Measurement)
    BY <1>1, <1>3, TakeTyped
  <2>2. CASE Head(queue) \in Measurement
    <3>1. FlagError(Head(queue)) /\ Head(queue).error \in BOOLEAN
      BY <1>3, <2>1, <2>2, Kinds DEF ReplyReceive
    <3>2. error_pending' \in BOOLEAN /\ unreported' \in BOOLEAN
      BY <3>1 DEF FlagError
    <3>3. SharedTyped' /\ HistoryTyped'
      BY <1>1, <1>3, <3>2 DEF ReplyReceive, SharedTyped, HistoryTyped
    <3>4. ReplyTyped' /\ ReplyHolds'
      <4>1. CASE Head(queue).stale
        BY <1>1, <1>3, <2>1, <2>2, <4>1, ReplyFrame DEF ReplyReceive
      <4>2. CASE ~Head(queue).stale
        BY <1>1, <1>3, <2>1, <2>2, <4>2 DEF ReplyReceive, ReplyTyped, ReplyHolds
      <4> QED  BY <4>1, <4>2
    <3> QED  BY <1>2, <2>1, <3>3, <3>4 DEF Typed
  <2>3. CASE Head(queue) \notin Measurement
    <3>1. Head(queue) \in QueryMessage /\ Head(queue).reply \in Socket
      BY <2>1, <2>3, Kinds
    <3>2. /\ rpc' = "reply" /\ rmsg' = Head(queue) /\ rsock' = Head(queue).reply
          /\ UNCHANGED <<rq, error_pending, unreported>>
      BY <1>3, <2>1, <2>3 DEF ReplyReceive
    <3>3. SharedTyped' /\ HistoryTyped'
      BY <1>1, <1>3, <3>2 DEF ReplyReceive, SharedTyped, HistoryTyped
    <3>4. ReplyTyped' /\ ReplyHolds'
      BY <1>1, <3>1, <3>2 DEF ReplyTyped, ReplyHolds
    <3> QED  BY <1>2, <2>1, <3>3, <3>4 DEF Typed
  <2> QED  BY <2>2, <2>3
<1>4. ASSUME ~ReplyReceive PROVE SharedTyped' /\ BusTyped'
  BY <1>1, <1>4, SharedFrame, BusFrame DEF Reply, ReplyTest, ReplyLoad, ReplyPush, ReplySend
<1>5. CASE ReplyTest /\ ~ReplyReceive
  <2>1. HistoryTyped'
    BY <1>1, <1>5, HistoryFrame DEF ReplyTest
  <2>2. ReplyTyped' /\ ReplyHolds'
    <3>1. CASE cont[rq][rmsg.channel] # NoSocket
      BY <1>1, <1>5, <3>1 DEF ReplyTest, ReplyTyped, ReplyHolds
    <3>2. CASE cont[rq][rmsg.channel] = NoSocket
      BY <1>1, <1>5, <3>2, NextQuantityTyped DEF ReplyTest, ReplyTyped
    <3> QED  BY <3>1, <3>2
  <2> QED  BY <1>2, <1>4, <1>5, <2>1, <2>2 DEF Typed
<1>6. CASE ReplyLoad /\ ~ReplyReceive
  <2>1. rmsg \in Measurement
    BY <1>1, <1>6 DEF ReplyLoad, ReplyHolds
  <2>2. cont[rq][rmsg.channel] \in Socket \cup {NoSocket}
    BY <1>1, <2>1, Kinds DEF SharedTyped, ReplyTyped
  <2>3. ReplyTyped' /\ ReplyHolds'
    BY <1>1, <1>6, <2>1, <2>2 DEF ReplyLoad, ReplyTyped, ReplyHolds
  <2> QED  BY <1>1, <1>2, <1>4, <1>6, <2>3, HistoryFrame DEF ReplyLoad, Typed
<1>7. CASE ReplyPush /\ ~ReplyReceive
  <2>1. ReplyTyped' /\ ReplyHolds'
    BY <1>1, <1>7, NextQuantityTyped DEF ReplyPush
  <2>2. HistoryTyped'
    BY <1>1, <1>7 DEF ReplyPush, HistoryTyped
  <2> QED  BY <1>2, <1>4, <1>7, <2>1, <2>2 DEF Typed
<1>8. CASE ReplySend /\ ~ReplyReceive
  <2>1. ReplyTyped' /\ ReplyHolds'
    BY <1>1, <1>8 DEF ReplySend, ReplyTyped, ReplyHolds
  <2>2. rmsg.asker \in Conn
    BY <1>1, <1>8, Kinds DEF ReplySend, ReplyHolds
  <2>3. HistoryTyped'
    BY <1>1, <1>8, <2>2 DEF ReplySend, HistoryTyped
  <2> QED  BY <1>2, <1>4, <1>8, <2>1, <2>3 DEF Typed
<1> QED  BY <1>3, <1>5, <1>6, <1>7, <1>8 DEF Reply

\* The server task, when it looks for work: select, accept, reject, exit.
LEMMA AcceptTyped ==
  ASSUME Typed, SlotsAndSockets, Select \/ Accept \/ Reject \/ ServiceSkip \/ ServerExit
  PROVE  Typed'
<1>1. NetTyped /\ SharedTyped /\ ServerTyped /\ ReplyTyped /\ ReplyHolds /\ BusTyped /\ HistoryTyped
  BY DEF Typed
<1>2. ReplyTyped' /\ ReplyHolds' /\ BusTyped' /\ HistoryTyped'
  BY <1>1, ReplyFrame, BusFrame, HistoryFrame DEF Select, Accept, Reject, ServiceSkip, ServerExit
<1>3. CASE Select
  <2>1. Watched \subseteq Socket
    BY <1>1 DEF Watched, SharedTyped
  <2>2. ready' \subseteq Socket \cup {Listener}
    BY <1>3, <2>1 DEF Select
  <2>3. ServerTyped'
    BY <1>1, <1>3, <2>2 DEF Select, ServerTyped
  <2> QED  BY <1>1, <1>2, <1>3, <2>3, NetFrame, SharedFrame DEF Select, Typed
<1>4. CASE Accept
  <2>1. ServerTyped'
    BY <1>1, <1>4, SocketsTyped DEF Accept, AcceptInto, ServerTyped
  <2>2. CASE CanAccept
    <3>1. Head(backlog) \in Conn /\ Tail(backlog) \in Seq(Conn)
      BY <1>1, <2>2, HeadTailProperties DEF NetTyped, CanAccept
    <3>2. Lowest(Free) \in Socket
      BY <2>2, LowestIn DEF CanAccept, Free, Socket
    <3>3. NetTyped'
      BY <1>1, <1>4, <2>2, <3>1, <3>2 DEF Accept, AcceptInto, NetTyped
    <3>4. SharedTyped'
      BY <1>1, <1>4, <2>2, <3>2 DEF Accept, AcceptInto, SharedTyped
    <3> QED  BY <1>2, <2>1, <3>3, <3>4 DEF Typed
  <2>3. CASE ~CanAccept
    BY <1>1, <1>2, <1>4, <2>1, <2>3, NetFrame, SharedFrame DEF Accept, Typed
  <2> QED  BY <2>2, <2>3
<1>5. CASE Reject
  <2>1. PICK s \in Socket : Close(s)
    BY <1>5 DEF Reject
  <2>2. NetTyped'
    BY <1>1, <1>5, <2>1, CloseTyped DEF Reject
  <2>3. ServerTyped'
    BY <1>1, <1>5 DEF Reject, ServerTyped
  <2> QED  BY <1>1, <1>2, <1>5, <2>2, <2>3, SharedFrame DEF Reject, Typed
<1>6. CASE ServiceSkip
  BY <1>1, <1>2, <1>6, NetFrame, SharedFrame, NextSlotTyped DEF ServiceSkip, Typed
<1>7. CASE ServerExit
  <2>1. ServerTyped'
    BY <1>1, <1>7 DEF ServerExit, ServerTyped
  <2> QED  BY <1>1, <1>2, <1>7, <2>1, NetFrame, SharedFrame DEF ServerExit, Typed
<1> QED  BY <1>3, <1>4, <1>5, <1>6, <1>7

\* The server task, while it serves a client.
LEMMA ServiceTyped ==
  ASSUME Typed, SlotsAndSockets,
         \/ ServeQuery \/ ServeCont \/ ServeErrorTest \/ ServeErrorClear \/ ServeErrorSend
         \/ ServeOther \/ ServeIac \/ PeekReturns \/ DisconnectClear \/ DisconnectClose
  PROVE  Typed'
<1>1. NetTyped /\ SharedTyped /\ ServerTyped /\ ReplyTyped /\ ReplyHolds /\ BusTyped /\ HistoryTyped
  BY DEF Typed
<1>2. ReplyTyped' /\ ReplyHolds'
  BY <1>1, ReplyFrame DEF ServeQuery, ServeCont, ServeErrorTest, ServeErrorClear, ServeErrorSend,
     ServeOther, ServeIac, PeekReturns, DisconnectClear, DisconnectClose
<1>3. ASSUME NEW cmds, Reads(cmds), UNCHANGED netVars
      PROVE  NetTyped' /\ Sock \in Socket /\ Client \in Conn /\ Head(input[Client]) \in Line
  BY <1>1, <1>3, ReadsTyped DEF NetTyped, netVars
<1>4. CASE ServeQuery
  <2>1. NetTyped' /\ Request \in QueryMessage
    BY <1>3, <1>4 DEF ServeQuery, Request, QueryMessage
  <2>2. BusTyped'
    BY <1>1, <1>4, <2>1, AppendProperties DEF ServeQuery, BusTyped
  <2> QED  BY <1>1, <1>2, <1>4, <2>1, <2>2, SharedFrame, NextSlotTyped, HistoryFrame
           DEF ServeQuery, Typed
<1>5. CASE ServeCont
  <2>1. NetTyped' /\ Sock \in Socket /\ Client \in Conn /\ Head(input[Client]) \in Line
    BY <1>3, <1>5 DEF ServeCont
  <2> DEFINE l == Head(input[Client])
  <2>2. l.quantity \in Quantity /\ l.on \in BOOLEAN
    BY <2>1, ScpiAssumption DEF Quantity
  <2> HIDE DEF l
  <2>3. ServerTyped' /\ BusTyped'
    BY <1>1, <1>5, NextSlotTyped, BusFrame DEF ServeCont
  <2>4. CASE l.channel \in Channel
    <3>1. /\ cont' = [cont EXCEPT ![l.quantity][l.channel] = ContSocket(l)]
          /\ subscriber' = [subscriber EXCEPT ![l.quantity][l.channel] =
                              IF l.on THEN Client ELSE NoConn]
          /\ stray' = [stray EXCEPT ![l.quantity][l.channel] = 0]
          /\ UNCHANGED <<clients, error_pending, running, received, unreported, budget>>
      BY <1>5, <2>4 DEF ServeCont, l
    <3>2. ContSocket(l) \in Socket \cup {NoSocket}
      BY <2>1 DEF ContSocket
    <3>3. SharedTyped'
      BY <1>1, <2>2, <2>4, <3>1, <3>2 DEF SharedTyped
    <3>4. HistoryTyped'
      BY <1>1, <2>1, <2>2, <2>4, <3>1 DEF HistoryTyped
    <3> QED  BY <1>2, <2>1, <2>3, <3>3, <3>4 DEF Typed
  <2>5. CASE l.channel \notin Channel
    <3>1. UNCHANGED <<clients, cont, error_pending, running, historyVars, budget>>
      BY <1>5, <2>5 DEF ServeCont, l, historyVars
    <3> QED  BY <1>1, <1>2, <2>1, <2>3, <3>1, SharedFrame, HistoryFrame DEF Typed
  <2> QED  BY <2>4, <2>5
<1>6. CASE ServeErrorTest
  <2>1. ServerTyped'
    BY <1>1, <1>6, NextSlotTyped DEF ServeErrorTest, ServerTyped
  <2> QED  BY <1>1, <1>2, <1>3, <1>6, <2>1, SharedFrame, BusFrame, HistoryFrame
           DEF ServeErrorTest, Typed
<1>7. CASE ServeErrorClear
  <2>1. ServerTyped' /\ SharedTyped'
    BY <1>1, <1>7 DEF ServeErrorClear, ServerTyped, SharedTyped
  <2> QED  BY <1>1, <1>2, <1>7, <2>1, NetFrame, BusFrame, HistoryFrame DEF ServeErrorClear, Typed
<1>8. CASE ServeErrorSend
  <2>1. HistoryTyped'
    BY <1>1, <1>8 DEF ServeErrorSend, HistoryTyped
  <2> QED  BY <1>1, <1>2, <1>8, <2>1, NetFrame, SharedFrame, NextSlotTyped, BusFrame
           DEF ServeErrorSend, Typed
<1>9. CASE ServeOther
  BY <1>1, <1>2, <1>3, <1>9, SharedFrame, NextSlotTyped, BusFrame, HistoryFrame
     DEF ServeOther, Typed
<1>10. CASE ServeIac
  <2>1. ServerTyped'
    BY <1>1, <1>10 DEF ServeIac, ServerTyped
  <2> QED  BY <1>1, <1>2, <1>3, <1>10, <2>1, SharedFrame, BusFrame, HistoryFrame
           DEF ServeIac, Typed
<1>11. CASE PeekReturns
  BY <1>1, <1>2, <1>11, NetFrame, SharedFrame, NextSlotTyped, BusFrame, HistoryFrame
     DEF PeekReturns, Typed
<1>12. CASE DisconnectClear
  <2>1. PICK p \in Quantity \X Channel :
          /\ cont' = [cont EXCEPT ![p[1]][p[2]] = NoSocket]
          /\ subscriber' = [subscriber EXCEPT ![p[1]][p[2]] = NoConn]
          /\ stray' = [stray EXCEPT ![p[1]][p[2]] = 0]
    BY <1>12 DEF DisconnectClear, Subscribed
  <2>2. p[1] \in Quantity /\ p[2] \in Channel
    OBVIOUS
  <2>3. SharedTyped'
    BY <1>1, <1>12, <2>1, <2>2 DEF DisconnectClear, SharedTyped
  <2>4. HistoryTyped'
    BY <1>1, <1>12, <2>1, <2>2 DEF DisconnectClear, HistoryTyped
  <2> QED  BY <1>1, <1>2, <1>12, <2>3, <2>4, NetFrame, ServerFrame, BusFrame
           DEF DisconnectClear, Typed
<1>13. CASE DisconnectClose
  <2>1. slot \in Slot /\ Sock \in Socket
    BY <1>13, ServedClient DEF DisconnectClose, Disconnecting, Served
  <2>2. NetTyped'
    BY <1>1, <1>13, <2>1, CloseTyped DEF DisconnectClose
  <2>3. SharedTyped'
    BY <1>1, <1>13, <2>1 DEF DisconnectClose, SharedTyped
  <2> QED  BY <1>1, <1>2, <1>13, <2>2, <2>3, NextSlotTyped, BusFrame, HistoryFrame
           DEF DisconnectClose, Typed
<1> QED  BY <1>4, <1>5, <1>6, <1>7, <1>8, <1>9, <1>10, <1>11, <1>12, <1>13

LEMMA NextTyped == Typed /\ SlotsAndSockets /\ [Next]_vars => Typed'
<1> SUFFICES ASSUME Typed, SlotsAndSockets, [Next]_vars PROVE Typed'
  OBVIOUS
<1>1. CASE UNCHANGED vars
  BY <1>1, NetFrame, SharedFrame, ServerFrame, ReplyFrame, BusFrame, HistoryFrame DEF vars, Typed
<1> QED  BY <1>1, ClientsTyped, ControllerTyped, ReplyTaskTyped, AcceptTyped, ServiceTyped
         DEF Next, Server

-----------------------------------------------------------------------------
(***************************************************************************)
(* Slots, sockets and connections.                                         *)
(***************************************************************************)
LEMMA SlotsInit == Init => SlotsAndSockets /\ SocketInv
<1> SUFFICES ASSUME Init PROVE SlotsAndSockets /\ SocketInv
  OBVIOUS
<1>1. SlotsAndSockets
  BY DEF Init, SlotsAndSockets
<1>2. SocketInv
  BY DEF Init, SocketInv, Unlisted
<1> QED  BY <1>1, <1>2

\* Steps that change neither connections nor slots.
LEMMA SlotsFrame ==
  ASSUME SlotsAndSockets, SocketInv, UNCHANGED <<netVars, clients>>,
         spc = "reject" => spc' = "reject"
  PROVE  SlotsAndSockets' /\ SocketInv'
<1>1. UNCHANGED <<link, backlog, owner, clients>>
  BY DEF netVars
<1>2. SocketInv'
  BY <1>1 DEF SocketInv, Unlisted
<1>3. SlotsAndSockets'
  BY <1>1 DEF SlotsAndSockets
<1> QED  BY <1>2, <1>3

LEMMA SlotsConnect ==
  ASSUME Typed, SlotsAndSockets, SocketInv, NEW c \in Conn, Connect(c)
  PROVE  SlotsAndSockets' /\ SocketInv'
<1>1. /\ link \in [Conn -> {"idle", "backlog", "open", "fin", "closed"}]
      /\ backlog \in Seq(Conn) /\ owner \in [Socket -> Conn \cup {NoConn}]
      /\ clients \in [Slot -> Socket \cup {NoSocket}]
  BY DEF Typed, NetTyped, SharedTyped
<1>2. /\ link[c] = "idle" /\ link' = [link EXCEPT ![c] = "backlog"]
      /\ backlog' = Append(backlog, c) /\ UNCHANGED <<owner, clients, spc>>
  BY DEF Connect, serverVars
<1>3. \A e \in Conn : link'[e] = IF e = c THEN "backlog" ELSE link[e]
  BY <1>1, <1>2
<1>4. \A s \in Socket : owner[s] # NoConn => owner[s] \in Conn /\ owner[s] # c
  BY <1>1, <1>2 DEF SocketInv
<1>5. SlotsAndSockets'
  BY <1>1, <1>2, <1>3, <1>4 DEF SlotsAndSockets
<1>6. /\ Len(backlog') = Len(backlog) + 1 /\ Len(backlog) \in Nat
      /\ \A k \in 1 .. Len(backlog) : backlog'[k] = backlog[k] /\ backlog[k] \in Conn
      /\ backlog'[Len(backlog) + 1] = c
  BY <1>1, <1>2
<1>7. \A k \in 1 .. Len(backlog) : backlog[k] # c
  BY <1>2 DEF SocketInv
<1>8. /\ \A k \in 1 .. Len(backlog') : link'[backlog'[k]] = "backlog"
      /\ \A j, k \in 1 .. Len(backlog') : backlog'[j] = backlog'[k] => j = k
  BY <1>3, <1>6, <1>7 DEF SocketInv
<1>9. SocketInv'
  BY <1>2, <1>3, <1>4, <1>8 DEF SocketInv, Unlisted
<1> QED  BY <1>5, <1>9

LEMMA SlotsPeerClose ==
  ASSUME Typed, SlotsAndSockets, SocketInv, NEW c \in Conn, PeerClose(c)
  PROVE  SlotsAndSockets' /\ SocketInv'
<1>1. /\ link \in [Conn -> {"idle", "backlog", "open", "fin", "closed"}]
      /\ backlog \in Seq(Conn) /\ owner \in [Socket -> Conn \cup {NoConn}]
      /\ clients \in [Slot -> Socket \cup {NoSocket}]
  BY DEF Typed, NetTyped, SharedTyped
<1>2. /\ link[c] = "open" /\ link' = [link EXCEPT ![c] = "fin"]
      /\ UNCHANGED <<backlog, owner, clients, spc>>
  BY DEF PeerClose, serverVars
<1>3. \A e \in Conn : link'[e] = IF e = c THEN "fin" ELSE link[e]
  BY <1>1, <1>2
<1>4. SlotsAndSockets'
  BY <1>1, <1>2, <1>3 DEF SlotsAndSockets
<1>5. \A k \in 1 .. Len(backlog) : backlog[k] \in Conn /\ backlog[k] # c
  BY <1>1, <1>2 DEF SocketInv
<1>6. \A s \in Socket : owner[s] # NoConn => owner[s] \in Conn
  BY <1>1
<1>7. SocketInv'
  BY <1>2, <1>3, <1>5, <1>6 DEF SocketInv, Unlisted
<1> QED  BY <1>4, <1>7

LEMMA SlotsStop ==
  ASSUME Typed, SlotsAndSockets, SocketInv, Stop
  PROVE  SlotsAndSockets' /\ SocketInv'
<1>1. /\ link \in [Conn -> {"idle", "backlog", "open", "fin", "closed"}]
      /\ owner \in [Socket -> Conn \cup {NoConn}]
      /\ clients \in [Slot -> Socket \cup {NoSocket}]
  BY DEF Typed, NetTyped, SharedTyped
<1>2. /\ link' = [c \in Conn |-> IF link[c] = "backlog" THEN "closed" ELSE link[c]]
      /\ backlog' = <<>> /\ UNCHANGED <<owner, clients, spc>>
  BY DEF Stop, serverVars
<1>3. \A c \in Conn : link'[c] \in {"open", "fin"} <=> link[c] \in {"open", "fin"}
  BY <1>1, <1>2
<1>4. \A s \in Socket : owner[s] # NoConn => owner[s] \in Conn
  BY <1>1
<1>5. SlotsAndSockets'
  BY <1>1, <1>2, <1>3, <1>4 DEF SlotsAndSockets
<1>6. SocketInv'
  BY <1>2, <1>3, <1>4 DEF SocketInv, Unlisted
<1> QED  BY <1>5, <1>6

\* A connection is accepted: its socket was free, so no slot names it yet.
LEMMA SlotsAccept ==
  ASSUME Typed, SlotsAndSockets, SocketInv, Accept
  PROVE  SlotsAndSockets' /\ SocketInv'
<1>1. /\ link \in [Conn -> {"idle", "backlog", "open", "fin", "closed"}]
      /\ backlog \in Seq(Conn) /\ owner \in [Socket -> Conn \cup {NoConn}]
      /\ clients \in [Slot -> Socket \cup {NoSocket}]
  BY DEF Typed, NetTyped, SharedTyped
<1>2. spc = "accept"
  BY DEF Accept
<1>3. CASE ~CanAccept
  BY <1>2, <1>3, SlotsFrame DEF Accept
<1>4. CASE CanAccept
  <2> DEFINE c == Head(backlog)
             s == Lowest(Free)
  <2>1. /\ c \in Conn /\ c = backlog[1] /\ Len(backlog) \in Nat /\ Len(backlog) >= 1
        /\ Tail(backlog) \in Seq(Conn) /\ Len(Tail(backlog)) = Len(backlog) - 1
        /\ \A k \in 1 .. Len(Tail(backlog)) : Tail(backlog)[k] = backlog[k + 1]
    BY <1>1, <1>4 DEF CanAccept
  <2>2. s \in Socket /\ owner[s] = NoConn
    BY <1>4, LowestIn DEF CanAccept, Free, Socket
  <2>3. /\ owner' = [owner EXCEPT ![s] = c]
        /\ link' = [link EXCEPT ![c] = "open"]
        /\ backlog' = Tail(backlog)
        /\ IF \E i \in Slot : clients[i] = NoSocket
             THEN /\ clients' = [clients EXCEPT
                                   ![Lowest({i \in Slot : clients[i] = NoSocket})] = s]
                  /\ spc' = "service"
             ELSE spc' = "reject" /\ UNCHANGED clients
    BY <1>4 DEF Accept, AcceptInto
  <2> HIDE DEF c, s
  <2>4. link[c] = "backlog"
    BY <2>1 DEF SocketInv
  <2>5. \A t \in Socket : owner[t] # NoConn => owner[t] \in Conn /\ owner[t] # c /\ t # s
    BY <1>1, <2>2, <2>4 DEF SocketInv
  <2>6. \A t \in Socket : owner'[t] = IF t = s THEN c ELSE owner[t]
    BY <1>1, <2>2, <2>3
  <2>7. \A e \in Conn : link'[e] = IF e = c THEN "open" ELSE link[e]
    BY <1>1, <2>1, <2>3
  <2>8. \A i \in Slot : clients[i] # s
    BY <1>1, <2>2, SocketsTyped DEF SlotsAndSockets
  <2>9. c # NoConn
    BY <2>1, Numbers
  <2>10. \A k \in 1 .. Len(backlog') : /\ backlog'[k] = backlog[k + 1]
                                       /\ k + 1 \in 1 .. Len(backlog)
                                       /\ backlog[k + 1] # c /\ backlog[k + 1] \in Conn
    <3>1. \A k \in 1 .. Len(backlog') : k + 1 \in 1 .. Len(backlog) /\ k + 1 # 1
      BY <2>1, <2>3
    <3> QED  BY <1>1, <2>1, <2>3, <3>1 DEF SocketInv
  <2>11. /\ \A k \in 1 .. Len(backlog') : link'[backlog'[k]] = "backlog"
         /\ \A j, k \in 1 .. Len(backlog') : backlog'[j] = backlog'[k] => j = k
    <3>1. \A k \in 1 .. Len(backlog') : link'[backlog'[k]] = "backlog"
      BY <2>7, <2>10 DEF SocketInv
    <3>2. \A j, k \in 1 .. Len(backlog') : backlog'[j] = backlog'[k] => j + 1 = k + 1
      BY <2>10 DEF SocketInv
    <3> QED  BY <3>1, <3>2
  <2>12. /\ \A t, u \in Socket : owner'[t] = owner'[u] /\ owner'[t] # NoConn => t = u
         /\ \A t \in Socket : owner'[t] # NoConn => link'[owner'[t]] \in {"open", "fin"}
    BY <2>1, <2>5, <2>6, <2>7 DEF SocketInv
  <2>13. \A e \in Conn : link'[e] \in {"open", "fin"} => \E t \in Socket : owner'[t] = e
    <3>1. SUFFICES ASSUME NEW e \in Conn, link'[e] \in {"open", "fin"}
                   PROVE  \E t \in Socket : owner'[t] = e
      OBVIOUS
    <3>2. CASE e = c
      BY <2>2, <2>6, <3>2
    <3>3. CASE e # c
      <4>1. PICK t \in Socket : owner[t] = e
        BY <2>7, <3>1, <3>3 DEF SlotsAndSockets
      <4>2. t # s
        BY <2>2, <4>1, Numbers
      <4> QED  BY <2>6, <4>1, <4>2
    <3> QED  BY <3>2, <3>3
  <2>14. \A t \in Socket : owner[t] # NoConn => \E i \in Slot : clients[i] = t
    BY <1>2 DEF SlotsAndSockets
  <2>15. CASE \E i \in Slot : clients[i] = NoSocket
    <3> DEFINE n == Lowest({i \in Slot : clients[i] = NoSocket})
    <3>1. n \in Slot /\ clients[n] = NoSocket
      <4>1. {i \in Slot : clients[i] = NoSocket} \subseteq Nat
        BY DEF Slot
      <4> QED  BY <2>15, <4>1, LowestIn
    <3>2. clients' = [clients EXCEPT ![n] = s] /\ spc' = "service"
      BY <2>3, <2>15
    <3> HIDE DEF n
    <3>3. \A i \in Slot : clients'[i] = IF i = n THEN s ELSE clients[i]
      BY <1>1, <3>1, <3>2
    <3>4. \A t \in Socket : owner'[t] # NoConn => \E i \in Slot : clients'[i] = t
      <4>1. SUFFICES ASSUME NEW t \in Socket, owner'[t] # NoConn
                     PROVE  \E i \in Slot : clients'[i] = t
        OBVIOUS
      <4>2. CASE t = s
        BY <3>1, <3>3, <4>2
      <4>3. CASE t # s
        <5>1. PICK i \in Slot : clients[i] = t
          BY <2>6, <2>14, <4>1, <4>3
        <5>2. i # n
          BY <3>1, <5>1, SocketsTyped
        <5> QED  BY <3>3, <5>1, <5>2
      <4> QED  BY <4>2, <4>3
    <3>5. \A t \in Socket : ~Unlisted(t)'
      BY <3>4 DEF Unlisted
    <3>6. \A i, j \in Slot : clients'[i] = clients'[j] /\ clients'[i] # NoSocket => i = j
      BY <2>8, <3>3 DEF SlotsAndSockets
    <3>7. \A i \in Slot : clients'[i] # NoSocket =>
            owner'[clients'[i]] # NoConn /\ link'[owner'[clients'[i]]] \in {"open", "fin"}
      <4>1. SUFFICES ASSUME NEW i \in Slot, clients'[i] # NoSocket
                     PROVE  clients'[i] \in Socket /\ owner'[clients'[i]] # NoConn
        BY <2>12
      <4>2. CASE i = n
        BY <2>2, <2>6, <2>9, <3>3, <4>2
      <4>3. CASE i # n
        BY <1>1, <2>6, <2>8, <3>3, <4>1, <4>3 DEF SlotsAndSockets
      <4> QED  BY <4>2, <4>3
    <3>8. SlotsAndSockets'
      BY <2>13, <3>4, <3>6, <3>7 DEF SlotsAndSockets
    <3>9. SocketInv'
      BY <2>11, <2>12, <3>5 DEF SocketInv
    <3> QED  BY <3>8, <3>9
  <2>16. CASE ~\E i \in Slot : clients[i] = NoSocket
    <3>1. spc' = "reject" /\ clients' = clients
      BY <2>3, <2>16
    <3>2. \A t \in Socket : Unlisted(t)' => t = s
      BY <2>6, <2>14, <3>1 DEF Unlisted
    <3>3. \A i \in Slot : clients'[i] # NoSocket =>
            owner'[clients'[i]] # NoConn /\ link'[owner'[clients'[i]]] \in {"open", "fin"}
      BY <1>1, <2>6, <2>8, <2>12, <3>1 DEF SlotsAndSockets
    <3>4. SlotsAndSockets'
      BY <2>13, <3>1, <3>3 DEF SlotsAndSockets
    <3>5. SocketInv'
      BY <2>11, <2>12, <3>2 DEF SocketInv
    <3> QED  BY <3>4, <3>5
  <2> QED  BY <2>15, <2>16
<1> QED  BY <1>3, <1>4

\* What closing a socket does to the other connections.
LEMMA CloseEffect ==
  ASSUME Typed, SocketInv, NEW s \in Socket, owner[s] # NoConn, Close(s)
  PROVE  /\ owner[s] \in Conn
         /\ \A t \in Socket : owner'[t] = IF t = s THEN NoConn ELSE owner[t]
         /\ \A e \in Conn : link'[e] = IF e = owner[s] THEN "closed" ELSE link[e]
         /\ \A t \in Socket : t # s /\ owner[t] # NoConn =>
              owner[t] # owner[s] /\ owner[t] \in Conn
<1>1. /\ link \in [Conn -> {"idle", "backlog", "open", "fin", "closed"}]
      /\ owner \in [Socket -> Conn \cup {NoConn}]
  BY DEF Typed, NetTyped
<1>2. /\ owner' = [owner EXCEPT ![s] = NoConn]
      /\ link' = [link EXCEPT ![owner[s]] = "closed"]
  BY DEF Close
<1>3. owner[s] \in Conn
  BY <1>1
<1>4. \A t \in Socket : owner'[t] = IF t = s THEN NoConn ELSE owner[t]
  BY <1>1, <1>2
<1>5. \A e \in Conn : link'[e] = IF e = owner[s] THEN "closed" ELSE link[e]
  BY <1>1, <1>2, <1>3
<1>6. \A t \in Socket : t # s /\ owner[t] # NoConn => owner[t] # owner[s] /\ owner[t] \in Conn
  BY <1>1 DEF SocketInv
<1> QED  BY <1>3, <1>4, <1>5, <1>6

\* A socket is closed that no slot names any longer.
LEMMA SlotsClose ==
  ASSUME Typed, SlotsAndSockets, SocketInv, NEW s \in Socket, owner[s] # NoConn, Close(s),
         backlog' = backlog,
         \A i \in Slot : clients'[i] # s,
         \A i \in Slot : clients'[i] \in {clients[i], NoSocket},
         \A t \in Socket : t # s /\ owner[t] # NoConn => \E i \in Slot : clients'[i] = t
  PROVE  SlotsAndSockets' /\ SocketInv'
<1>1. /\ owner[s] \in Conn
      /\ \A t \in Socket : owner'[t] = IF t = s THEN NoConn ELSE owner[t]
      /\ \A e \in Conn : link'[e] = IF e = owner[s] THEN "closed" ELSE link[e]
      /\ \A t \in Socket : t # s /\ owner[t] # NoConn =>
           owner[t] # owner[s] /\ owner[t] \in Conn
  BY CloseEffect
<1>2. backlog \in Seq(Conn) /\ clients \in [Slot -> Socket \cup {NoSocket}]
  BY DEF Typed, NetTyped, SharedTyped
<1>3. \A t \in Socket : owner'[t] # NoConn =>
        /\ t # s /\ owner[t] # NoConn /\ owner'[t] = owner[t]
        /\ link'[owner'[t]] = link[owner[t]]
  BY <1>1
<1>4. \A t \in Socket : owner'[t] # NoConn => \E i \in Slot : clients'[i] = t
  BY <1>3
<1>5. \A e \in Conn : link'[e] \in {"open", "fin"} => \E t \in Socket : owner'[t] = e
  <2>1. SUFFICES ASSUME NEW e \in Conn, link'[e] \in {"open", "fin"}
                 PROVE  \E t \in Socket : owner'[t] = e
    OBVIOUS
  <2>2. e # owner[s] /\ link[e] \in {"open", "fin"}
    BY <1>1, <2>1
  <2>3. PICK t \in Socket : owner[t] = e
    BY <2>2 DEF SlotsAndSockets
  <2> QED  BY <1>1, <2>2, <2>3
<1>6. \A i \in Slot : clients'[i] # NoSocket =>
        /\ clients'[i] = clients[i] /\ clients[i] \in Socket
        /\ owner'[clients'[i]] # NoConn /\ link'[owner'[clients'[i]]] \in {"open", "fin"}
  <2>1. SUFFICES ASSUME NEW i \in Slot, clients'[i] # NoSocket
                 PROVE  /\ clients'[i] = clients[i] /\ clients[i] \in Socket
                        /\ owner'[clients[i]] # NoConn
                        /\ link'[owner'[clients[i]]] \in {"open", "fin"}
    OBVIOUS
  <2>2. clients'[i] = clients[i] /\ clients[i] \in Socket /\ clients[i] # s
    BY <1>2, <2>1
  <2>3. owner[clients[i]] # NoConn /\ link[owner[clients[i]]] \in {"open", "fin"}
    BY <2>1, <2>2 DEF SlotsAndSockets
  <2> QED  BY <1>1, <2>2, <2>3
<1>7. \A i, j \in Slot : clients'[i] = clients'[j] /\ clients'[i] # NoSocket => i = j
  BY <1>6 DEF SlotsAndSockets
<1>8. SlotsAndSockets'
  BY <1>4, <1>5, <1>6, <1>7 DEF SlotsAndSockets
<1>9. \A k \in 1 .. Len(backlog) : backlog[k] \in Conn /\ backlog[k] # owner[s]
  BY <1>2 DEF SocketInv
<1>10. /\ \A k \in 1 .. Len(backlog') : link'[backlog'[k]] = "backlog"
       /\ \A j, k \in 1 .. Len(backlog') : backlog'[j] = backlog'[k] => j = k
  BY <1>1, <1>9 DEF SocketInv
<1>11. \A t \in Socket : ~Unlisted(t)'
  BY <1>4 DEF Unlisted
<1>12. /\ \A t, u \in Socket : owner'[t] = owner'[u] /\ owner'[t] # NoConn => t = u
       /\ \A t \in Socket : owner'[t] # NoConn => link'[owner'[t]] \in {"open", "fin"}
  BY <1>3 DEF SocketInv
<1>13. SocketInv'
  BY <1>10, <1>11, <1>12 DEF SocketInv
<1> QED  BY <1>8, <1>13

LEMMA SlotsReject ==
  ASSUME Typed, SlotsAndSockets, SocketInv, Reject
  PROVE  SlotsAndSockets' /\ SocketInv'
<1>1. PICK s \in Socket : s \notin Watched /\ owner[s] # NoConn /\ Close(s)
  BY DEF Reject
<1>2. UNCHANGED <<backlog, clients>>
  BY DEF Reject
<1>3. \A i \in Slot : clients[i] # s
  BY <1>1, SocketsTyped DEF Watched
<1>4. \A t \in Socket : t # s /\ owner[t] # NoConn => \E i \in Slot : clients[i] = t
  BY <1>1, <1>3 DEF SocketInv, Unlisted
<1> QED  BY <1>1, <1>2, <1>3, <1>4, SlotsClose

LEMMA SlotsDisconnect ==
  ASSUME Typed, SlotsAndSockets, SocketInv, DisconnectClose
  PROVE  SlotsAndSockets' /\ SocketInv'
<1>1. slot \in Slot /\ Sock \in Socket /\ Client \in Conn /\ spc = "service"
  BY ServedClient DEF DisconnectClose, Disconnecting, Served
<1>2. owner[Sock] # NoConn /\ Close(Sock)
  BY <1>1, Numbers DEF DisconnectClose, Client
<1>3. /\ clients' = [clients EXCEPT ![slot] = NoSocket] /\ backlog' = backlog
      /\ clients \in [Slot -> Socket \cup {NoSocket}]
  BY DEF DisconnectClose, Typed, SharedTyped
<1>4. \A i \in Slot : clients'[i] = IF i = slot THEN NoSocket ELSE clients[i]
  BY <1>1, <1>3
<1>5. \A i \in Slot : i # slot => clients[i] # Sock
  BY <1>1, SocketsTyped DEF SlotsAndSockets, Sock
<1>6. \A i \in Slot : clients'[i] # Sock
  BY <1>1, <1>4, <1>5, SocketsTyped
<1>7. \A t \in Socket : t # Sock /\ owner[t] # NoConn => \E i \in Slot : clients'[i] = t
  <2>1. SUFFICES ASSUME NEW t \in Socket, t # Sock, owner[t] # NoConn
                 PROVE  \E i \in Slot : clients'[i] = t
    OBVIOUS
  <2>2. PICK i \in Slot : clients[i] = t
    BY <1>1, <2>1 DEF SlotsAndSockets
  <2>3. i # slot
    BY <2>1, <2>2 DEF Sock
  <2> QED  BY <1>4, <2>2, <2>3
<1> DEFINE s == Sock
<1>8. s \in Socket /\ owner[s] # NoConn /\ Close(s) /\ \A i \in Slot : clients'[i] # s
  BY <1>1, <1>2, <1>6
<1>9. \A t \in Socket : t # s /\ owner[t] # NoConn => \E i \in Slot : clients'[i] = t
  BY <1>7
<1>10. \A i \in Slot : clients'[i] \in {clients[i], NoSocket}
  BY <1>4
<1> HIDE DEF s
<1> QED  BY <1>3, <1>8, <1>9, <1>10, SlotsClose

LEMMA SlotsNext ==
  Typed /\ SlotsAndSockets /\ SocketInv /\ [Next]_vars => SlotsAndSockets' /\ SocketInv'
<1> SUFFICES ASSUME Typed, SlotsAndSockets, SocketInv, [Next]_vars
             PROVE  SlotsAndSockets' /\ SocketInv'
  OBVIOUS
<1>1. CASE UNCHANGED vars
  BY <1>1, SlotsFrame DEF vars, serverVars
<1>2. CASE Reply \/ ControllerAnswer \/ ControllerMeasure
  BY <1>2, SlotsFrame DEF Reply, ReplyReceive, ReplyTest, ReplyLoad, ReplyPush, ReplySend,
     ControllerAnswer, ControllerMeasure, serverVars
<1>3. ASSUME NEW c \in Conn, SendLine(c) PROVE SlotsAndSockets' /\ SocketInv'
  BY <1>3, SlotsFrame DEF SendLine, serverVars
<1>4. CASE \/ Select \/ ServiceSkip \/ ServeQuery \/ ServeCont \/ ServeErrorTest
           \/ ServeErrorClear \/ ServeErrorSend \/ ServeOther \/ ServeIac \/ PeekReturns
           \/ DisconnectClear \/ ServerExit
  <2>1. spc # "reject"
    BY <1>4 DEF Select, ServiceSkip, ServeQuery, ServeCont, ServeErrorTest, ServeErrorClear,
       ServeErrorSend, ServeOther, ServeIac, PeekReturns, DisconnectClear, Disconnecting,
       ServerExit, Reads, Served
  <2>2. UNCHANGED <<netVars, clients>>
    BY <1>4 DEF Select, ServiceSkip, ServeQuery, ServeCont, ServeErrorTest, ServeErrorClear,
       ServeErrorSend, ServeOther, ServeIac, PeekReturns, DisconnectClear, ServerExit
  <2> QED  BY <2>1, <2>2, SlotsFrame
<1> QED  BY <1>1, <1>2, <1>3, <1>4, SlotsConnect, SlotsPeerClose, SlotsStop, SlotsAccept,
         SlotsReject, SlotsDisconnect DEF Next, Server

\* The variables of the server keep their types, for any lines that arrive.
THEOREM ScpiTyped == Spec => []TypeOK
<1>1. Typed /\ SlotsAndSockets /\ SocketInv /\ [Next]_vars =>
        Typed' /\ SlotsAndSockets' /\ SocketInv'
  BY NextTyped, SlotsNext
<1> QED  BY <1>1, InitTyped, SlotsInit, TypeParts, PTL DEF Spec

\* Open connections and occupied slots are in one-to-one correspondence, except
\* for the one that is about to be rejected, whatever the numbers of slots,
\* sockets and connections (scpi_server_task, scpi_client_disconnect).
THEOREM ScpiSlots == Spec => []SlotsAndSockets
<1>1. Typed /\ SlotsAndSockets /\ SocketInv /\ [Next]_vars =>
        Typed' /\ SlotsAndSockets' /\ SocketInv'
  BY NextTyped, SlotsNext
<1> QED  BY <1>1, InitTyped, SlotsInit, PTL DEF Spec

-----------------------------------------------------------------------------
(***************************************************************************)
(* Continuous subscriptions.                                               *)
(***************************************************************************)
\* A socket that has a slot keeps its connection while another is accepted or
\* rejected.
LEMMA ListedKept ==
  ASSUME Typed, Accept \/ Reject, NEW t \in Socket, owner[t] # NoConn,
         NEW i \in Slot, clients[i] = t
  PROVE  owner'[t] = owner[t] /\ \E j \in Slot : clients'[j] = t
<1>1. /\ owner \in [Socket -> Conn \cup {NoConn}]
      /\ clients \in [Slot -> Socket \cup {NoSocket}]
  BY DEF Typed, NetTyped, SharedTyped
<1>2. CASE Accept /\ CanAccept
  <2> DEFINE s == Lowest(Free)
  <2>1. s \in Socket /\ owner[s] = NoConn
    BY <1>2, LowestIn DEF CanAccept, Free, Socket
  <2>2. /\ owner' = [owner EXCEPT ![s] = Head(backlog)]
        /\ IF \E k \in Slot : clients[k] = NoSocket
             THEN clients' = [clients EXCEPT
                                ![Lowest({k \in Slot : clients[k] = NoSocket})] = s]
             ELSE UNCHANGED clients
    BY <1>2 DEF Accept, AcceptInto
  <2> HIDE DEF s
  <2>3. owner'[t] = owner[t]
    BY <1>1, <2>1, <2>2
  <2>4. CASE \E k \in Slot : clients[k] = NoSocket
    <3> DEFINE n == Lowest({k \in Slot : clients[k] = NoSocket})
    <3>1. n \in Slot /\ clients[n] = NoSocket
      <4>1. {k \in Slot : clients[k] = NoSocket} \subseteq Nat
        BY DEF Slot
      <4> QED  BY <2>4, <4>1, LowestIn
    <3>2. clients' = [clients EXCEPT ![n] = s]
      BY <2>2, <2>4
    <3> HIDE DEF n
    <3>3. i # n
      BY <3>1, SocketsTyped
    <3>4. clients'[i] = t
      BY <1>1, <3>2, <3>3
    <3> QED  BY <2>3, <3>4
  <2>5. CASE ~\E k \in Slot : clients[k] = NoSocket
    BY <2>2, <2>3, <2>5
  <2> QED  BY <2>4, <2>5
<1>3. CASE Accept /\ ~CanAccept
  BY <1>3 DEF Accept, netVars
<1>4. CASE Reject
  <2>1. PICK s \in Socket : s \notin Watched /\ owner' = [owner EXCEPT ![s] = NoConn]
    BY <1>4 DEF Reject, Close
  <2>2. t # s
    BY <2>1, SocketsTyped DEF Watched
  <2> QED  BY <1>1, <1>4, <2>1, <2>2 DEF Reject
<1> QED  BY <1>2, <1>3, <1>4

\* Subscriptions are kept if the sockets they name are.
LEMMA SubsKept ==
  ASSUME SubscriptionsLive, UNCHANGED <<cont, subscriber>>,
         \A q \in Quantity, ch \in Channel : cont[q][ch] # NoSocket =>
           /\ owner'[cont[q][ch]] = owner[cont[q][ch]]
           /\ \E i \in Slot : clients'[i] = cont[q][ch]
  PROVE  SubscriptionsLive'
  BY DEF SubscriptionsLive

LEMMA SubsFrame ==
  ASSUME SubscriptionsLive, UNCHANGED <<owner, clients, cont, subscriber>>
  PROVE  SubscriptionsLive'
  BY DEF SubscriptionsLive

LEMMA SubsInit == Init => SubscriptionsLive
  BY DEF Init, SubscriptionsLive

LEMMA SubsContinue ==
  ASSUME Typed, SlotsAndSockets, SubscriptionsLive, ServeCont
  PROVE  SubscriptionsLive'
<1>1. /\ slot \in Slot /\ Sock \in Socket /\ Client \in Conn /\ Head(input[Client]) \in Line
      /\ UNCHANGED <<owner, clients>>
  BY ReadsTyped DEF ServeCont, netVars
<1> DEFINE l == Head(input[Client])
<1>2. l.quantity \in Quantity /\ l.on \in BOOLEAN
  BY <1>1, ScpiAssumption DEF Quantity
<1> HIDE DEF l
<1>3. CASE l.channel \notin Channel
  BY <1>1, <1>3, SubsFrame DEF ServeCont, l
<1>4. CASE l.channel \in Channel
  <2>1. /\ cont' = [cont EXCEPT ![l.quantity][l.channel] = ContSocket(l)]
        /\ subscriber' = [subscriber EXCEPT ![l.quantity][l.channel] =
                            IF l.on THEN Client ELSE NoConn]
    BY <1>4 DEF ServeCont, l
  <2>2. /\ cont \in [Quantity -> [Channel -> Socket \cup {NoSocket}]]
        /\ subscriber \in [Quantity -> [Channel -> Conn \cup {NoConn}]]
    BY DEF Typed, SharedTyped, HistoryTyped
  <2>3. SUFFICES ASSUME NEW q \in Quantity, NEW ch \in Channel
                 PROVE  IF cont'[q][ch] = NoSocket
                          THEN subscriber'[q][ch] = NoConn
                          ELSE /\ subscriber'[q][ch] # NoConn
                               /\ owner[cont'[q][ch]] = subscriber'[q][ch]
                               /\ \E i \in Slot : clients[i] = cont'[q][ch]
    BY <1>1 DEF SubscriptionsLive
  <2>4. CASE q = l.quantity /\ ch = l.channel
    <3>1. cont'[q][ch] = ContSocket(l) /\ subscriber'[q][ch] = IF l.on THEN Client ELSE NoConn
      BY <1>2, <1>4, <2>1, <2>2, <2>4
    <3>2. CASE l.on
      BY <1>1, <3>1, <3>2, SocketsTyped, Numbers DEF ContSocket, Sock, Client
    <3>3. CASE ~l.on
      BY <3>1, <3>3 DEF ContSocket
    <3> QED  BY <3>2, <3>3
  <2>5. CASE ~(q = l.quantity /\ ch = l.channel)
    <3>1. cont'[q][ch] = cont[q][ch] /\ subscriber'[q][ch] = subscriber[q][ch]
      BY <1>2, <1>4, <2>1, <2>2, <2>5
    <3> QED  BY <3>1 DEF SubscriptionsLive
  <2> QED  BY <2>4, <2>5
<1> QED  BY <1>3, <1>4

LEMMA SubsClear ==
  ASSUME Typed, SubscriptionsLive, DisconnectClear
  PROVE  SubscriptionsLive'
<1>1. PICK p \in Quantity \X Channel :
        /\ cont' = [cont EXCEPT ![p[1]][p[2]] = NoSocket]
        /\ subscriber' = [subscriber EXCEPT ![p[1]][p[2]] = NoConn]
  BY DEF DisconnectClear, Subscribed
<1>2. /\ cont \in [Quantity -> [Channel -> Socket \cup {NoSocket}]]
      /\ subscriber \in [Quantity -> [Channel -> Conn \cup {NoConn}]]
      /\ p[1] \in Quantity /\ p[2] \in Channel /\ UNCHANGED <<owner, clients>>
  BY DEF Typed, SharedTyped, HistoryTyped, DisconnectClear, netVars
<1>3. \A q \in Quantity, ch \in Channel :
        IF q = p[1] /\ ch = p[2]
          THEN cont'[q][ch] = NoSocket /\ subscriber'[q][ch] = NoConn
          ELSE cont'[q][ch] = cont[q][ch] /\ subscriber'[q][ch] = subscriber[q][ch]
  BY <1>1, <1>2
<1> QED  BY <1>2, <1>3 DEF SubscriptionsLive

LEMMA SubsNext ==
  Typed /\ SlotsAndSockets /\ SocketInv /\ SubscriptionsLive /\ [Next]_vars => SubscriptionsLive'
<1> SUFFICES ASSUME Typed, SlotsAndSockets, SocketInv, SubscriptionsLive, [Next]_vars
             PROVE  SubscriptionsLive'
  OBVIOUS
<1>1. CASE UNCHANGED vars
  BY <1>1, SubsFrame DEF vars, netVars, historyVars
<1>2. CASE Reply \/ ControllerAnswer \/ ControllerMeasure \/ Stop
  BY <1>2, SubsFrame DEF Reply, ReplyReceive, ReplyTest, ReplyLoad, ReplyPush, ReplySend,
     ControllerAnswer, ControllerMeasure, Stop, netVars, historyVars
<1>3. ASSUME NEW c \in Conn, Connect(c) \/ SendLine(c) \/ PeerClose(c) PROVE SubscriptionsLive'
  BY <1>3, SubsFrame DEF Connect, SendLine, PeerClose, netVars, historyVars
<1>4. CASE \/ Select \/ ServiceSkip \/ ServeQuery \/ ServeErrorTest \/ ServeErrorClear
           \/ ServeErrorSend \/ ServeOther \/ ServeIac \/ PeekReturns \/ ServerExit
  BY <1>4, SubsFrame DEF Select, ServiceSkip, ServeQuery, ServeErrorTest, ServeErrorClear,
     ServeErrorSend, ServeOther, ServeIac, PeekReturns, ServerExit, netVars, historyVars
<1>5. \A q \in Quantity, ch \in Channel : cont[q][ch] # NoSocket =>
        /\ cont[q][ch] \in Socket /\ owner[cont[q][ch]] # NoConn
        /\ \E i \in Slot : clients[i] = cont[q][ch]
  BY DEF SubscriptionsLive, Typed, SharedTyped
<1>6. CASE Accept \/ Reject
  <2>1. UNCHANGED <<cont, subscriber>>
    BY <1>6 DEF Accept, Reject, historyVars
  <2>2. \A q \in Quantity, ch \in Channel : cont[q][ch] # NoSocket =>
          /\ owner'[cont[q][ch]] = owner[cont[q][ch]]
          /\ \E i \in Slot : clients'[i] = cont[q][ch]
    BY <1>5, <1>6, ListedKept
  <2> QED  BY <2>1, <2>2, SubsKept
<1>7. CASE DisconnectClose
  <2>1. slot \in Slot /\ Sock \in Socket
    BY <1>7, ServedClient DEF DisconnectClose, Disconnecting, Served
  <2>2. /\ clients' = [clients EXCEPT ![slot] = NoSocket]
        /\ owner' = [owner EXCEPT ![Sock] = NoConn]
        /\ Subscribed(Sock) = {} /\ UNCHANGED <<cont, subscriber>>
    BY <1>7 DEF DisconnectClose, Close, historyVars
  <2>3. /\ owner \in [Socket -> Conn \cup {NoConn}]
        /\ clients \in [Slot -> Socket \cup {NoSocket}]
    BY DEF Typed, NetTyped, SharedTyped
  <2>4. ASSUME NEW q \in Quantity, NEW ch \in Channel, cont[q][ch] # NoSocket
        PROVE  /\ owner'[cont[q][ch]] = owner[cont[q][ch]]
               /\ \E i \in Slot : clients'[i] = cont[q][ch]
    <3>1. cont[q][ch] # Sock
      <4>1. <<q, ch>> \in Quantity \X Channel /\ <<q, ch>>[1] = q /\ <<q, ch>>[2] = ch
        OBVIOUS
      <4> QED  BY <2>2, <4>1 DEF Subscribed
    <3>2. PICK i \in Slot : clients[i] = cont[q][ch]
      BY <1>5, <2>4
    <3>3. i # slot
      BY <3>1, <3>2 DEF Sock
    <3>4. clients'[i] = cont[q][ch]
      BY <2>2, <2>3, <3>2, <3>3
    <3>5. owner'[cont[q][ch]] = owner[cont[q][ch]]
      BY <1>5, <2>1, <2>2, <2>3, <2>4, <3>1
    <3> QED  BY <3>4, <3>5
  <2> QED  BY <2>2, <2>4, SubsKept
<1> QED  BY <1>1, <1>2, <1>3, <1>4, <1>6, <1>7, SubsContinue, SubsClear DEF Next, Server

\* A continuous subscription never outlives its connection, however the socket
\* numbers are reused (scpi_client_disconnect clears before it closes).
THEOREM ScpiSubscriptions == Spec => []SubscriptionsLive
<1>1. Typed /\ SlotsAndSockets /\ SocketInv /\ SubscriptionsLive /\ [Next]_vars =>
        Typed' /\ SlotsAndSockets' /\ SocketInv' /\ SubscriptionsLive'
  BY NextTyped, SlotsNext, SubsNext
<1> QED  BY <1>1, InitTyped, SlotsInit, SubsInit, PTL DEF Spec

-----------------------------------------------------------------------------
(***************************************************************************)
(* Readings that go astray.                                                *)
(***************************************************************************)
LEMMA StrayInit == Init => StrayInv
  BY DEF Init, StrayInv, Holding

LEMMA StrayFrame ==
  ASSUME StrayInv, UNCHANGED <<cont, stray>>,
         rpc' # "push" \/ UNCHANGED <<rpc, rq, rmsg, rsock>>
  PROVE  StrayInv'
<1>1. CASE rpc' # "push"
  BY <1>1 DEF StrayInv, Holding
<1>2. CASE UNCHANGED <<rpc, rq, rmsg, rsock>>
  BY <1>2 DEF StrayInv, Holding
<1> QED  BY <1>1, <1>2

\* A subscription that changes starts anew.
LEMMA StrayReset ==
  ASSUME Typed, StrayInv, NEW q \in Quantity, NEW ch \in Channel, NEW s,
         cont' = [cont EXCEPT ![q][ch] = s], stray' = [stray EXCEPT ![q][ch] = 0],
         UNCHANGED replyVars
  PROVE  StrayInv'
<1>1. /\ cont \in [Quantity -> [Channel -> Socket \cup {NoSocket}]]
      /\ stray \in [Quantity -> [Channel -> Nat]]
  BY DEF Typed, SharedTyped, HistoryTyped
<1>2. \A r \in Quantity, k \in Channel :
        IF r = q /\ k = ch THEN stray'[r][k] = 0
        ELSE cont'[r][k] = cont[r][k] /\ stray'[r][k] = stray[r][k]
  BY <1>1
<1>3. UNCHANGED <<rpc, rq, rmsg, rsock>>
  BY DEF replyVars
<1> QED  BY <1>2, <1>3 DEF StrayInv, Holding

LEMMA StrayPush ==
  ASSUME Typed, SubscriptionsLive, StrayInv, ReplyPush
  PROVE  StrayInv'
<1>1. /\ stray \in [Quantity -> [Channel -> Nat]] /\ rq \in Quantity
      /\ rmsg.channel \in Channel
  BY Kinds DEF Typed, HistoryTyped, ReplyTyped, ReplyHolds, ReplyPush
<1>2. rpc' # "push" /\ cont' = cont
  BY DEF ReplyPush, NextQuantity
<1>3. CASE stray' = stray
  BY <1>2, <1>3, StrayFrame
<1>4. CASE stray' # stray
  <2>1. /\ rsock # NoSocket /\ owner[rsock] # NoConn
        /\ owner[rsock] # subscriber[rq][rmsg.channel]
        /\ stray' = [stray EXCEPT ![rq][rmsg.channel] = @ + 1]
    BY <1>4 DEF ReplyPush
  <2>2. rsock # cont[rq][rmsg.channel]
    BY <1>1, <2>1 DEF SubscriptionsLive
  <2>3. stray[rq][rmsg.channel] # 1
    BY <1>1, <2>2 DEF StrayInv, Holding, ReplyPush
  <2>4. stray[rq][rmsg.channel] = 0
    BY <1>1, <2>3 DEF StrayInv
  <2>5. \A r \in Quantity, k \in Channel : stray'[r][k] <= 1
    BY <1>1, <2>1, <2>4 DEF StrayInv
  <2> QED  BY <1>2, <2>5 DEF StrayInv, Holding
<1> QED  BY <1>3, <1>4

LEMMA StrayNext ==
  Typed /\ SlotsAndSockets /\ SubscriptionsLive /\ StrayInv /\ [Next]_vars => StrayInv'
<1> SUFFICES ASSUME Typed, SlotsAndSockets, SubscriptionsLive, StrayInv, [Next]_vars
             PROVE  StrayInv'
  OBVIOUS
<1>1. CASE UNCHANGED vars
  BY <1>1, StrayFrame DEF vars, replyVars, historyVars
<1>2. CASE ControllerAnswer \/ ControllerMeasure \/ Stop
  BY <1>2, StrayFrame DEF ControllerAnswer, ControllerMeasure, Stop, replyVars, historyVars
<1>3. ASSUME NEW c \in Conn, Connect(c) \/ SendLine(c) \/ PeerClose(c) PROVE StrayInv'
  BY <1>3, StrayFrame DEF Connect, SendLine, PeerClose, replyVars, historyVars
<1>4. CASE \/ Select \/ Accept \/ Reject \/ ServiceSkip \/ ServeQuery \/ ServeErrorTest
           \/ ServeErrorClear \/ ServeErrorSend \/ ServeOther \/ ServeIac \/ PeekReturns
           \/ DisconnectClose \/ ServerExit
  <2>1. UNCHANGED <<cont, stray, rpc, rq, rmsg, rsock>>
    BY <1>4 DEF Select, Accept, Reject, ServiceSkip, ServeQuery, ServeErrorTest,
       ServeErrorClear, ServeErrorSend, ServeOther, ServeIac, PeekReturns, DisconnectClose,
       ServerExit, replyVars, historyVars
  <2> QED  BY <2>1, StrayFrame
<1>5. CASE ServeCont
  <2>1. Sock \in Socket /\ Head(input[Client]) \in Line
    BY <1>5, ReadsTyped DEF ServeCont
  <2>2. Head(input[Client]).quantity \in Quantity
    BY <2>1, ScpiAssumption DEF Quantity
  <2> QED  BY <1>5, <2>2, StrayReset, StrayFrame DEF ServeCont, replyVars
<1>6. CASE DisconnectClear
  <2>1. PICK p \in Quantity \X Channel :
          /\ cont' = [cont EXCEPT ![p[1]][p[2]] = NoSocket]
          /\ stray' = [stray EXCEPT ![p[1]][p[2]] = 0]
    BY <1>6 DEF DisconnectClear, Subscribed
  <2>2. p[1] \in Quantity /\ p[2] \in Channel
    OBVIOUS
  <2> QED  BY <1>6, <2>1, <2>2, StrayReset DEF DisconnectClear
<1>7. CASE ReplyReceive \/ ReplyTest \/ ReplySend
  <2>1. UNCHANGED <<cont, stray>>
    BY <1>7 DEF ReplyReceive, ReplyTest, ReplySend, historyVars
  <2>2. rpc' # "push"
    BY <1>7 DEF ReplyReceive, ReplyTest, ReplySend, NextQuantity, replyVars
  <2> QED  BY <2>1, <2>2, StrayFrame
<1>8. CASE ReplyLoad
  <2>1. rsock' = cont[rq][rmsg.channel] /\ UNCHANGED <<cont, stray, rq, rmsg>>
    BY <1>8 DEF ReplyLoad, historyVars
  <2> QED  BY <2>1 DEF StrayInv, Holding
<1> QED  BY <1>1, <1>2, <1>3, <1>4, <1>5, <1>6, <1>7, <1>8, StrayPush DEF Next, Server, Reply

\* At most one reading goes astray after each change of a subscription, whatever
\* the interleaving of the two tasks (scpi_reply_task reads the entry again for
\* every measurement).
THEOREM ScpiStray == Spec => []AtMostOneStray
<1>1. Typed /\ SlotsAndSockets /\ SocketInv /\ SubscriptionsLive /\ StrayInv /\ [Next]_vars =>
        Typed' /\ SlotsAndSockets' /\ SocketInv' /\ SubscriptionsLive' /\ StrayInv'
  BY NextTyped, SlotsNext, SubsNext, StrayNext
<1>2. StrayInv => AtMostOneStray
  BY DEF StrayInv, AtMostOneStray
<1> QED  BY <1>1, <1>2, InitTyped, SlotsInit, SubsInit, StrayInit, PTL DEF Spec

-----------------------------------------------------------------------------
(***************************************************************************)
(* The error latch.                                                        *)
(***************************************************************************)
\* No error is lost between the reply task, which sets the latch, and the server
\* task, which tests and clears it without a lock.
THEOREM ScpiErrors == Spec => []ErrorNotLost
<1>1. Init => ErrorNotLost
  BY DEF Init, ErrorNotLost
<1>2. ErrorNotLost /\ [Next]_vars => ErrorNotLost'
  <2> SUFFICES ASSUME ErrorNotLost, [Next]_vars PROVE ErrorNotLost'
    OBVIOUS
  <2>1. CASE UNCHANGED vars
    BY <2>1 DEF ErrorNotLost, vars, serverVars, historyVars
  <2>2. CASE ReplyTest \/ ReplyLoad \/ ReplyPush \/ ReplySend \/ ControllerAnswer
             \/ ControllerMeasure \/ Stop
    BY <2>2 DEF ErrorNotLost, ReplyTest, ReplyLoad, ReplyPush, ReplySend, ControllerAnswer,
       ControllerMeasure, Stop, serverVars, historyVars
  <2>3. CASE ReplyReceive
    <3>1. spc' = spc
      BY <2>3 DEF ReplyReceive, serverVars
    <3> QED  BY <2>3, <3>1 DEF ErrorNotLost, ReplyReceive, FlagError
  <2>4. ASSUME NEW c \in Conn, Connect(c) \/ SendLine(c) \/ PeerClose(c) PROVE ErrorNotLost'
    BY <2>4 DEF ErrorNotLost, Connect, SendLine, PeerClose, serverVars, historyVars
  <2>5. CASE \/ Select \/ Accept \/ Reject \/ ServiceSkip \/ ServeQuery \/ ServeCont
             \/ ServeErrorTest \/ ServeOther \/ ServeIac \/ PeekReturns
             \/ DisconnectClear \/ DisconnectClose \/ ServerExit
    <3>1. UNCHANGED <<error_pending, unreported>>
      BY <2>5 DEF Select, Accept, Reject, ServiceSkip, ServeQuery, ServeCont, ServeErrorTest,
         ServeOther, ServeIac, PeekReturns, DisconnectClear, DisconnectClose, ServerExit,
         historyVars
    <3>2. spc = "err_send" => spc' = "err_send"
      BY <2>5 DEF Select, Accept, Reject, ServiceSkip, ServeQuery, ServeCont, ServeErrorTest,
         ServeOther, ServeIac, PeekReturns, DisconnectClear, DisconnectClose, ServerExit,
         Reads, Served, Disconnecting
    <3> QED  BY <3>1, <3>2 DEF ErrorNotLost
  <2>6. CASE ServeErrorClear
    BY <2>6 DEF ErrorNotLost, ServeErrorClear
  <2>7. CASE ServeErrorSend
    BY <2>7 DEF ErrorNotLost, ServeErrorSend
  <2> QED  BY <2>1, <2>2, <2>3, <2>4, <2>5, <2>6, <2>7 DEF Next, Server, Reply
<1> QED  BY <1>1, <1>2, PTL DEF Spec

-----------------------------------------------------------------------------
(***************************************************************************)
(* Answers.                                                                *)
(***************************************************************************)
\* A closed connection stays closed, and a socket changes hands only when its
\* connection has been closed.
NetProgress ==
  /\ \A c \in Conn : link[c] = "closed" => link'[c] = "closed"
  /\ \A s \in Socket : owner[s] # NoConn =>
       owner'[s] = owner[s] \/ link'[owner[s]] = "closed"

LEMMA NetProgressNext ==
  ASSUME Typed, SlotsAndSockets, SocketInv, [Next]_vars
  PROVE  NetProgress
<1>1. /\ link \in [Conn -> {"idle", "backlog", "open", "fin", "closed"}]
      /\ backlog \in Seq(Conn) /\ owner \in [Socket -> Conn \cup {NoConn}]
  BY DEF Typed, NetTyped
<1>2. ASSUME UNCHANGED netVars PROVE NetProgress
  BY <1>2 DEF NetProgress, netVars
<1>3. CASE UNCHANGED vars
  BY <1>2, <1>3 DEF vars
<1>4. CASE Reply \/ ControllerAnswer \/ ControllerMeasure
  BY <1>2, <1>4 DEF Reply, ReplyReceive, ReplyTest, ReplyLoad, ReplyPush, ReplySend,
     ControllerAnswer, ControllerMeasure
<1>5. CASE \/ Select \/ ServiceSkip \/ ServeQuery \/ ServeCont \/ ServeErrorTest
           \/ ServeErrorClear \/ ServeErrorSend \/ ServeOther \/ ServeIac \/ PeekReturns
           \/ DisconnectClear \/ ServerExit
  BY <1>2, <1>5 DEF Select, ServiceSkip, ServeQuery, ServeCont, ServeErrorTest, ServeErrorClear,
     ServeErrorSend, ServeOther, ServeIac, PeekReturns, DisconnectClear, ServerExit
<1>6. ASSUME NEW c \in Conn, Connect(c) \/ SendLine(c) \/ PeerClose(c) PROVE NetProgress
  BY <1>1, <1>6 DEF Connect, SendLine, PeerClose, NetProgress, netVars
<1>7. CASE Stop
  BY <1>1, <1>7 DEF Stop, NetProgress
<1>8. CASE Accept
  <2>1. CASE ~CanAccept
    BY <1>2, <1>8, <2>1 DEF Accept
  <2>2. CASE CanAccept
    <3> DEFINE c == Head(backlog)
               s == Lowest(Free)
    <3>1. c \in Conn /\ c = backlog[1] /\ 1 \in 1 .. Len(backlog)
      BY <1>1, <2>2 DEF CanAccept
    <3>2. s \in Socket /\ owner[s] = NoConn
      BY <2>2, LowestIn DEF CanAccept, Free, Socket
    <3>3. owner' = [owner EXCEPT ![s] = c] /\ link' = [link EXCEPT ![c] = "open"]
      BY <1>8, <2>2 DEF Accept, AcceptInto
    <3>4. link[c] = "backlog"
      BY <3>1 DEF SocketInv
    <3> HIDE DEF c, s
    <3> QED  BY <1>1, <3>1, <3>2, <3>3, <3>4 DEF NetProgress
  <2> QED  BY <2>1, <2>2
<1>9. ASSUME NEW s \in Socket, owner[s] # NoConn, Close(s) PROVE NetProgress
  BY <1>9, CloseEffect DEF NetProgress
<1>10. CASE Reject
  BY <1>9, <1>10 DEF Reject
<1>11. CASE DisconnectClose
  <2>1. Sock \in Socket /\ owner[Sock] # NoConn /\ Close(Sock)
    BY <1>11, ServedClient, Numbers DEF DisconnectClose, Disconnecting, Served, Client
  <2> DEFINE s == Sock
  <2>2. s \in Socket /\ owner[s] # NoConn /\ Close(s)
    BY <2>1
  <2> HIDE DEF s
  <2> QED  BY <1>9, <2>2
<1> QED  BY <1>3, <1>4, <1>5, <1>6, <1>7, <1>8, <1>10, <1>11 DEF Next, Server

\* So a query that names the socket of its asker goes on to do so, or its asker
\* is gone.
LEMMA QueryKept ==
  ASSUME Typed, NetProgress, NEW m \in QueryMessage, QueryOK(m)
  PROVE  QueryOK(m)'
<1>1. m.reply \in Socket /\ m.asker \in Conn /\ m.asker # NoConn
  BY Kinds, Numbers
<1>2. CASE link[m.asker] = "closed"
  BY <1>1, <1>2 DEF NetProgress, QueryOK
<1>3. CASE owner[m.reply] = m.asker
  BY <1>1, <1>3 DEF NetProgress, QueryOK
<1> QED  BY <1>2, <1>3 DEF QueryOK

LEMMA QueriesInit == Init => QueriesOK /\ MisdirectedOnlyAfterClose
  BY DEF Init, QueriesOK, MisdirectedOnlyAfterClose

\* A step is fine if every query that is under way after it was fine before.
LEMMA QueriesStep ==
  ASSUME Typed, NetProgress,
         \A k \in 1 .. Len(pending') : pending'[k] \in QueryMessage /\ QueryOK(pending'[k]),
         \A k \in 1 .. Len(queue') : queue'[k] \in QueryMessage => QueryOK(queue'[k]),
         rpc' = "reply" => rmsg' \in QueryMessage /\ QueryOK(rmsg')
  PROVE  QueriesOK'
<1>1. \A m \in QueryMessage :
        (link[m.asker] = "closed" \/ owner[m.reply] = m.asker) =>
          (link'[m.asker] = "closed" \/ owner'[m.reply] = m.asker)
  BY QueryKept DEF QueryOK
<1>2. \A k \in 1 .. Len(pending') :
        link'[pending'[k].asker] = "closed" \/ owner'[pending'[k].reply] = pending'[k].asker
  BY <1>1 DEF QueryOK
<1>3. \A k \in 1 .. Len(queue') : queue'[k] \in QueryMessage =>
        link'[queue'[k].asker] = "closed" \/ owner'[queue'[k].reply] = queue'[k].asker
  BY <1>1 DEF QueryOK
<1>4. rpc' = "reply" =>
        link'[rmsg'.asker] = "closed" \/ owner'[rmsg'.reply] = rmsg'.asker
  BY <1>1 DEF QueryOK
<1>5. QueryMessage' = QueryMessage
  BY DEF QueryMessage, Socket
<1> QED  BY <1>2, <1>3, <1>4, <1>5 DEF QueriesOK, QueryOK

\* What holds of the queries before the step, with their types.
LEMMA QueriesNow ==
  ASSUME Typed, QueriesOK
  PROVE  /\ \A k \in 1 .. Len(pending) : pending[k] \in QueryMessage /\ QueryOK(pending[k])
         /\ \A k \in 1 .. Len(queue) : queue[k] \in QueryMessage => QueryOK(queue[k])
         /\ rpc = "reply" => rmsg \in QueryMessage /\ QueryOK(rmsg)
  BY DEF Typed, BusTyped, ReplyHolds, QueriesOK

\* Steps that put no query into the bus and take none out.
LEMMA QueriesFrame ==
  ASSUME Typed, NetProgress, QueriesOK, UNCHANGED <<pending, queue>>,
         rpc' = "reply" => UNCHANGED <<rpc, rmsg>>
  PROVE  QueriesOK'
<1>1. \A k \in 1 .. Len(pending') : pending'[k] \in QueryMessage /\ QueryOK(pending'[k])
  BY QueriesNow
<1>2. \A k \in 1 .. Len(queue') : queue'[k] \in QueryMessage => QueryOK(queue'[k])
  BY QueriesNow
<1>3. rpc' = "reply" => rmsg' \in QueryMessage /\ QueryOK(rmsg')
  BY QueriesNow
<1> QED  BY <1>1, <1>2, <1>3, QueriesStep

\* A message that is offered joins the queue, or not.
LEMMA QueriesOffer ==
  ASSUME BusTyped, \A k \in 1 .. Len(queue) : queue[k] \in QueryMessage => QueryOK(queue[k]),
         NEW m \in QueryMessage \cup Measurement, m \in QueryMessage => QueryOK(m),
         queue' \in {queue, Offer(m)}
  PROVE  \A k \in 1 .. Len(queue') : queue'[k] \in QueryMessage => QueryOK(queue'[k])
<1>1. CASE queue' = queue
  BY <1>1
<1>2. CASE queue' = Append(queue, m)
  <2>1. /\ queue \in Seq(QueryMessage \cup Measurement) /\ Len(queue) \in Nat
        /\ Len(queue') = Len(queue) + 1 /\ queue'[Len(queue) + 1] = m
        /\ \A k \in 1 .. Len(queue) : queue'[k] = queue[k]
    BY <1>2 DEF BusTyped
  <2> SUFFICES ASSUME NEW k \in 1 .. Len(queue'), queue'[k] \in QueryMessage
               PROVE  QueryOK(queue'[k])
    OBVIOUS
  <2>2. CASE k = Len(queue) + 1
    BY <2>1, <2>2
  <2>3. CASE k \in 1 .. Len(queue)
    BY <2>1, <2>3
  <2> QED  BY <2>1, <2>2, <2>3
<1> QED  BY <1>1, <1>2 DEF Offer

LEMMA QueriesBus ==
  ASSUME Typed, SlotsAndSockets, NetProgress, QueriesOK,
         ServeQuery \/ ControllerAnswer \/ ControllerMeasure \/ ReplyReceive
  PROVE  QueriesOK'
<1>1. BusTyped /\ pending \in Seq(QueryMessage) /\ queue \in Seq(QueryMessage \cup Measurement)
  BY DEF Typed, BusTyped
<1>2. CASE ServeQuery
  <2>1. Request \in QueryMessage /\ QueryOK(Request)
    BY <1>2, ReadsTyped DEF ServeQuery, Request, QueryMessage, QueryOK, Client
  <2> DEFINE r == Request
  <2>2. r \in QueryMessage /\ QueryOK(r) /\ pending' = Append(pending, r)
    BY <1>2, <2>1 DEF ServeQuery
  <2> HIDE DEF r
  <2>3. \A k \in 1 .. Len(pending') : pending'[k] \in QueryMessage /\ QueryOK(pending'[k])
    <3>1. /\ Len(pending) \in Nat /\ Len(pending') = Len(pending) + 1
          /\ pending'[Len(pending) + 1] = r
          /\ \A k \in 1 .. Len(pending) : pending'[k] = pending[k]
      BY <1>1, <2>2
    <3> SUFFICES ASSUME NEW k \in 1 .. Len(pending')
                 PROVE  pending'[k] \in QueryMessage /\ QueryOK(pending'[k])
      OBVIOUS
    <3>2. CASE k = Len(pending) + 1
      BY <2>2, <3>1, <3>2
    <3>3. CASE k \in 1 .. Len(pending)
      BY <3>1, <3>3, QueriesNow
    <3> QED  BY <3>1, <3>2, <3>3
  <2>4. queue' = queue /\ rpc' = rpc /\ rmsg' = rmsg
    BY <1>2 DEF ServeQuery, replyVars
  <2> QED  BY <2>3, <2>4, QueriesNow, QueriesStep
<1>3. CASE ControllerAnswer
  <2>1. /\ Len(pending) \in Nat /\ Len(pending) >= 1 /\ Head(pending) = pending[1]
        /\ Len(Tail(pending)) = Len(pending) - 1
        /\ \A k \in 1 .. Len(Tail(pending)) :
             k + 1 \in 1 .. Len(pending) /\ Tail(pending)[k] = pending[k + 1]
    BY <1>1, <1>3 DEF ControllerAnswer
  <2>2. Head(pending) \in QueryMessage /\ QueryOK(Head(pending))
    BY <2>1, QueriesNow
  <2>3. \A k \in 1 .. Len(queue') : queue'[k] \in QueryMessage => QueryOK(queue'[k])
    BY <1>1, <1>3, <2>2, QueriesNow, QueriesOffer DEF ControllerAnswer
  <2>4. \A k \in 1 .. Len(pending') : pending'[k] \in QueryMessage /\ QueryOK(pending'[k])
    BY <1>3, <2>1, QueriesNow DEF ControllerAnswer
  <2>5. rpc' = rpc /\ rmsg' = rmsg
    BY <1>3 DEF ControllerAnswer, replyVars
  <2> QED  BY <2>3, <2>4, <2>5, QueriesNow, QueriesStep
<1>4. CASE ControllerMeasure
  <2>1. PICK m \in Measurement : queue' \in {queue, Offer(m)}
    BY <1>4 DEF ControllerMeasure, Measurement
  <2>2. m \notin QueryMessage
    BY Kinds
  <2>3. \A k \in 1 .. Len(queue') : queue'[k] \in QueryMessage => QueryOK(queue'[k])
    BY <1>1, <2>1, <2>2, QueriesNow, QueriesOffer
  <2>4. UNCHANGED <<pending, rpc, rmsg>>
    BY <1>4 DEF ControllerMeasure, replyVars
  <2> QED  BY <2>3, <2>4, QueriesNow, QueriesStep
<1>5. CASE ReplyReceive
  <2>1. /\ Len(queue) \in Nat /\ Len(queue) >= 1 /\ Head(queue) = queue[1]
        /\ Len(Tail(queue)) = Len(queue) - 1
        /\ \A k \in 1 .. Len(Tail(queue)) :
             k + 1 \in 1 .. Len(queue) /\ Tail(queue)[k] = queue[k + 1]
    BY <1>1, <1>5 DEF ReplyReceive
  <2>2. /\ Head(queue) \in QueryMessage \cup Measurement
        /\ Head(queue).cmd = "MEASUREMENTS" <=> Head(queue) \in Measurement
    BY <1>1, <1>5, TakeTyped
  <2>3. \A k \in 1 .. Len(queue') : queue'[k] \in QueryMessage => QueryOK(queue'[k])
    BY <1>5, <2>1, QueriesNow DEF ReplyReceive
  <2>4. pending' = pending
    BY <1>5 DEF ReplyReceive
  <2>5. rpc' = "reply" => rmsg' \in QueryMessage /\ QueryOK(rmsg')
    <3>1. CASE Head(queue) \in Measurement
      <4>1. rpc' # "reply"
        BY <1>5, <2>2, <3>1 DEF ReplyReceive, replyVars
      <4> QED  BY <4>1
    <3>2. CASE Head(queue) \notin Measurement
      <4>1. rmsg' = Head(queue) /\ Head(queue) \in QueryMessage
        BY <1>5, <2>2, <3>2 DEF ReplyReceive
      <4>2. QueryOK(Head(queue))
        BY <2>1, <4>1, QueriesNow
      <4> QED  BY <4>1, <4>2
    <3> QED  BY <3>1, <3>2
  <2> QED  BY <2>3, <2>4, <2>5, QueriesNow, QueriesStep
<1> QED  BY <1>2, <1>3, <1>4, <1>5

LEMMA QueriesNext ==
  Typed /\ SlotsAndSockets /\ SocketInv /\ QueriesOK /\ [Next]_vars => QueriesOK'
<1> SUFFICES ASSUME Typed, SlotsAndSockets, SocketInv, QueriesOK, [Next]_vars
             PROVE  QueriesOK'
  OBVIOUS
<1>1. NetProgress
  BY NetProgressNext
<1>2. CASE UNCHANGED vars
  BY <1>1, <1>2, QueriesFrame DEF vars, replyVars
<1>3. ASSUME NEW c \in Conn, Connect(c) \/ SendLine(c) \/ PeerClose(c) PROVE QueriesOK'
  BY <1>1, <1>3, QueriesFrame DEF Connect, SendLine, PeerClose, replyVars
<1>4. CASE \/ Select \/ Accept \/ Reject \/ ServiceSkip \/ ServeCont \/ ServeErrorTest
           \/ ServeErrorClear \/ ServeErrorSend \/ ServeOther \/ ServeIac \/ PeekReturns
           \/ DisconnectClear \/ DisconnectClose \/ ServerExit
  <2>1. UNCHANGED <<pending, queue, rpc, rmsg>>
    BY <1>4 DEF Select, Accept, Reject, ServiceSkip, ServeCont, ServeErrorTest, ServeErrorClear,
       ServeErrorSend, ServeOther, ServeIac, PeekReturns, DisconnectClear, DisconnectClose,
       ServerExit, replyVars
  <2> QED  BY <1>1, <2>1, QueriesFrame
<1>5. CASE ReplyTest \/ ReplyLoad \/ ReplyPush \/ ReplySend \/ Stop
  <2>1. rpc' # "reply" /\ UNCHANGED <<pending, queue>>
    BY <1>5 DEF ReplyTest, ReplyLoad, ReplyPush, ReplySend, Stop, NextQuantity
  <2> QED  BY <1>1, <2>1, QueriesFrame
<1> QED  BY <1>1, <1>2, <1>3, <1>4, <1>5, QueriesBus DEF Next, Server, Reply

LEMMA MisdirectedNext ==
  ASSUME Typed, SlotsAndSockets, SocketInv, QueriesOK, MisdirectedOnlyAfterClose, [Next]_vars
  PROVE  MisdirectedOnlyAfterClose'
<1>1. NetProgress
  BY NetProgressNext
<1>2. received \in [Conn -> SUBSET Conn]
  BY DEF Typed, HistoryTyped
<1>3. CASE received' = received
  BY <1>1, <1>2, <1>3 DEF MisdirectedOnlyAfterClose, NetProgress
<1>4. CASE received' # received
  <2>1. ReplySend
    BY <1>4 DEF Next, Server, Reply, Connect, SendLine, PeerClose, Select, Accept, Reject,
       ServiceSkip, ServeQuery, ServeCont, ServeErrorTest, ServeErrorClear, ServeErrorSend,
       ServeOther, ServeIac, PeekReturns, DisconnectClear, DisconnectClose, ServerExit,
       ReplyReceive, ReplyTest, ReplyLoad, ReplyPush, ControllerAnswer, ControllerMeasure,
       Stop, vars, historyVars
  <2> DEFINE o == owner[rsock]
             a == rmsg.asker
  <2>2. /\ o # NoConn /\ received' = [received EXCEPT ![o] = @ \cup {a}] /\ link' = link
    BY <1>4, <2>1 DEF ReplySend, netVars
  <2>3. rsock \in Socket /\ rsock = rmsg.reply /\ QueryOK(rmsg)
    BY <2>1, Kinds DEF ReplySend, Typed, ReplyHolds, QueriesOK
  <2>4. o \in Conn
    BY <2>2, <2>3 DEF Typed, NetTyped
  <2>5. a # o => link[a] = "closed"
    BY <2>3 DEF QueryOK
  <2> HIDE DEF o, a
  <2>6. SUFFICES ASSUME NEW c \in Conn, NEW b \in received'[c], b # c
                 PROVE  link'[b] = "closed"
    BY DEF MisdirectedOnlyAfterClose
  <2>7. b \in received[c] \/ (c = o /\ b = a)
    BY <1>2, <2>2, <2>4
  <2>8. CASE b \in received[c]
    BY <2>2, <2>6, <2>8 DEF MisdirectedOnlyAfterClose
  <2>9. CASE c = o /\ b = a
    BY <2>2, <2>5, <2>6, <2>9
  <2> QED  BY <2>7, <2>8, <2>9
<1> QED  BY <1>3, <1>4

\* An answer goes to somebody else only when the connection that asked has been
\* closed, for every length of queue_scpi and every order of queries.
THEOREM ScpiAnswers == Spec => []MisdirectedOnlyAfterClose
<1>1. Typed /\ SlotsAndSockets /\ SocketInv /\ QueriesOK /\ MisdirectedOnlyAfterClose
        /\ [Next]_vars =>
        Typed' /\ SlotsAndSockets' /\ SocketInv' /\ QueriesOK' /\ MisdirectedOnlyAfterClose'
  BY NextTyped, SlotsNext, QueriesNext, MisdirectedNext
<1> QED  BY <1>1, InitTyped, SlotsInit, QueriesInit, PTL DEF Spec
=============================================================================
