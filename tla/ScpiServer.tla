----------------------------- MODULE ScpiServer -----------------------------
(***************************************************************************)
(* The telnet SCPI server of src/firmware/esp/main/scpi_server.c: the      *)
(* server task that accepts connections and executes their lines, the      *)
(* reply task that turns bus messages into replies, and what they share:   *)
(* the client slots, the continuous subscriptions and the error latch.     *)
(* The two tasks have the same priority and no lock, so every access to a  *)
(* shared variable is a step of its own.                                   *)
(*                                                                         *)
(* A socket number names a connection only while that connection is open:  *)
(* the TCP stack gives the lowest free number to the next one.  Histories  *)
(* therefore speak of connections, the code of sockets.                    *)
(***************************************************************************)
EXTENDS Integers, Sequences, FiniteSets

CONSTANTS
  Conn,            \* connections that clients make, one after the other
  NoConn,          \* no connection
  MaxClients,      \* SCPI_MAX_CLIENTS
  NumSockets,      \* sockets the TCP stack has for clients
  NumChannels,     \* DC_LOAD_DEVICE_COUNT
  Line,            \* the lines clients send: [cmd, quantity, channel, on]
  QueueLength,     \* the length of queue_scpi
  MaxLines,        \* bound: lines sent by all the clients
  MaxMeasurements  \* bound: measurements the controller publishes

ASSUME ScpiAssumption ==
  /\ NoConn \notin Conn
  /\ MaxClients \in Nat \ {0} /\ NumSockets \in Nat /\ NumChannels \in Nat \ {0}
  /\ QueueLength \in Nat \ {0} /\ MaxLines \in Nat /\ MaxMeasurements \in Nat
  /\ Line \subseteq [cmd : STRING, quantity : {"volt", "curr"}, channel : Nat, on : BOOLEAN]

VARIABLES
  link,          \* per connection: "idle", "backlog", "open", "fin" or "closed"
  backlog,       \* connections that wait for accept
  input,         \* per connection, the lines received and not yet read
  owner,         \* the connection behind each socket, or NoConn
  clients,       \* s_clients[].socket
  cont,          \* s_cont_volt and s_cont_curr: a socket, or NoSocket
  error_pending, \* s_error_pending
  running,       \* s_server_running
  spc, slot,     \* server task: where it is, and the client it serves
  ready,         \* server task: the sockets and the listener select returned
  rpc, rq, rmsg, \* reply task: where it is, the quantity and the message it handles
  rsock,         \* reply task: the socket it is about to send to
  pending,       \* queries on their way through the controller
  queue,         \* queue_scpi
  received,      \* per connection, whose queries the replies it got answer
  subscriber,    \* the connection behind each continuous subscription
  stray,         \* readings pushed to somebody else since the last change
  unreported,    \* an error was flagged after the last -300 that was sent
  budget         \* what is left of the bounds

serverVars == <<spc, slot, ready>>
replyVars == <<rpc, rq, rmsg, rsock>>
netVars == <<link, backlog, owner>>
historyVars == <<received, subscriber, stray, unreported>>
vars == <<netVars, input, clients, cont, error_pending, running, serverVars, replyVars,
          pending, queue, historyVars, budget>>

NoSocket == -1
Listener == 0
Socket == 1 .. NumSockets
Slot == 1 .. MaxClients
Channel == 0 .. NumChannels - 1
Quantity == {"volt", "curr"}
NoMessage == [cmd |-> "none"]

Free == {s \in Socket : owner[s] = NoConn}
Lowest(S) == CHOOSE s \in S : \A t \in S : s <= t

Init ==
  /\ link = [c \in Conn |-> "idle"]
  /\ backlog = <<>>
  /\ input = [c \in Conn |-> <<>>]
  /\ owner = [s \in Socket |-> NoConn]
  /\ clients = [i \in Slot |-> NoSocket]
  /\ cont = [q \in Quantity |-> [ch \in Channel |-> NoSocket]]
  /\ error_pending = FALSE
  /\ running = TRUE
  /\ spc = "select" /\ slot = 1 /\ ready = {}
  /\ rpc = "wait" /\ rq = "volt" /\ rmsg = NoMessage /\ rsock = NoSocket
  /\ pending = <<>>
  /\ queue = <<>>
  /\ received = [c \in Conn |-> {}]
  /\ subscriber = [q \in Quantity |-> [ch \in Channel |-> NoConn]]
  /\ stray = [q \in Quantity |-> [ch \in Channel |-> 0]]
  /\ unreported = FALSE
  /\ budget = [lines |-> MaxLines, measurements |-> MaxMeasurements]

-----------------------------------------------------------------------------
(***************************************************************************)
(* Clients and the TCP stack.                                              *)
(***************************************************************************)
Connect(c) ==
  /\ running
  /\ link[c] = "idle"
  /\ link' = [link EXCEPT ![c] = "backlog"]
  /\ backlog' = Append(backlog, c)
  /\ UNCHANGED <<input, owner, clients, cont, error_pending, running, serverVars, replyVars,
                 pending, queue, historyVars, budget>>

SendLine(c) ==
  /\ link[c] \in {"backlog", "open"}
  /\ budget.lines > 0
  /\ \E l \in Line : input' = [input EXCEPT ![c] = Append(@, l)]
  /\ budget' = [budget EXCEPT !.lines = @ - 1]
  /\ UNCHANGED <<netVars, clients, cont, error_pending, running, serverVars, replyVars,
                 pending, queue, historyVars>>

\* The peer closes; what it sent before can still be read.
PeerClose(c) ==
  /\ link[c] = "open"
  /\ link' = [link EXCEPT ![c] = "fin"]
  /\ UNCHANGED <<backlog, input, owner, clients, cont, error_pending, running, serverVars,
                 replyVars, pending, queue, historyVars, budget>>

\* closesocket: the connection ends and its number is free.
Close(s) ==
  /\ owner' = [owner EXCEPT ![s] = NoConn]
  /\ link' = [link EXCEPT ![owner[s]] = "closed"]
  /\ input' = [input EXCEPT ![owner[s]] = <<>>]

\* recv would not block.
Readable(s) == link[owner[s]] = "fin" \/ input[owner[s]] # <<>>

-----------------------------------------------------------------------------
(***************************************************************************)
(* The server task.                                                        *)
(***************************************************************************)
\* The sockets in rfds, without the listener.
WatchedAllButLast == {clients[i] : i \in 1 .. MaxClients - 1} \ {NoSocket} \* mutant: i < SCPI_MAX_CLIENTS - 1
Watched == {clients[i] : i \in Slot} \ {NoSocket}

\* select with the listener and the open clients.  s_server_running was tested
\* before; scpi_server_stop may have cleared it since.
Select ==
  /\ spc = "select"
  /\ LET sockets == {s \in Watched : Readable(s)}
         listener == IF backlog # <<>> THEN {Listener} ELSE {}
     IN  /\ sockets \cup listener # {}
         /\ ready' = sockets \cup listener
  /\ spc' = "accept"
  /\ UNCHANGED <<netVars, input, clients, cont, error_pending, running, slot, replyVars,
                 pending, queue, historyVars, budget>>

\* There is a connection to accept; accept fails without one, or without sockets.
CanAcceptIfSlotFree == \* mutant: connections wait in the backlog for a slot
  Listener \in ready /\ backlog # <<>> /\ Free # {} /\ \E i \in Slot : clients[i] = NoSocket
CanAccept == Listener \in ready /\ backlog # <<>> /\ Free # {}

\* The search for a free slot; without one the connection is closed next.
AcceptIntoOrKeep(c, s) == \* mutant: the rejected socket is not closed
  /\ owner' = [owner EXCEPT ![s] = c]
  /\ link' = [link EXCEPT ![c] = "open"]
  /\ clients' = IF \E i \in Slot : clients[i] = NoSocket
                  THEN [clients EXCEPT ![Lowest({i \in Slot : clients[i] = NoSocket})] = s]
                  ELSE clients
  /\ spc' = "service"
AcceptInto(c, s) ==
  /\ owner' = [owner EXCEPT ![s] = c]
  /\ link' = [link EXCEPT ![c] = "open"]
  /\ IF \E i \in Slot : clients[i] = NoSocket
       THEN /\ clients' = [clients EXCEPT ![Lowest({i \in Slot : clients[i] = NoSocket})] = s]
            /\ spc' = "service"
       ELSE spc' = "reject" /\ UNCHANGED clients

Accept ==
  /\ spc = "accept"
  /\ IF CanAccept
       THEN /\ AcceptInto(Head(backlog), Lowest(Free))
            /\ backlog' = Tail(backlog)
       ELSE spc' = "service" /\ UNCHANGED <<netVars, clients>>
  /\ slot' = 1
  /\ UNCHANGED <<input, cont, error_pending, running, ready, replyVars, pending, queue,
                 historyVars, budget>>

\* closesocket of the connection that found no slot.
Reject ==
  /\ spc = "reject"
  /\ \E s \in Socket \ Watched : owner[s] # NoConn /\ Close(s)
  /\ spc' = "service"
  /\ UNCHANGED <<backlog, clients, cont, error_pending, running, slot, ready, replyVars,
                 pending, queue, historyVars, budget>>

\* The end of the iteration for one client: the next one, or the test of
\* s_server_running and select again.
NextSlotPastEnd == \* mutant: i <= SCPI_MAX_CLIENTS
  IF slot <= MaxClients
    THEN slot' = slot + 1 /\ spc' = "service"
    ELSE slot' = 1 /\ spc' = IF running THEN "select" ELSE "exited"
NextSlot ==
  IF slot < MaxClients
    THEN slot' = slot + 1 /\ spc' = "service"
    ELSE slot' = 1 /\ spc' = IF running THEN "select" ELSE "exited"

Sock == clients[slot]
Client == owner[Sock]

Served == spc = "service" /\ Sock # NoSocket /\ Sock \in ready

ServiceSkip ==
  /\ spc = "service"
  /\ ~(Sock # NoSocket /\ Sock \in ready)
  /\ NextSlot
  /\ UNCHANGED <<netVars, input, clients, cont, error_pending, running, ready, replyVars,
                 pending, queue, historyVars, budget>>

\* The next line is complete and names one of these commands.
Reads(cmds) ==
  /\ Served
  /\ input[Client] # <<>>
  /\ Head(input[Client]).cmd \in cmds
  /\ input' = [input EXCEPT ![Client] = Tail(@)]

\* A query goes to the bus with the client's socket as reply_socket.
RequestFromFirst == [cmd |-> "REPLY", reply |-> clients[1], asker |-> Client] \* mutant: always s_clients[0]
Request == [cmd |-> "REPLY", reply |-> Sock, asker |-> Client]

ServeQuery ==
  /\ Reads({"QUERY"})
  /\ pending' = Append(pending, Request)
  /\ NextSlot
  /\ UNCHANGED <<netVars, clients, cont, error_pending, running, ready, replyVars,
                 queue, historyVars, budget>>

\* MEAS:VOLT:CONT and MEAS:CURR:CONT, on or off.
ContSocketAlways(l) == Sock \* mutant: OFF is not looked at
ContSocket(l) == IF l.on THEN Sock ELSE NoSocket

ServeCont ==
  /\ Reads({"CONT"})
  /\ LET l == Head(input[Client])
     IN  IF l.channel \in Channel
           THEN /\ cont' = [cont EXCEPT ![l.quantity][l.channel] = ContSocket(l)]
                /\ subscriber' = [subscriber EXCEPT ![l.quantity][l.channel] =
                                    IF l.on THEN Client ELSE NoConn]
                /\ stray' = [stray EXCEPT ![l.quantity][l.channel] = 0]
           ELSE UNCHANGED <<cont, subscriber, stray>>
  /\ NextSlot
  /\ UNCHANGED <<netVars, clients, error_pending, running, ready, replyVars, pending, queue,
                 received, unreported, budget>>

\* SYST:ERR?: test the latch, clear it, send the answer.
ServeErrorTest ==
  /\ Reads({"SYST:ERR?"})
  /\ IF error_pending
       THEN spc' = "err_clear" /\ UNCHANGED slot
       ELSE NextSlot
  /\ UNCHANGED <<netVars, clients, cont, error_pending, running, ready, replyVars, pending,
                 queue, historyVars, budget>>

ServeErrorClear ==
  /\ spc = "err_clear"
  /\ error_pending' = FALSE
  /\ spc' = "err_send"
  /\ UNCHANGED <<netVars, input, clients, cont, running, slot, ready, replyVars, pending,
                 queue, historyVars, budget>>

ServeErrorSend ==
  /\ spc = "err_send"
  /\ unreported' = FALSE
  /\ NextSlot
  /\ UNCHANGED <<netVars, input, clients, cont, error_pending, running, ready, replyVars,
                 pending, queue, received, subscriber, stray, budget>>

\* Lines that are answered at once or only published, and lines not understood.
ServeOther ==
  /\ Reads({"OTHER"})
  /\ NextSlot
  /\ UNCHANGED <<netVars, clients, cont, error_pending, running, ready, replyVars, pending,
                 queue, historyVars, budget>>

\* The IAC byte of a telnet command: the task peeks at the bytes that follow,
\* on a socket that blocks.
ServeIac ==
  /\ Reads({"IAC"})
  /\ spc' = "peek"
  /\ UNCHANGED <<netVars, clients, cont, error_pending, running, slot, ready, replyVars,
                 pending, queue, historyVars, budget>>

PeekReturns ==
  /\ spc = "peek"
  /\ Readable(Sock)
  /\ NextSlot
  /\ UNCHANGED <<netVars, input, clients, cont, error_pending, running, ready, replyVars,
                 pending, queue, historyVars, budget>>

\* The entries of s_cont_volt and s_cont_curr that name a socket.
VoltSubscribed(s) == {p \in {"volt"} \X Channel : cont[p[1]][p[2]] = s} \* mutant: s_cont_curr forgotten
Subscribed(s) == {p \in Quantity \X Channel : cont[p[1]][p[2]] = s}

\* recv returns 0 or an error: scpi_client_disconnect ends the subscriptions of
\* the socket, channel by channel, and then closes it.
Disconnecting == Served /\ input[Client] = <<>> /\ link[Client] = "fin"

Before(p, r) == p[2] < r[2] \/ (p[2] = r[2] /\ (p[1] = "volt" \/ r[1] = "curr"))

DisconnectClear ==
  /\ Disconnecting
  /\ \E p \in Subscribed(Sock) :
       /\ \A r \in Subscribed(Sock) : Before(p, r)
       /\ cont' = [cont EXCEPT ![p[1]][p[2]] = NoSocket]
       /\ subscriber' = [subscriber EXCEPT ![p[1]][p[2]] = NoConn]
       /\ stray' = [stray EXCEPT ![p[1]][p[2]] = 0]
  /\ UNCHANGED <<netVars, input, clients, error_pending, running, serverVars, replyVars,
                 pending, queue, received, unreported, budget>>

DisconnectClose ==
  /\ Disconnecting
  /\ Subscribed(Sock) = {}
  /\ Close(Sock)
  /\ clients' = [clients EXCEPT ![slot] = NoSocket]
  /\ NextSlot
  /\ UNCHANGED <<backlog, cont, error_pending, running, ready, replyVars, pending, queue,
                 historyVars, budget>>

\* select timed out, or failed on the closed listener, and s_server_running is
\* false: the task leaves its loop; clients stay open.
ServerExit ==
  /\ spc = "select"
  /\ ~running
  /\ spc' = "exited"
  /\ UNCHANGED <<netVars, input, clients, cont, error_pending, running, slot, ready, replyVars,
                 pending, queue, historyVars, budget>>

Server ==
  \/ Select \/ Accept \/ Reject \/ ServiceSkip
  \/ ServeQuery \/ ServeCont \/ ServeErrorTest \/ ServeErrorClear \/ ServeErrorSend
  \/ ServeOther \/ ServeIac \/ PeekReturns
  \/ DisconnectClear \/ DisconnectClose \/ ServerExit

-----------------------------------------------------------------------------
(***************************************************************************)
(* The controller, as the server sees it: it answers queries in order, or  *)
(* not at all, and publishes measurements.  What does not fit in queue_scpi *)
(* is lost; the rest of the bus's traffic, which the reply task skips,     *)
(* takes room there too, so a loss may happen at any time.                 *)
(***************************************************************************)
Offer(m) == IF Len(queue) < QueueLength THEN Append(queue, m) ELSE queue

ControllerAnswer ==
  /\ pending # <<>>
  /\ pending' = Tail(pending)
  /\ queue' \in {queue, Offer(Head(pending))}
  /\ UNCHANGED <<netVars, input, clients, cont, error_pending, running, serverVars, replyVars,
                 historyVars, budget>>

ControllerMeasure ==
  /\ budget.measurements > 0
  /\ \E ch \in Channel, error \in BOOLEAN, stale \in BOOLEAN :
       queue' \in {queue, Offer([cmd |-> "MEASUREMENTS", channel |-> ch,
                                 error |-> error, stale |-> stale])}
  /\ budget' = [budget EXCEPT !.measurements = @ - 1]
  /\ UNCHANGED <<netVars, input, clients, cont, error_pending, running, serverVars, replyVars,
                 pending, historyVars>>

-----------------------------------------------------------------------------
(***************************************************************************)
(* The reply task.  For a measurement it looks at s_cont_volt, then at     *)
(* s_cont_curr; each is read once for the test and again for the send.     *)
(***************************************************************************)
\* SCPI_FLAG_ERROR sets the latch.
FlagErrorOf(m) == error_pending' = m.error /\ unreported' = (unreported \/ m.error) \* mutant: each measurement overwrites it
FlagError(m) == error_pending' = (error_pending \/ m.error) /\ unreported' = (unreported \/ m.error)

ReplyReceive ==
  /\ rpc = "wait"
  /\ queue # <<>>
  /\ LET m == Head(queue)
     IN  IF m.cmd = "MEASUREMENTS"
           THEN /\ FlagError(m)
                /\ IF m.stale
                     THEN UNCHANGED replyVars
                     ELSE rpc' = "test" /\ rmsg' = m /\ UNCHANGED <<rq, rsock>>
           ELSE /\ rpc' = "reply" /\ rmsg' = m /\ rsock' = m.reply
                /\ UNCHANGED <<rq, error_pending, unreported>>
  /\ queue' = Tail(queue)
  /\ UNCHANGED <<netVars, input, clients, cont, running, serverVars, pending,
                 received, subscriber, stray, budget>>

\* From s_cont_volt to s_cont_curr, and from there to the next message.
NextQuantity ==
  IF rq = "volt"
    THEN rq' = "curr" /\ rpc' = "test" /\ UNCHANGED rmsg
    ELSE rq' = "volt" /\ rpc' = "wait" /\ rmsg' = NoMessage

\* if (s_cont_volt[ch] >= 0)
ReplyTest ==
  /\ rpc = "test"
  /\ IF cont[rq][rmsg.channel] # NoSocket
       THEN rpc' = "load" /\ UNCHANGED <<rq, rmsg>>
       ELSE NextQuantity
  /\ UNCHANGED <<netVars, input, clients, cont, error_pending, running, serverVars, rsock,
                 pending, queue, historyVars, budget>>

\* The argument of send.
ReplyLoad ==
  /\ rpc = "load"
  /\ rsock' = cont[rq][rmsg.channel]
  /\ rpc' = "push"
  /\ UNCHANGED <<netVars, input, clients, cont, error_pending, running, serverVars, rq, rmsg,
                 pending, queue, historyVars, budget>>

\* send: the reading goes to whoever owns the socket now.
ReplyPush ==
  /\ rpc = "push"
  /\ LET c == IF rsock = NoSocket THEN NoConn ELSE owner[rsock]
     IN  IF c # NoConn /\ c # subscriber[rq][rmsg.channel]
           THEN stray' = [stray EXCEPT ![rq][rmsg.channel] = @ + 1]
           ELSE UNCHANGED stray
  /\ NextQuantity
  /\ rsock' = NoSocket
  /\ UNCHANGED <<netVars, input, clients, cont, error_pending, running, serverVars,
                 pending, queue, received, subscriber, unreported, budget>>

\* The answer to a query goes to whoever owns reply_socket now.
ReplySend ==
  /\ rpc = "reply"
  /\ received' = IF owner[rsock] # NoConn
                   THEN [received EXCEPT ![owner[rsock]] = @ \cup {rmsg.asker}]
                   ELSE received
  /\ rpc' = "wait" /\ rmsg' = NoMessage /\ rsock' = NoSocket
  /\ UNCHANGED <<netVars, input, clients, cont, error_pending, running, serverVars, rq,
                 pending, queue, subscriber, stray, unreported, budget>>

Reply == ReplyReceive \/ ReplyTest \/ ReplyLoad \/ ReplyPush \/ ReplySend

\* scpi_server_stop: the server task is told to end, the listener is closed with
\* the connections it still holds, and the reply task is deleted.
Stop ==
  /\ running
  /\ running' = FALSE
  /\ rpc' = "deleted"
  /\ backlog' = <<>>
  /\ link' = [c \in Conn |-> IF link[c] = "backlog" THEN "closed" ELSE link[c]]
  /\ input' = [c \in Conn |-> IF link[c] = "backlog" THEN <<>> ELSE input[c]]
  /\ UNCHANGED <<owner, clients, cont, error_pending, serverVars, rq, rmsg, rsock,
                 pending, queue, historyVars, budget>>

Next ==
  \/ \E c \in Conn : Connect(c) \/ SendLine(c) \/ PeerClose(c)
  \/ Server \/ Reply \/ ControllerAnswer \/ ControllerMeasure \/ Stop

Spec == Init /\ [][Next]_vars

\* Both tasks are scheduled whenever they can run.
FairSpec == Spec /\ WF_vars(Server) /\ WF_vars(Reply)
-----------------------------------------------------------------------------
QueryMessage == [cmd : {"REPLY"}, reply : Socket, asker : Conn]
Measurement == [cmd : {"MEASUREMENTS"}, channel : Channel, error : BOOLEAN, stale : BOOLEAN]

TypeOK ==
  /\ link \in [Conn -> {"idle", "backlog", "open", "fin", "closed"}]
  /\ backlog \in Seq(Conn)
  /\ input \in [Conn -> Seq(Line)]
  /\ owner \in [Socket -> Conn \cup {NoConn}]
  /\ clients \in [Slot -> Socket \cup {NoSocket}]
  /\ cont \in [Quantity -> [Channel -> Socket \cup {NoSocket}]]
  /\ error_pending \in BOOLEAN
  /\ running \in BOOLEAN
  /\ spc \in {"select", "accept", "service", "err_clear", "err_send", "peek", "reject", "exited"}
  /\ slot \in Slot
  /\ ready \subseteq Socket \cup {Listener}
  /\ rpc \in {"wait", "test", "load", "push", "reply", "deleted"}
  /\ rq \in Quantity
  /\ rmsg \in QueryMessage \cup Measurement \cup {NoMessage}
  /\ rsock \in Socket \cup {NoSocket}
  /\ pending \in Seq(QueryMessage)
  /\ queue \in Seq(QueryMessage \cup Measurement) /\ Len(queue) <= QueueLength
  /\ received \in [Conn -> SUBSET Conn]
  /\ subscriber \in [Quantity -> [Channel -> Conn \cup {NoConn}]]
  /\ stray \in [Quantity -> [Channel -> Nat]]
  /\ unreported \in BOOLEAN
  /\ budget \in [lines : Nat, measurements : Nat]

\* Every open connection has one client slot, unless it is about to be rejected,
\* every occupied slot one open connection: rejecting, closing and reusing a
\* socket number leak nothing.
SlotsAndSockets ==
  /\ \A i, j \in Slot : clients[i] = clients[j] /\ clients[i] # NoSocket => i = j
  /\ \A i \in Slot : clients[i] # NoSocket =>
       /\ owner[clients[i]] # NoConn
       /\ link[owner[clients[i]]] \in {"open", "fin"}
  /\ \A s \in Socket : owner[s] # NoConn =>
       spc = "reject" \/ \E i \in Slot : clients[i] = s
  /\ \A c \in Conn : link[c] \in {"open", "fin"} => \E s \in Socket : owner[s] = c

\* A continuous subscription ends with its connection: the socket it names is
\* still the connection that subscribed, never a later one with its number.
SubscriptionsLive ==
  \A q \in Quantity, ch \in Channel :
    IF cont[q][ch] = NoSocket
      THEN subscriber[q][ch] = NoConn
      ELSE /\ subscriber[q][ch] # NoConn
           /\ owner[cont[q][ch]] = subscriber[q][ch]
           /\ \E i \in Slot : clients[i] = cont[q][ch]

\* After OFF, a takeover or a disconnect, at most the one reading the reply
\* task already had in hand is pushed to a client that is not the subscriber.
AtMostOneStray ==
  \A q \in Quantity, ch \in Channel : stray[q][ch] <= 1

\* An error flagged since the last -300 is still in the latch, unless its -300
\* is about to be sent: the unlocked test and clear lose none.
ErrorNotLost == unreported => error_pending \/ spc = "err_send"

\* As long as a client is connected, the answers to its queries go to nobody else.
MisdirectedOnlyAfterClose ==
  \A c \in Conn : \A a \in received[c] : a # c => link[a] = "closed"

\* What a client sent is read, if the server is not stopped.
LinesRead ==
  \A c \in Conn :
    (link[c] = "open" /\ input[c] # <<>>) ~> (input[c] = <<>> \/ ~running)

\* test_scpi_server.py: a connection is accepted or, with all slots taken, closed.
ConnectionDecided ==
  \A c \in Conn : (link[c] = "backlog") ~> (link[c] # "backlog")

\* scpi_server.c:60, "queries that should return to the same client".
ReplyToAsker == \A c \in Conn : received[c] \subseteq {c}
=============================================================================
