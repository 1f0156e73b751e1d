------------------------------ MODULE WebServer ------------------------------
(***************************************************************************)
(* The web server of src/firmware/esp/main/web_server.c.                   *)
(*                                                                         *)
(* Two tasks share s_ws_clients[], the numbers of the sockets that receive *)
(* measurements: the task of the HTTP server, which runs the handlers and  *)
(* owns the connections, and ws_broadcast_task, which copies the list      *)
(* under a mutex and sends without it.  Each gives up when it does not get *)
(* the mutex within 50 ms.  The HTTP server itself (esp_http_server) is    *)
(* not part of the repository: it closes a connection when its peer does,  *)
(* when a handler fails, and, with lru_purge_enable, when a new one needs  *)
(* its place, and none of that reaches the list.                           *)
(***************************************************************************)
EXTENDS Naturals, Sequences, FiniteSets, ScpiCodec

CONSTANTS
  Fd,            \* socket numbers; as many as max_open_sockets
  NoFd,          \* -1, a free place in s_ws_clients[]
  MaxClients,    \* WEB_WS_MAX_CLIENTS
  Capacity,      \* the length of queue_web_server
  Body,          \* the request bodies that are posted
  MaxConnects,   \* bound: connections that are opened
  MaxTimeouts,   \* bound: times the mutex is not obtained within 50 ms
  MaxPosts       \* bound: commands that are posted and answered "OK"

ASSUME WebAssumption ==
  /\ NoFd \notin Fd
  /\ IsFiniteSet(Fd)
  /\ MaxClients \in Nat \ {0}
  /\ Capacity \in Nat \ {0}
  /\ MaxConnects \in Nat
  /\ MaxTimeouts \in Nat
  /\ MaxPosts \in Nat
  /\ Body \subseteq Line

VARIABLES
  session,    \* per number, the connection: none, plain HTTP, or a web socket
  recent,     \* the numbers in use, least recently used first
  clients,    \* s_ws_clients[]
  lock,       \* the holder of s_ws_clients_lock
  httpd,      \* what the HTTP server's task is doing, and for which number
  bcast,      \* what ws_broadcast_task is doing, its copy and its loop index
  queue,      \* queue_web_server
  connects,   \* connections opened so far
  timeouts,   \* times a task gave up on the mutex so far
  posts,      \* commands answered "OK" so far
  posted,     \* the last command that was answered "OK" and its message
  server,     \* s_server: up, freed by httpd_stop, NULL, all down, or panicked
  unheard,    \* numbers whose last web socket ended without the list being told
  passed      \* numbers whose web socket is not to be listed: ws_add_client left it
              \* out, or a send that failed removed it

vars == <<session, recent, clients, lock, httpd, bcast, queue, connects, timeouts,
          posts, posted, server, unheard, passed>>
sessionVars == <<session, recent, unheard>>
listVars == <<clients, lock, passed>>
counters == <<connects, timeouts, posts>>

Slot == 1 .. MaxClients
Number == Fd \cup {NoFd}

\* What becomes JSON: the other messages of the bus reach the queue as well,
\* the server's own commands among them.
Message == {"measurement", "other"}

Idle == [do |-> "idle", fd |-> NoFd]
Waiting == [do |-> "idle", copy |-> [k \in Slot |-> NoFd], next |-> 1]
NotPosted == [line |-> [header |-> "other", ch |-> 0, word |-> "none", number |-> 0],
              msg |-> NoMsg]

Listed(f) == \E k \in Slot : clients[k] = f

\* The places of f in the list, and the free ones.
Places(f) == {k \in Slot : clients[k] = f}
First(S) == CHOOSE k \in S : \A j \in S : k <= j

Init ==
  /\ session = [f \in Fd |-> "none"]
  /\ recent = <<>>
  /\ clients = [k \in Slot |-> NoFd]
  /\ lock = "free"
  /\ httpd = Idle
  /\ bcast = Waiting
  /\ queue = <<>>
  /\ connects = 0
  /\ timeouts = 0
  /\ posts = 0
  /\ posted = NotPosted
  /\ server = "up"
  /\ unheard = {}
  /\ passed = {}

-----------------------------------------------------------------------------
(***************************************************************************)
(* Connections, as esp_http_server keeps them.                             *)
(***************************************************************************)
Place(f) == CHOOSE k \in 1 .. Len(recent) : recent[k] = f
Without(f) ==
  IF \E k \in 1 .. Len(recent) : recent[k] = f
    THEN SubSeq(recent, 1, Place(f) - 1) \o SubSeq(recent, Place(f) + 1, Len(recent))
    ELSE recent
Use(f) == recent' = Append(Without(f), f)

\* The connection on f ends; the list of clients is not told.
Drop(f) ==
  /\ session' = [session EXCEPT ![f] = "none"]
  /\ recent' = Without(f)
  /\ unheard' = IF session[f] = "ws" THEN unheard \cup {f} ELSE unheard

\* A browser connects and takes a free number, whichever: other sockets of the
\* device come and go too.
Connect(f) ==
  /\ httpd = Idle /\ server = "up"
  /\ connects < MaxConnects
  /\ session[f] = "none"
  /\ session' = [session EXCEPT ![f] = "http"]
  /\ recent' = Append(recent, f)
  /\ connects' = connects + 1
  /\ UNCHANGED <<unheard, listVars, httpd, bcast, queue, timeouts, posts, posted, server>>

\* All numbers are in use and a browser connects: lru_purge_enable.
Purge ==
  /\ httpd = Idle
  /\ connects < MaxConnects
  /\ recent # <<>> /\ \A f \in Fd : session[f] # "none"
  /\ Drop(Head(recent))
  /\ UNCHANGED <<listVars, httpd, bcast, queue, counters, posted, server>>

\* The peer goes without a CLOSE frame, or a handler returns an error: a frame
\* that httpd_ws_recv_frame rejects, an URI that is too long.
Fail(f) ==
  /\ httpd = Idle
  /\ session[f] # "none"
  /\ Drop(f)
  /\ UNCHANGED <<listVars, httpd, bcast, queue, counters, posted, server>>

-----------------------------------------------------------------------------
(***************************************************************************)
(* The handlers.                                                           *)
(***************************************************************************)
\* GET /ws: websocket_handler calls ws_add_client.
Upgrade(f) ==
  /\ httpd = Idle
  /\ session[f] = "http"
  /\ session' = [session EXCEPT ![f] = "ws"]
  /\ Use(f)
  /\ unheard' = unheard \ {f}
  /\ passed' = passed \ {f}
  /\ httpd' = [do |-> "add", fd |-> f]
  /\ UNCHANGED <<clients, lock, bcast, queue, counters, posted, server>>

\* A CLOSE frame: websocket_handler calls ws_remove_client.
CloseFrame(f) ==
  /\ httpd = Idle
  /\ session[f] = "ws"
  /\ Use(f)
  /\ httpd' = [do |-> "remove", fd |-> f]
  /\ UNCHANGED <<session, unheard, listVars, bcast, queue, counters, posted, server>>

\* Any other frame is read and discarded.
DiscardFrame(f) ==
  /\ httpd = Idle
  /\ session[f] = "ws"
  /\ Use(f)
  /\ UNCHANGED <<session, unheard, listVars, httpd, bcast, queue, counters, posted, server>>

\* GET of a file: static_file_handler streams it; the task serves nobody else.
StaticFile(f) ==
  /\ httpd = Idle
  /\ session[f] = "http"
  /\ Use(f)
  /\ httpd' = [do |-> "file", fd |-> f]
  /\ UNCHANGED <<session, unheard, listVars, bcast, queue, counters, posted, server>>

\* Mutant: at its end the file is read again.
FileReread ==
  /\ httpd.do = "file"
  /\ UNCHANGED <<sessionVars, listVars, httpd, bcast, queue, counters, posted, server>>

FileDone ==
  /\ httpd.do = "file"
  /\ httpd' = Idle
  /\ UNCHANGED <<sessionVars, listVars, bcast, queue, counters, posted, server>>

\* Mutant: the queue has no limit.
OfferUnbounded(m) == queue' = Append(queue, m)

\* app_bus_publish, as far as queue_web_server is concerned.
Offer(m) == queue' = IF Len(queue) < Capacity THEN Append(queue, m) ELSE queue

\* POST /api/scpi.  A body that is empty or too long, that is not received or
\* that scpi_decode rejects is answered with 400 and changes nothing; "OK"
\* follows app_bus_publish, whoever lost the message.
Post(f, line) ==
  /\ httpd = Idle
  /\ session[f] = "http"
  /\ Use(f)
  /\ \/ Decode(line) = NoMsg /\ UNCHANGED <<posts, posted, queue>>
     \/ /\ Decode(line) # NoMsg
        /\ posts < MaxPosts
        /\ posts' = posts + 1
        /\ posted' = [line |-> line, msg |-> Decode(line)]
        /\ Offer("other")
  /\ UNCHANGED <<session, unheard, listVars, httpd, bcast, connects, timeouts, server>>

\* Both tasks take the mutex before they look at the list.
HttpdTakes ==
  /\ httpd.do \in {"add", "remove"}
  /\ lock = "free"
  /\ lock' = "httpd"
  /\ UNCHANGED <<sessionVars, clients, passed, httpd, bcast, queue, counters, posted, server>>

\* ... and give up after 50 ms without it.  The handler does not learn of it:
\* after a CLOSE frame the server ends the connection as it does otherwise.
HttpdGivesUp ==
  /\ httpd.do \in {"add", "remove"}
  /\ lock = "bcast"
  /\ timeouts < MaxTimeouts
  /\ timeouts' = timeouts + 1
  /\ \/ /\ httpd.do = "add"
        /\ passed' = IF Listed(httpd.fd) THEN passed ELSE passed \cup {httpd.fd}
        /\ UNCHANGED sessionVars
     \/ httpd.do = "remove" /\ Drop(httpd.fd) /\ UNCHANGED passed
  /\ httpd' = Idle
  /\ UNCHANGED <<clients, lock, bcast, queue, connects, posts, posted, server>>

\* Mutant: ws_add_client does not look for the number first.
ListTwice(f) ==
  IF Places(NoFd) = {}
    THEN UNCHANGED clients
    ELSE clients' = [clients EXCEPT ![First(Places(NoFd))] = f]

\* ws_add_client: a number is listed once; a full list drops it.
List(f) ==
  IF Listed(f) \/ Places(NoFd) = {}
    THEN UNCHANGED clients
    ELSE clients' = [clients EXCEPT ![First(Places(NoFd))] = f]

\* ws_remove_client: the first place that holds the number is freed.
Unlist(f) ==
  IF Listed(f)
    THEN clients' = [clients EXCEPT ![First(Places(f))] = NoFd]
    ELSE UNCHANGED clients

HttpdAdds ==
  /\ lock = "httpd" /\ httpd.do = "add"
  /\ List(httpd.fd)
  /\ passed' = IF \E k \in Slot : clients'[k] = httpd.fd THEN passed ELSE passed \cup {httpd.fd}
  /\ lock' = "free"
  /\ httpd' = Idle
  /\ UNCHANGED <<sessionVars, bcast, queue, counters, posted, server>>

\* The handler returns after a CLOSE frame and the server ends the connection.
HttpdRemoves ==
  /\ lock = "httpd" /\ httpd.do = "remove"
  /\ Unlist(httpd.fd)
  /\ lock' = "free"
  /\ httpd' = Idle
  /\ session' = [session EXCEPT ![httpd.fd] = "none"]
  /\ recent' = Without(httpd.fd)
  /\ UNCHANGED <<unheard, passed, bcast, queue, counters, posted, server>>

-----------------------------------------------------------------------------
(***************************************************************************)
(* ws_broadcast_task.                                                      *)
(***************************************************************************)
\* A publication of another task: mostly measurements, every poll of the
\* controller two of them.
Publish(m) ==
  /\ Len(queue) < Capacity
  /\ queue' = Append(queue, m)
  /\ UNCHANGED <<sessionVars, listVars, httpd, bcast, counters, posted, server>>

BcastReceives ==
  /\ bcast.do = "idle"
  /\ queue # <<>>
  /\ queue' = Tail(queue)
  /\ bcast' = IF Head(queue) = "measurement" /\ server # "null"
                THEN [bcast EXCEPT !.do = "copy"] ELSE bcast
  /\ UNCHANGED <<sessionVars, listVars, httpd, counters, posted, server>>

BcastTakes ==
  /\ bcast.do \in {"copy", "remove"}
  /\ lock = "free"
  /\ lock' = "bcast"
  /\ UNCHANGED <<sessionVars, clients, passed, httpd, bcast, queue, counters, posted, server>>

AfterSend == [bcast EXCEPT !.do = IF bcast.next = MaxClients THEN "idle" ELSE "send",
                           !.next = IF bcast.next = MaxClients THEN 1 ELSE bcast.next + 1,
                           !.copy[bcast.next] = NoFd]

BcastGivesUp ==
  /\ bcast.do \in {"copy", "remove"}
  /\ lock = "httpd"
  /\ timeouts < MaxTimeouts
  /\ timeouts' = timeouts + 1
  /\ bcast' = IF bcast.do = "copy" THEN Waiting ELSE AfterSend
  /\ UNCHANGED <<sessionVars, listVars, httpd, queue, connects, posts, posted, server>>

BcastCopies ==
  /\ lock = "bcast" /\ bcast.do = "copy"
  /\ bcast' = [do |-> "send", copy |-> clients, next |-> 1]
  /\ lock' = "free"
  /\ UNCHANGED <<sessionVars, clients, passed, httpd, queue, counters, posted, server>>

\* Mutant: a send that fails is ignored.
SendIgnoringErrors ==
  /\ bcast.do = "send"
  /\ bcast' = AfterSend
  /\ UNCHANGED <<sessionVars, listVars, httpd, queue, counters, posted, server>>

\* httpd_ws_send_frame_async: an error when the server has no connection of
\* that number, and whenever the socket does not take the frame; it does not
\* ask what the connection is.
Send ==
  /\ bcast.do = "send"
  /\ LET f == bcast.copy[bcast.next]
     IN  \/ f # NoFd /\ bcast' = [bcast EXCEPT !.do = "remove"]
         \/ f = NoFd /\ bcast' = AfterSend
         \/ f # NoFd /\ session[f] # "none" /\ bcast' = AfterSend
  /\ UNCHANGED <<sessionVars, listVars, httpd, queue, counters, posted, server>>

BcastRemoves ==
  /\ lock = "bcast" /\ bcast.do = "remove"
  /\ Unlist(bcast.copy[bcast.next])
  /\ passed' = passed \cup {bcast.copy[bcast.next]}
  /\ bcast' = AfterSend
  /\ lock' = "free"
  /\ UNCHANGED <<sessionVars, httpd, queue, counters, posted, server>>
-----------------------------------------------------------------------------
(***************************************************************************)
(* web_server_stop, which the update calls from a task of its own: the     *)
(* HTTP server ends and is freed, s_server becomes NULL, and then the      *)
(* broadcast task is deleted, wherever it is.                              *)
(***************************************************************************)
StopHttpd ==
  /\ server = "up" /\ httpd = Idle
  /\ server' = "freed"
  /\ unheard' = unheard \cup {f \in Fd : session[f] = "ws"}
  /\ session' = [f \in Fd |-> "none"]
  /\ recent' = <<>>
  /\ UNCHANGED <<listVars, httpd, bcast, queue, counters, posted>>

\* Between the two the task may send through the freed server.
SendAfterFree ==
  /\ bcast.do = "send" /\ bcast.copy[bcast.next] # NoFd
  /\ server = "freed"
  /\ server' = "panic"
  /\ UNCHANGED <<sessionVars, listVars, httpd, bcast, queue, counters, posted>>

StopServer ==
  /\ server = "freed"
  /\ server' = "null"
  /\ UNCHANGED <<sessionVars, listVars, httpd, bcast, queue, counters, posted>>

StopBroadcast ==
  /\ server = "null" /\ bcast.do # "deleted"
  /\ bcast' = [Waiting EXCEPT !.do = "deleted"]
  /\ UNCHANGED <<sessionVars, listVars, httpd, queue, counters, posted, server>>

-----------------------------------------------------------------------------
Connections == Purge \/ \E f \in Fd : Connect(f) \/ Fail(f)

Handler(f) ==
  Upgrade(f) \/ CloseFrame(f) \/ DiscardFrame(f) \/ StaticFile(f) \/ \E line \in Body : Post(f, line)

HttpdStep == HttpdGivesUp \/ HttpdAdds \/ HttpdRemoves \/ FileDone
BcastStep == BcastReceives \/ BcastGivesUp \/ BcastCopies \/ Send \/ BcastRemoves
Stop == StopHttpd \/ StopServer \/ StopBroadcast

Next ==
  /\ server # "panic"
  /\ \/ Connections
     \/ \E f \in Fd : Handler(f)
     \/ HttpdTakes \/ HttpdStep
     \/ \E m \in Message : Publish(m)
     \/ BcastTakes \/ BcastStep \/ SendAfterFree
     \/ Stop

Spec == Init /\ [][Next]_vars

(***************************************************************************)
(* Both tasks are scheduled.  Giving the mutex back wakes the task that    *)
(* waits for it, so a task that asks gets it or gives up.  The controller  *)
(* polls for ever: whenever its measurement finds room it arrives at last. *)
(* Browsers owe nothing.                                                   *)
(***************************************************************************)
FairSpec ==
  /\ Spec
  /\ WF_vars(server # "panic" /\ HttpdStep)
  /\ WF_vars(server # "panic" /\ BcastStep)
  /\ SF_vars(server # "panic" /\ HttpdTakes)
  /\ SF_vars(server # "panic" /\ BcastTakes)
  /\ SF_vars(server # "panic" /\ Publish("measurement"))

-----------------------------------------------------------------------------
TypeOK ==
  /\ session \in [Fd -> {"none", "http", "ws"}]
  /\ recent \in Seq(Fd)
  /\ clients \in [Slot -> Number]
  /\ lock \in {"free", "httpd", "bcast"}
  /\ httpd \in [do : {"idle", "add", "remove", "file"}, fd : Number]
  /\ bcast \in [do : {"idle", "copy", "send", "remove", "deleted"},
                copy : [Slot -> Number], next : Slot]
  /\ queue \in Seq(Message) /\ Len(queue) <= Capacity
  /\ connects \in Nat /\ timeouts \in Nat /\ posts \in Nat
  /\ posted.line \in Body \cup {NotPosted.line}
  /\ server \in {"up", "freed", "null", "panic"}
  /\ unheard \in SUBSET Fd /\ passed \in SUBSET Fd

\* The list of clients and the connections of the HTTP server agree whenever no
\* handler is at work.  A web socket is missing from the list only if
\* ws_add_client left it out (a full list, or no mutex within 50 ms) or a send
\* to its number failed; a number without a web socket is in the list only if
\* its last one ended without the list being told: no CLOSE frame came, or
\* ws_remove_client did not get the mutex.  A number is listed once.
ListAgrees ==
  /\ \A j, k \in Slot : clients[j] = clients[k] /\ clients[j] # NoFd => j = k
  /\ \A f \in Fd : httpd.fd # f =>
       /\ session[f] = "ws" /\ f \notin passed => Listed(f)
       /\ Listed(f) /\ f \notin unheard => session[f] = "ws"

\* The message published for a POST is the one the line stands for: encoding
\* it gives the line back, for a channel of 1 to 256, an argument the header
\* knows and a number below 1024 (scpi_decode, scpi_encode;
\* scpi_command_handler publishes what was decoded of this request).  Beyond
\* those bounds it does not hold: channel 257 is published as the first, and
\* 2048.1234 as 2048.1233.
PostedAsWritten ==
  posted # NotPosted /\ WellFormed(posted.line) => Encode(posted.msg) = posted.line

\* Neither task waits for ever on the other: a handler returns, and the
\* broadcast task comes back for the next message.
TasksReturn ==
  /\ httpd # Idle ~> httpd = Idle \/ server = "panic"
  /\ bcast.do # "idle" ~> bcast.do \in {"idle", "deleted"} \/ server = "panic"

\* A client that went without a CLOSE frame does not keep its place in the
\* list: the next broadcasts free it, although each may give up on the mutex,
\* unless its number is used again or the server stops.
StaleLeaves ==
  \A f \in Fd :
    Listed(f) /\ session[f] = "none" ~> ~Listed(f) \/ session[f] # "none" \/ server # "up"
=============================================================================
