-------------------------- MODULE WebServerProofs --------------------------
(***************************************************************************)
(* Proofs about WebServer and ScpiCodec: types, the agreement of the list  *)
(* of web socket clients with the connections, and that what is posted is  *)
(* published as written.                                                   *)
(***************************************************************************)
EXTENDS WebServer, TLAPS, SequenceTheorems, WellFoundedInduction

\* The parts of TypeOK, by what changes them.
SessionTyped ==
  /\ session \in [Fd -> {"none", "http", "ws"}]
  /\ recent \in Seq(Fd)
  /\ unheard \in SUBSET Fd

ListTyped ==
  /\ clients \in [Slot -> Number]
  /\ lock \in {"free", "httpd", "bcast"}
  /\ passed \in SUBSET Fd

HttpdTyped == httpd \in [do : {"idle", "add", "remove", "file"}, fd : Number]

BcastTyped ==
  bcast \in [do : {"idle", "copy", "send", "remove", "deleted"},
             copy : [Slot -> Number], next : Slot]

QueueTyped == queue \in Seq(Message) /\ Len(queue) <= Capacity

RestTyped ==
  /\ connects \in Nat /\ timeouts \in Nat /\ posts \in Nat
  /\ posted.line \in Body \cup {NotPosted.line}
  /\ server \in {"up", "freed", "null", "panic"}

\* TypeOK is the conjunction of its parts.
LEMMA TypeParts ==
  TypeOK <=> SessionTyped /\ ListTyped /\ HttpdTyped /\ BcastTyped /\ QueueTyped /\ RestTyped
  BY DEF TypeOK, SessionTyped, ListTyped, HttpdTyped, BcastTyped, QueueTyped, RestTyped

(***************************************************************************)
(* A handler that will touch the list is about an open web socket, and a   *)
(* removal of the broadcast task about a number.                           *)
(***************************************************************************)
HandlerInv == httpd.do \in {"add", "remove"} => httpd.fd \in Fd /\ session[httpd.fd] = "ws"
RemovalInv == bcast.do = "remove" => bcast.copy[bcast.next] \in Fd

(***************************************************************************)
(* The agreement of list and connections, also while a handler is at work. *)
(***************************************************************************)
ListedOnce == \A j, k \in Slot : clients[j] = clients[k] /\ clients[j] # NoFd => j = k
SocketListed ==
  \A f \in Fd : session[f] = "ws" /\ f \notin passed /\ ~(httpd.do = "add" /\ httpd.fd = f)
                  => Listed(f)
ListedSocket == \A f \in Fd : Listed(f) /\ f \notin unheard => session[f] = "ws"

Typed == SessionTyped /\ ListTyped /\ HttpdTyped /\ BcastTyped /\ QueueTyped /\ RestTyped
Working == HandlerInv /\ RemovalInv
Agreement == ListedOnce /\ SocketListed /\ ListedSocket

-----------------------------------------------------------------------------
(***************************************************************************)
(* Frames: a part holds on when its variables do.                          *)
(***************************************************************************)
LEMMA SessionFrame == SessionTyped /\ UNCHANGED sessionVars => SessionTyped'
  BY DEF SessionTyped, sessionVars

LEMMA ListFrame == ListTyped /\ UNCHANGED listVars => ListTyped'
  BY DEF ListTyped, listVars

LEMMA RestFrame == RestTyped /\ UNCHANGED <<counters, posted, server>> => RestTyped'
  BY DEF RestTyped, counters

LEMMA AgreementFrame ==
  Agreement /\ UNCHANGED <<session, unheard, clients, passed, httpd>> => Agreement'
  BY DEF Agreement, ListedOnce, SocketListed, ListedSocket, Listed

-----------------------------------------------------------------------------
(***************************************************************************)
(* Helpers.                                                                *)
(***************************************************************************)
\* The first place of a set is one of its members.
LEMMA FirstIn ==
  ASSUME NEW S, S \subseteq Slot, S # {}
  PROVE  First(S) \in S
<1> DEFINE R == {p \in Nat \X Nat : p[1] < p[2]}
<1>1. IsWellFoundedOn(R, Nat)
  BY NatLessThanWellFounded DEF OpToRel
<1>2. \A x, y \in Nat : <<y, x>> \in R <=> y < x
  OBVIOUS
<1>3. S \subseteq Nat
  BY WebAssumption DEF Slot
<1> HIDE DEF R
<1>4. PICK x \in S : \A y \in S : ~(<<y, x>> \in R)
  BY <1>1, <1>3, WFMin
<1>5. ASSUME NEW y \in S PROVE x <= y
  <2>1. x \in Nat /\ y \in Nat /\ ~(<<y, x>> \in R)
    BY <1>3, <1>4
  <2>2. ~(y < x)
    BY <1>2, <2>1
  <2> QED  BY <2>1, <2>2
<1> QED  BY <1>5 DEF First

\* Dropping a number from the order of use leaves numbers.
LEMMA WithoutTyped ==
  ASSUME recent \in Seq(Fd), NEW f
  PROVE  Without(f) \in Seq(Fd)
<1>1. CASE \E k \in 1 .. Len(recent) : recent[k] = f
  <2>1. Place(f) \in 1 .. Len(recent)
    BY <1>1 DEF Place
  <2>2. Len(recent) \in Nat /\ \A k \in 1 .. Len(recent) : recent[k] \in Fd
    OBVIOUS
  <2>3. SubSeq(recent, 1, Place(f) - 1) \in Seq(Fd)
    BY <2>1, <2>2, SubSeqProperties
  <2>4. SubSeq(recent, Place(f) + 1, Len(recent)) \in Seq(Fd)
    BY <2>1, <2>2, SubSeqProperties
  <2>5. SubSeq(recent, 1, Place(f) - 1) \o SubSeq(recent, Place(f) + 1, Len(recent)) \in Seq(Fd)
    BY <2>3, <2>4, ConcatProperties
  <2> QED  BY <1>1, <2>5 DEF Without
<1>2. CASE ~\E k \in 1 .. Len(recent) : recent[k] = f
  BY <1>2 DEF Without
<1> QED  BY <1>1, <1>2

LEMMA UseTyped ==
  ASSUME recent \in Seq(Fd), NEW f \in Fd, Use(f)
  PROVE  recent' \in Seq(Fd)
<1>1. Without(f) \in Seq(Fd)
  BY WithoutTyped
<1> QED  BY <1>1 DEF Use

LEMMA OfferTyped ==
  ASSUME QueueTyped, NEW m \in Message, Offer(m)
  PROVE  QueueTyped'
<1>1. CASE Len(queue) < Capacity
  <2>1. Append(queue, m) \in Seq(Message) /\ Len(Append(queue, m)) = Len(queue) + 1
    BY DEF QueueTyped
  <2>2. Len(queue) \in Nat
    BY DEF QueueTyped
  <2> QED  BY <1>1, <2>1, <2>2, WebAssumption DEF Offer, QueueTyped
<1>2. CASE ~(Len(queue) < Capacity)
  BY <1>2 DEF Offer, QueueTyped
<1> QED  BY <1>1, <1>2

LEMMA Numbers == NoFd \in Number /\ Fd \subseteq Number /\ NoFd \notin Fd
  BY WebAssumption DEF Number

\* The places of the list.
LEMMA Slots == Slot \subseteq Nat /\ 1 \in Slot /\ MaxClients \in Slot
  BY WebAssumption DEF Slot

\* What the list holds after a number was entered.
LEMMA ListEffect ==
  ASSUME ListTyped, NEW f \in Fd, List(f)
  PROVE  /\ clients' \in [Slot -> Number]
         /\ \A g \in Fd : Listed(g) => Listed(g)'
         /\ \A g \in Fd : g # f /\ Listed(g)' => Listed(g)
         /\ ListedOnce => ListedOnce'
<1>1. CASE Listed(f) \/ Places(NoFd) = {}
  BY <1>1 DEF List, ListTyped, Listed, ListedOnce
<1>2. CASE ~Listed(f) /\ Places(NoFd) # {}
  <2> DEFINE p == First(Places(NoFd))
  <2>1. p \in Slot /\ clients[p] = NoFd
    BY <1>2, FirstIn DEF Places
  <2>2. clients' = [clients EXCEPT ![p] = f]
    BY <1>2 DEF List
  <2> HIDE DEF p
  <2>3. clients \in [Slot -> Number]
    BY DEF ListTyped
  <2>4. clients' \in [Slot -> Number]
    BY <2>1, <2>2, <2>3, Numbers
  <2>5. \A k \in Slot : clients'[k] = IF k = p THEN f ELSE clients[k]
    BY <2>1, <2>2, <2>3
  <2>6. \A g \in Fd : Listed(g) => Listed(g)'
    BY <2>1, <2>5, Numbers DEF Listed
  <2>7. \A g \in Fd : g # f /\ Listed(g)' => Listed(g)
    BY <2>1, <2>5 DEF Listed
  <2>8. ListedOnce => ListedOnce'
    BY <1>2, <2>1, <2>5 DEF Listed, ListedOnce
  <2> QED  BY <2>4, <2>6, <2>7, <2>8
<1> QED  BY <1>1, <1>2

\* What the list holds after a number was removed.
LEMMA UnlistEffect ==
  ASSUME ListTyped, NEW f \in Fd, Unlist(f)
  PROVE  /\ clients' \in [Slot -> Number]
         /\ \A g \in Fd : g # f /\ Listed(g) => Listed(g)'
         /\ \A g \in Fd : Listed(g)' => Listed(g)
         /\ ListedOnce => ListedOnce' /\ ~Listed(f)'
<1>1. CASE ~Listed(f)
  BY <1>1 DEF Unlist, ListTyped, Listed, ListedOnce
<1>2. CASE Listed(f)
  <2> DEFINE p == First(Places(f))
  <2>1. p \in Slot /\ clients[p] = f
    BY <1>2, FirstIn DEF Places, Listed
  <2>2. clients' = [clients EXCEPT ![p] = NoFd]
    BY <1>2 DEF Unlist
  <2> HIDE DEF p
  <2>3. clients \in [Slot -> Number]
    BY DEF ListTyped
  <2>4. clients' \in [Slot -> Number]
    BY <2>1, <2>2, <2>3, Numbers
  <2>5. \A k \in Slot : clients'[k] = IF k = p THEN NoFd ELSE clients[k]
    BY <2>1, <2>2, <2>3
  <2>6. \A g \in Fd : g # f /\ Listed(g) => Listed(g)'
    BY <2>1, <2>5 DEF Listed
  <2>7. \A g \in Fd : Listed(g)' => Listed(g)
    BY <2>1, <2>5, Numbers DEF Listed
  <2>8. ListedOnce => ListedOnce' /\ ~Listed(f)'
    BY <2>1, <2>5, Numbers DEF Listed, ListedOnce
  <2> QED  BY <2>4, <2>6, <2>7, <2>8
<1> QED  BY <1>1, <1>2

-----------------------------------------------------------------------------
(***************************************************************************)
(* Types.                                                                  *)
(***************************************************************************)
Inv == Typed /\ Working /\ Agreement

LEMMA InitInv == Init => Inv
<1> SUFFICES ASSUME Init PROVE Inv
  OBVIOUS
<1>1. SessionTyped
  BY DEF Init, SessionTyped
<1>2. ListTyped
  BY Numbers DEF Init, ListTyped
<1>3. HttpdTyped /\ HandlerInv
  BY Numbers DEF Init, HttpdTyped, HandlerInv, Idle
<1>4. BcastTyped /\ RemovalInv
  BY Numbers, Slots DEF Init, BcastTyped, RemovalInv, Waiting
<1>5. QueueTyped
  BY WebAssumption DEF Init, QueueTyped
<1>6. RestTyped
  BY DEF Init, RestTyped
<1>7. Agreement
  BY Numbers DEF Init, Agreement, ListedOnce, SocketListed, ListedSocket, Listed
<1> QED  BY <1>1, <1>2, <1>3, <1>4, <1>5, <1>6, <1>7 DEF Inv, Typed, Working

\* The end of a connection, whose number no handler is entering in the list.
LEMMA DropEffect ==
  ASSUME SessionTyped, Agreement, httpd.do # "add", httpd' = Idle, NEW f \in Fd, Drop(f),
         UNCHANGED <<clients, passed>>
  PROVE  SessionTyped' /\ HandlerInv' /\ Agreement'
<1>1. Without(f) \in Seq(Fd)
  BY WithoutTyped DEF SessionTyped
<1>2. SessionTyped'
  BY <1>1 DEF Drop, SessionTyped
<1>3. HandlerInv'
  BY DEF HandlerInv, Idle
<1>4. \A g \in Fd : session'[g] = IF g = f THEN "none" ELSE session[g]
  BY DEF Drop, SessionTyped
<1>5. SocketListed'
  BY <1>4 DEF Agreement, SocketListed, Listed
<1>6. ListedSocket'
  <2> SUFFICES ASSUME NEW g \in Fd, Listed(g), g \notin unheard'
               PROVE  session'[g] = "ws"
    BY DEF ListedSocket, Listed
  <2>1. session[g] = "ws"
    BY DEF Drop, Agreement, ListedSocket
  <2>2. g # f
    BY <2>1 DEF Drop
  <2> QED  BY <1>4, <2>1, <2>2
<1> QED  BY <1>2, <1>3, <1>5, <1>6 DEF Agreement, ListedOnce

LEMMA ConnectionsInv ==
  ASSUME Inv, Connections
  PROVE  Inv'
<1> USE DEF Inv, Typed, Working
<1>1. CASE Purge
  <2>1. Head(recent) \in Fd
    BY <1>1, HeadTailProperties DEF Purge, SessionTyped
  <2>2. SessionTyped' /\ HandlerInv' /\ Agreement'
    BY <1>1, <2>1, DropEffect DEF Purge, listVars, Idle
  <2>3. ListTyped' /\ HttpdTyped' /\ BcastTyped' /\ RemovalInv' /\ QueueTyped' /\ RestTyped'
    BY <1>1, ListFrame, RestFrame
       DEF Purge, HttpdTyped, BcastTyped, RemovalInv, QueueTyped
  <2> QED  BY <2>2, <2>3
<1>2. ASSUME NEW f \in Fd, Fail(f) PROVE Inv'
  <2>1. SessionTyped' /\ HandlerInv' /\ Agreement'
    BY <1>2, DropEffect DEF Fail, listVars, Idle
  <2>2. ListTyped' /\ HttpdTyped' /\ BcastTyped' /\ RemovalInv' /\ QueueTyped' /\ RestTyped'
    BY <1>2, ListFrame, RestFrame
       DEF Fail, HttpdTyped, BcastTyped, RemovalInv, QueueTyped
  <2> QED  BY <2>1, <2>2
<1>3. ASSUME NEW f \in Fd, Connect(f) PROVE Inv'
  <2>1. SessionTyped'
    BY <1>3 DEF Connect, SessionTyped
  <2>2. HandlerInv'
    BY <1>3 DEF Connect, HandlerInv, Idle
  <2>3. \A g \in Fd : session'[g] = IF g = f THEN "http" ELSE session[g]
    BY <1>3 DEF Connect, SessionTyped
  <2>4. UNCHANGED <<clients, passed, httpd, unheard>> /\ session[f] = "none"
    BY <1>3 DEF Connect, listVars
  <2>5. Agreement'
    BY <2>3, <2>4 DEF Agreement, ListedOnce, SocketListed, ListedSocket, Listed
  <2>6. RestTyped'
    BY <1>3 DEF Connect, RestTyped
  <2>7. ListTyped' /\ HttpdTyped' /\ BcastTyped' /\ RemovalInv' /\ QueueTyped'
    BY <1>3, ListFrame DEF Connect, HttpdTyped, BcastTyped, RemovalInv, QueueTyped
  <2> QED  BY <2>1, <2>2, <2>5, <2>6, <2>7
<1> QED  BY <1>1, <1>2, <1>3 DEF Connections

LEMMA HandlerTyped ==
  ASSUME Inv, NEW f \in Fd, Handler(f)
  PROVE  Inv'
<1> USE DEF Inv, Typed, Working
<1>1. f \in Number
  BY Numbers
<1>2. CASE Upgrade(f)
  <2>1. recent' \in Seq(Fd)
    BY <1>2, UseTyped DEF Upgrade, SessionTyped
  <2>2. SessionTyped'
    BY <1>2, <2>1 DEF Upgrade, SessionTyped
  <2>3. \A g \in Fd : session'[g] = IF g = f THEN "ws" ELSE session[g]
    BY <1>2 DEF Upgrade, SessionTyped
  <2>4. ListTyped'
    BY <1>2 DEF Upgrade, ListTyped
  <2>5. HttpdTyped' /\ HandlerInv'
    BY <1>1, <1>2, <2>3 DEF Upgrade, HttpdTyped, HandlerInv
  <2>6. Agreement'
    <3>1. /\ clients' = clients /\ unheard' = unheard \ {f} /\ passed' = passed \ {f}
          /\ httpd.do = "idle" /\ httpd' = [do |-> "add", fd |-> f]
      BY <1>2 DEF Upgrade, Idle
    <3>2. SocketListed'
      BY <2>3, <3>1 DEF Agreement, SocketListed, Listed
    <3>3. ListedSocket'
      BY <2>3, <3>1 DEF Agreement, ListedSocket, Listed
    <3> QED  BY <3>1, <3>2, <3>3 DEF Agreement, ListedOnce
  <2>7. BcastTyped' /\ RemovalInv' /\ QueueTyped' /\ RestTyped'
    BY <1>2, RestFrame DEF Upgrade, BcastTyped, RemovalInv, QueueTyped
  <2> QED  BY <2>2, <2>4, <2>5, <2>6, <2>7
<1>3. ASSUME httpd = Idle, Use(f), UNCHANGED <<session, unheard, listVars, bcast>>,
             httpd' \in [do : {"idle", "remove", "file"}, fd : Number],
             httpd'.do = "remove" => httpd'.fd \in Fd /\ session[httpd'.fd] = "ws"
      PROVE  SessionTyped' /\ ListTyped' /\ HttpdTyped' /\ BcastTyped' /\ Working' /\ Agreement'
  <2>1. recent' \in Seq(Fd)
    BY <1>3, UseTyped DEF SessionTyped
  <2>2. SessionTyped'
    BY <1>3, <2>1 DEF SessionTyped
  <2>3. HttpdTyped' /\ HandlerInv'
    BY <1>3 DEF HttpdTyped, HandlerInv
  <2>4. Agreement'
    BY <1>3 DEF Agreement, ListedOnce, SocketListed, ListedSocket, Listed, Idle, listVars
  <2>5. ListTyped' /\ BcastTyped' /\ RemovalInv'
    BY <1>3, ListFrame DEF BcastTyped, RemovalInv
  <2> QED  BY <2>2, <2>3, <2>4, <2>5
<1>4. CASE CloseFrame(f)
  <2>1. httpd' = [do |-> "remove", fd |-> f] /\ session[f] = "ws"
    BY <1>4 DEF CloseFrame
  <2>2. SessionTyped' /\ ListTyped' /\ HttpdTyped' /\ BcastTyped' /\ Working' /\ Agreement'
    BY <1>1, <1>3, <1>4, <2>1 DEF CloseFrame
  <2> QED  BY <1>4, <2>2, RestFrame DEF CloseFrame, QueueTyped
<1>5. CASE DiscardFrame(f)
  <2>1. httpd' = [do |-> "idle", fd |-> NoFd]
    BY <1>5 DEF DiscardFrame, Idle
  <2>2. SessionTyped' /\ ListTyped' /\ HttpdTyped' /\ BcastTyped' /\ Working' /\ Agreement'
    BY <1>3, <1>5, <2>1, Numbers DEF DiscardFrame
  <2> QED  BY <1>5, <2>2, RestFrame DEF DiscardFrame, QueueTyped
<1>6. CASE StaticFile(f)
  <2>1. httpd' = [do |-> "file", fd |-> f]
    BY <1>6 DEF StaticFile
  <2>2. SessionTyped' /\ ListTyped' /\ HttpdTyped' /\ BcastTyped' /\ Working' /\ Agreement'
    BY <1>1, <1>3, <1>6, <2>1 DEF StaticFile
  <2> QED  BY <1>6, <2>2, RestFrame DEF StaticFile, QueueTyped
<1>7. ASSUME NEW line \in Body, Post(f, line) PROVE Inv'
  <2>1. httpd' = [do |-> "idle", fd |-> NoFd]
    BY <1>7 DEF Post, Idle
  <2>2. SessionTyped' /\ ListTyped' /\ HttpdTyped' /\ BcastTyped' /\ Working' /\ Agreement'
    BY <1>3, <1>7, <2>1, Numbers DEF Post
  <2>3. "other" \in Message
    BY DEF Message
  <2>4. QueueTyped' /\ posted'.line \in Body \cup {NotPosted.line}
    <3>1. CASE UNCHANGED <<posts, posted, queue>>
      BY <3>1 DEF QueueTyped, RestTyped
    <3>2. CASE posted' = [line |-> line, msg |-> Decode(line)] /\ Offer("other")
      BY <2>3, <3>2, OfferTyped
    <3> QED  BY <1>7, <3>1, <3>2 DEF Post
  <2>5. RestTyped'
    BY <1>7, <2>4 DEF Post, RestTyped
  <2> QED  BY <2>2, <2>4, <2>5
<1> QED  BY <1>2, <1>4, <1>5, <1>6, <1>7 DEF Handler

LEMMA HttpdInv ==
  ASSUME Inv, HttpdTakes \/ HttpdStep
  PROVE  Inv'
<1> USE DEF Inv, Typed, Working
<1>1. CASE HttpdTakes
  <2>1. SessionTyped' /\ RestTyped'
    BY <1>1, SessionFrame, RestFrame DEF HttpdTakes
  <2>2. ListTyped'
    BY <1>1 DEF HttpdTakes, ListTyped
  <2>3. HttpdTyped' /\ BcastTyped' /\ QueueTyped' /\ Working'
    BY <1>1 DEF HttpdTakes, HttpdTyped, BcastTyped, QueueTyped, HandlerInv, RemovalInv, sessionVars
  <2>4. Agreement'
    BY <1>1, AgreementFrame DEF HttpdTakes, sessionVars
  <2> QED  BY <2>1, <2>2, <2>3, <2>4
<1>2. CASE HttpdGivesUp
  <2>1. httpd.fd \in Fd /\ session[httpd.fd] = "ws"
    BY <1>2 DEF HttpdGivesUp, HandlerInv
  <2>2. HttpdTyped' /\ HandlerInv'
    BY <1>2, Numbers DEF HttpdGivesUp, HttpdTyped, HandlerInv, Idle
  <2>3. BcastTyped' /\ RemovalInv' /\ QueueTyped'
    BY <1>2 DEF HttpdGivesUp, BcastTyped, QueueTyped, RemovalInv
  <2>4. RestTyped'
    BY <1>2 DEF HttpdGivesUp, RestTyped
  <2>5. UNCHANGED <<clients, lock>> /\ httpd' = Idle
    BY <1>2 DEF HttpdGivesUp
  <2>6. CASE /\ httpd.do = "add" /\ UNCHANGED sessionVars
             /\ passed' = IF Listed(httpd.fd) THEN passed ELSE passed \cup {httpd.fd}
    <3>1. SessionTyped' /\ ListTyped'
      BY <2>1, <2>5, <2>6, SessionFrame DEF ListTyped
    <3>2. Agreement'
      BY <2>5, <2>6 DEF Agreement, ListedOnce, SocketListed, ListedSocket, Listed,
                        sessionVars, Idle
    <3> QED  BY <2>2, <2>3, <2>4, <3>1, <3>2
  <2>7. CASE httpd.do = "remove" /\ Drop(httpd.fd) /\ UNCHANGED passed
    <3>1. ListTyped'
      BY <2>5, <2>7 DEF ListTyped
    <3>2. SessionTyped' /\ Agreement'
      BY <2>1, <2>5, <2>7, DropEffect
    <3> QED  BY <2>2, <2>3, <2>4, <3>1, <3>2
  <2> QED  BY <1>2, <2>6, <2>7 DEF HttpdGivesUp
<1>3. CASE HttpdAdds
  <2>1. PICK f \in Fd : f = httpd.fd /\ session[f] = "ws" /\ List(f) /\ httpd.do = "add"
    BY <1>3 DEF HttpdAdds, HandlerInv
  <2>2. /\ clients' \in [Slot -> Number]
        /\ \A g \in Fd : Listed(g) => Listed(g)'
        /\ \A g \in Fd : g # f /\ Listed(g)' => Listed(g)
        /\ ListedOnce => ListedOnce'
    BY <2>1, ListEffect
  <2>3. SessionTyped' /\ RestTyped'
    BY <1>3, SessionFrame, RestFrame DEF HttpdAdds
  <2>4. passed' = IF Listed(f)' THEN passed ELSE passed \cup {f}
    BY <1>3, <2>1 DEF HttpdAdds, Listed
  <2>5. ListTyped'
    BY <1>3, <2>1, <2>2, <2>4 DEF HttpdAdds, ListTyped
  <2>6. HttpdTyped' /\ HandlerInv'
    BY <1>3, Numbers DEF HttpdAdds, HttpdTyped, HandlerInv, Idle
  <2>7. BcastTyped' /\ RemovalInv' /\ QueueTyped'
    BY <1>3 DEF HttpdAdds, BcastTyped, QueueTyped, RemovalInv
  <2>8. session' = session /\ unheard' = unheard
    BY <1>3 DEF HttpdAdds, sessionVars
  <2>9. SocketListed'
    <3> SUFFICES ASSUME NEW g \in Fd, session[g] = "ws", g \notin passed'
                 PROVE  Listed(g)'
      BY <2>8 DEF SocketListed
    <3>1. CASE g = f
      BY <2>1, <2>4, <3>1
    <3>2. CASE g # f
      <4>1. g \notin passed
        BY <2>4
      <4>2. Listed(g)
        BY <2>1, <3>2, <4>1 DEF Agreement, SocketListed
      <4> QED  BY <2>2, <4>2
    <3> QED  BY <3>1, <3>2
  <2>10. ListedSocket'
    BY <2>1, <2>2, <2>8 DEF Agreement, ListedSocket
  <2> QED  BY <2>2, <2>3, <2>5, <2>6, <2>7, <2>9, <2>10 DEF Agreement
<1>4. CASE HttpdRemoves
  <2>1. PICK f \in Fd : f = httpd.fd /\ Unlist(f)
    BY <1>4 DEF HttpdRemoves, HandlerInv
  <2>2. /\ clients' \in [Slot -> Number]
        /\ \A g \in Fd : g # f /\ Listed(g) => Listed(g)'
        /\ \A g \in Fd : Listed(g)' => Listed(g)
        /\ ListedOnce' /\ ~Listed(f)'
    BY <2>1, UnlistEffect DEF Agreement
  <2>3. Without(f) \in Seq(Fd)
    BY WithoutTyped DEF SessionTyped
  <2>4. SessionTyped'
    BY <1>4, <2>1, <2>3 DEF HttpdRemoves, SessionTyped
  <2>5. \A g \in Fd : session'[g] = IF g = f THEN "none" ELSE session[g]
    <3>1. session' = [session EXCEPT ![f] = "none"]
      BY <1>4, <2>1 DEF HttpdRemoves
    <3> QED  BY <2>1, <3>1 DEF SessionTyped
  <2>6. ListTyped'
    BY <1>4, <2>2 DEF HttpdRemoves, ListTyped
  <2>7. HttpdTyped' /\ HandlerInv'
    BY <1>4, Numbers DEF HttpdRemoves, HttpdTyped, HandlerInv, Idle
  <2>8. BcastTyped' /\ RemovalInv' /\ QueueTyped' /\ RestTyped'
    BY <1>4, RestFrame DEF HttpdRemoves, BcastTyped, QueueTyped, RemovalInv
  <2>9. unheard' = unheard /\ passed' = passed /\ httpd.do = "remove"
    BY <1>4 DEF HttpdRemoves
  <2>10. SocketListed'
    <3> SUFFICES ASSUME NEW g \in Fd, session'[g] = "ws", g \notin passed
                 PROVE  Listed(g)'
      BY <2>9 DEF SocketListed
    <3>1. g # f /\ session[g] = "ws"
      BY <2>5
    <3>2. Listed(g)
      BY <2>9, <3>1 DEF Agreement, SocketListed
    <3> QED  BY <2>2, <3>1, <3>2
  <2>11. ListedSocket'
    <3> SUFFICES ASSUME NEW g \in Fd, Listed(g)', g \notin unheard
                 PROVE  session'[g] = "ws"
      BY <2>9 DEF ListedSocket
    <3>1. g # f /\ Listed(g)
      BY <2>2
    <3> QED  BY <2>5, <3>1 DEF Agreement, ListedSocket
  <2> QED  BY <2>2, <2>4, <2>6, <2>7, <2>8, <2>10, <2>11 DEF Agreement
<1>5. CASE FileDone
  <2>1. HttpdTyped' /\ HandlerInv'
    BY <1>5, Numbers DEF FileDone, HttpdTyped, HandlerInv, Idle
  <2>2. Agreement'
    BY <1>5 DEF FileDone, Agreement, ListedOnce, SocketListed, ListedSocket, Listed,
                sessionVars, listVars, Idle
  <2>3. BcastTyped' /\ RemovalInv' /\ QueueTyped'
    BY <1>5 DEF FileDone, BcastTyped, QueueTyped, RemovalInv
  <2> QED  BY <1>5, <2>1, <2>2, <2>3, SessionFrame, ListFrame, RestFrame DEF FileDone
<1> QED  BY <1>1, <1>2, <1>3, <1>4, <1>5 DEF HttpdStep

\* What the broadcast task does next after a send is a number's business.
LEMMA AfterSendTyped ==
  ASSUME BcastTyped
  PROVE  /\ AfterSend \in [do : {"idle", "send"}, copy : [Slot -> Number], next : Slot]
<1>1. bcast.next \in Slot /\ bcast.copy \in [Slot -> Number]
  BY DEF BcastTyped
<1>2. bcast.next # MaxClients => bcast.next + 1 \in Slot
  BY <1>1, WebAssumption DEF Slot
<1>3. [bcast.copy EXCEPT ![bcast.next] = NoFd] \in [Slot -> Number]
  BY <1>1, Numbers
<1>4. PICK d \in {"idle", "send"}, n \in Slot :
        AfterSend = [bcast EXCEPT !.do = d, !.next = n, !.copy[bcast.next] = NoFd]
  BY <1>1, <1>2, Slots DEF AfterSend
<1>5. AfterSend = [bcast EXCEPT !.do = d, !.next = n, !.copy = [@ EXCEPT ![bcast.next] = NoFd]]
  BY <1>4
<1> QED  BY <1>3, <1>5 DEF BcastTyped

LEMMA BcastInv ==
  ASSUME Inv, BcastTakes \/ BcastStep
  PROVE  Inv'
<1> USE DEF Inv, Typed, Working
<1>1. CASE BcastTakes
  <2>1. SessionTyped' /\ RestTyped'
    BY <1>1, SessionFrame, RestFrame DEF BcastTakes
  <2>2. ListTyped'
    BY <1>1 DEF BcastTakes, ListTyped
  <2>3. HttpdTyped' /\ BcastTyped' /\ QueueTyped' /\ Working'
    BY <1>1 DEF BcastTakes, HttpdTyped, BcastTyped, QueueTyped, HandlerInv, RemovalInv, sessionVars
  <2>4. Agreement'
    BY <1>1, AgreementFrame DEF BcastTakes, sessionVars
  <2> QED  BY <2>1, <2>2, <2>3, <2>4
<1>2. ASSUME UNCHANGED <<sessionVars, listVars, httpd>>
      PROVE  SessionTyped' /\ ListTyped' /\ HttpdTyped' /\ HandlerInv' /\ Agreement'
  BY <1>2, SessionFrame, ListFrame, AgreementFrame
     DEF sessionVars, listVars, HttpdTyped, HandlerInv
<1>3. CASE BcastReceives
  <2>1. SessionTyped' /\ ListTyped' /\ HttpdTyped' /\ HandlerInv' /\ Agreement'
    BY <1>2, <1>3 DEF BcastReceives
  <2>2. QueueTyped'
    <3>1. queue \in Seq(Message) /\ queue # <<>> /\ queue' = Tail(queue)
      BY <1>3 DEF BcastReceives, QueueTyped
    <3>2. queue' \in Seq(Message) /\ Len(queue') = Len(queue) - 1
      BY <3>1, HeadTailProperties
    <3> QED  BY <3>1, <3>2, WebAssumption DEF QueueTyped
  <2>3. BcastTyped' /\ RemovalInv'
    BY <1>3 DEF BcastReceives, BcastTyped, RemovalInv
  <2> QED  BY <1>3, <2>1, <2>2, <2>3, RestFrame DEF BcastReceives
<1>4. CASE BcastGivesUp
  <2>1. SessionTyped' /\ ListTyped' /\ HttpdTyped' /\ HandlerInv' /\ Agreement'
    BY <1>2, <1>4 DEF BcastGivesUp
  <2>2. BcastTyped' /\ RemovalInv'
    <3>1. CASE bcast.do = "copy"
      <4>1. bcast' = Waiting
        BY <1>4, <3>1 DEF BcastGivesUp
      <4> QED  BY <4>1, Numbers, Slots DEF Waiting, BcastTyped, RemovalInv
    <3>2. CASE bcast.do # "copy"
      <4>1. bcast' = AfterSend
        BY <1>4, <3>2 DEF BcastGivesUp
      <4> QED  BY <4>1, AfterSendTyped DEF BcastTyped, RemovalInv
    <3> QED  BY <3>1, <3>2
  <2>3. QueueTyped' /\ RestTyped'
    BY <1>4 DEF BcastGivesUp, QueueTyped, RestTyped
  <2> QED  BY <2>1, <2>2, <2>3
<1>5. CASE BcastCopies
  <2>1. SessionTyped' /\ RestTyped'
    BY <1>5, SessionFrame, RestFrame DEF BcastCopies
  <2>2. ListTyped'
    BY <1>5 DEF BcastCopies, ListTyped
  <2>3. BcastTyped' /\ RemovalInv'
    BY <1>5, Slots DEF BcastCopies, BcastTyped, RemovalInv, ListTyped
  <2>4. HttpdTyped' /\ QueueTyped' /\ HandlerInv'
    BY <1>5 DEF BcastCopies, HttpdTyped, QueueTyped, HandlerInv, sessionVars
  <2>5. Agreement'
    BY <1>5, AgreementFrame DEF BcastCopies, sessionVars
  <2> QED  BY <2>1, <2>2, <2>3, <2>4, <2>5
<1>6. CASE Send
  <2>1. SessionTyped' /\ ListTyped' /\ HttpdTyped' /\ HandlerInv' /\ Agreement'
    BY <1>2, <1>6 DEF Send
  <2>2. bcast.copy[bcast.next] \in Number
    BY DEF BcastTyped
  <2>3. BcastTyped' /\ RemovalInv'
    <3>1. CASE bcast.copy[bcast.next] # NoFd /\ bcast' = [bcast EXCEPT !.do = "remove"]
      BY <2>2, <3>1 DEF BcastTyped, RemovalInv, Number
    <3>2. CASE bcast' = AfterSend
      BY <3>2, AfterSendTyped DEF BcastTyped, RemovalInv
    <3> QED  BY <1>6, <3>1, <3>2 DEF Send
  <2> QED  BY <1>6, <2>1, <2>3, RestFrame DEF Send, QueueTyped
<1>7. CASE BcastRemoves
  <2>1. PICK f \in Fd : f = bcast.copy[bcast.next] /\ Unlist(f)
    BY <1>7 DEF BcastRemoves, RemovalInv
  <2>2. /\ clients' \in [Slot -> Number]
        /\ \A g \in Fd : g # f /\ Listed(g) => Listed(g)'
        /\ \A g \in Fd : Listed(g)' => Listed(g)
        /\ ListedOnce'
    BY <2>1, UnlistEffect DEF Agreement
  <2>3. passed' = passed \cup {f} /\ bcast' = AfterSend
    BY <1>7, <2>1 DEF BcastRemoves
  <2>4. SessionTyped' /\ RestTyped'
    BY <1>7, SessionFrame, RestFrame DEF BcastRemoves
  <2>5. ListTyped'
    BY <1>7, <2>2, <2>3 DEF BcastRemoves, ListTyped
  <2>6. BcastTyped' /\ RemovalInv'
    BY <2>3, AfterSendTyped DEF BcastTyped, RemovalInv
  <2>7. HttpdTyped' /\ HandlerInv' /\ QueueTyped'
    BY <1>7 DEF BcastRemoves, HttpdTyped, HandlerInv, QueueTyped, sessionVars
  <2>8. session' = session /\ unheard' = unheard /\ httpd' = httpd
    BY <1>7 DEF BcastRemoves, sessionVars
  <2>9. SocketListed' /\ ListedSocket'
    BY <2>2, <2>3, <2>8 DEF Agreement, SocketListed, ListedSocket
  <2> QED  BY <2>2, <2>4, <2>5, <2>6, <2>7, <2>9 DEF Agreement
<1> QED  BY <1>1, <1>3, <1>4, <1>5, <1>6, <1>7 DEF BcastStep

LEMMA StopInv ==
  ASSUME Inv, Stop \/ SendAfterFree
  PROVE  Inv'
<1> USE DEF Inv, Typed, Working
<1>1. CASE StopHttpd
  <2>1. <<>> \in Seq(Fd)
    OBVIOUS
  <2>2. SessionTyped'
    BY <1>1, <2>1 DEF StopHttpd, SessionTyped
  <2>3. HandlerInv'
    BY <1>1 DEF StopHttpd, HandlerInv, Idle
  <2>4. /\ \A f \in Fd : session'[f] = "none"
        /\ unheard' = unheard \cup {f \in Fd : session[f] = "ws"}
        /\ clients' = clients /\ passed' = passed
    BY <1>1 DEF StopHttpd, listVars
  <2>5. Agreement'
    <3>1. SocketListed'
      BY <2>4 DEF SocketListed
    <3>2. ListedSocket'
      BY <2>4 DEF Agreement, ListedSocket, Listed
    <3> QED  BY <2>4, <3>1, <3>2 DEF Agreement, ListedOnce
  <2>6. ListTyped' /\ HttpdTyped' /\ BcastTyped' /\ RemovalInv' /\ QueueTyped' /\ RestTyped'
    BY <1>1, ListFrame
       DEF StopHttpd, HttpdTyped, BcastTyped, RemovalInv, QueueTyped, RestTyped, counters
  <2> QED  BY <2>2, <2>3, <2>5, <2>6
<1>2. CASE StopServer \/ SendAfterFree
  <2>1. UNCHANGED <<sessionVars, listVars, httpd, bcast, queue, counters, posted>>
        /\ server' \in {"null", "panic"}
    BY <1>2 DEF StopServer, SendAfterFree
  <2>2. RestTyped'
    BY <2>1 DEF RestTyped, counters
  <2>3. HttpdTyped' /\ HandlerInv' /\ BcastTyped' /\ RemovalInv' /\ QueueTyped'
    BY <2>1 DEF HttpdTyped, HandlerInv, BcastTyped, RemovalInv, QueueTyped, sessionVars
  <2>4. SessionTyped' /\ ListTyped'
    BY <2>1, SessionFrame, ListFrame
  <2>5. Agreement'
    BY <2>1, AgreementFrame DEF sessionVars, listVars
  <2> QED  BY <2>2, <2>3, <2>4, <2>5
<1>3. CASE StopBroadcast
  <2>1. BcastTyped' /\ RemovalInv'
    BY <1>3, Numbers, Slots DEF StopBroadcast, Waiting, BcastTyped, RemovalInv
  <2>2. HttpdTyped' /\ HandlerInv' /\ QueueTyped'
    BY <1>3 DEF StopBroadcast, HttpdTyped, HandlerInv, QueueTyped, sessionVars
  <2>3. SessionTyped' /\ ListTyped' /\ RestTyped'
    BY <1>3, SessionFrame, ListFrame, RestFrame DEF StopBroadcast
  <2>4. Agreement'
    BY <1>3, AgreementFrame DEF StopBroadcast, sessionVars, listVars
  <2> QED  BY <2>1, <2>2, <2>3, <2>4
<1> QED  BY <1>1, <1>2, <1>3 DEF Stop

LEMMA PublishInv ==
  ASSUME Inv, NEW m \in Message, Publish(m)
  PROVE  Inv'
<1> USE DEF Inv, Typed, Working
<1>1. QueueTyped'
  <2>1. queue \in Seq(Message) /\ queue' = Append(queue, m) /\ Len(queue) < Capacity
    BY DEF Publish, QueueTyped
  <2>2. queue' \in Seq(Message) /\ Len(queue') = Len(queue) + 1 /\ Len(queue) \in Nat
    BY <2>1
  <2> QED  BY <2>1, <2>2, WebAssumption DEF QueueTyped
<1>2. HttpdTyped' /\ HandlerInv' /\ BcastTyped' /\ RemovalInv'
  BY DEF Publish, HttpdTyped, HandlerInv, BcastTyped, RemovalInv, sessionVars
<1>3. SessionTyped' /\ ListTyped' /\ RestTyped'
  BY SessionFrame, ListFrame, RestFrame DEF Publish
<1>4. Agreement'
  BY AgreementFrame DEF Publish, sessionVars, listVars
<1> QED  BY <1>1, <1>2, <1>3, <1>4

LEMMA NextInv == Inv /\ [Next]_vars => Inv'
<1> SUFFICES ASSUME Inv, [Next]_vars PROVE Inv'
  OBVIOUS
<1>1. CASE UNCHANGED vars
  BY <1>1, SessionFrame, ListFrame, RestFrame, AgreementFrame
     DEF vars, Inv, Typed, Working, sessionVars, listVars, counters, HttpdTyped, HandlerInv,
         BcastTyped, RemovalInv, QueueTyped
<1>2. CASE Next
  BY <1>2, ConnectionsInv, HandlerTyped, HttpdInv, BcastInv, StopInv, PublishInv DEF Next
<1> QED  BY <1>1, <1>2

\* In every reachable state the variables have their types, and the list and
\* the connections agree, also while a handler is at work.
THEOREM WebInv == Spec => []Inv
<1> QED  BY InitInv, NextInv, PTL DEF Spec

\* The type invariant: the list, the queue and the copies keep their sizes.
THEOREM WebTyped == Spec => []TypeOK
<1>1. Inv => TypeOK
  BY TypeParts DEF Inv, Typed
<1> QED  BY <1>1, WebInv, PTL

\* A web socket that ws_add_client did not leave out and no failed send removed
\* is in the list; what is listed beyond that ended without the list being told:
\* without a CLOSE frame, or without the mutex (ws_add_client, ws_remove_client).
THEOREM WebListAgrees == Spec => []ListAgrees
<1>1. Inv => ListAgrees
  BY DEF Inv, Agreement, ListedOnce, SocketListed, ListedSocket, ListAgrees
<1> QED  BY <1>1, WebInv, PTL

-----------------------------------------------------------------------------
(***************************************************************************)
(* The codec.                                                              *)
(***************************************************************************)
\* The tables written out: their headers, and that no two headers share a command.
LEMMA SwitchTable ==
  /\ DOMAIN SwitchCommand = {"OUTP_STAT", "MEAS_VOLT_CONT", "MEAS_CURR_CONT"}
  /\ SwitchCommand["OUTP_STAT"] = "OUTPUT_STATE"
  /\ SwitchCommand["MEAS_VOLT_CONT"] = "MEAS_VOLT_CONT"
  /\ SwitchCommand["MEAS_CURR_CONT"] = "MEAS_CURR_CONT"
  BY DEF SwitchCommand

LEMMA QueryTable ==
  /\ DOMAIN QueryCommand = {"SOUR_VOLT_Q", "SOUR_CURR_Q", "SOUR_POW_Q", "SOUR_RES_Q",
                            "SOUR_FUNC_Q", "MEAS_VOLT_Q", "MEAS_CURR_Q"}
  /\ QueryCommand["SOUR_VOLT_Q"] = "SOUR_VOLT" /\ QueryCommand["SOUR_CURR_Q"] = "SOUR_CURR"
  /\ QueryCommand["SOUR_POW_Q"] = "SOUR_POW" /\ QueryCommand["SOUR_RES_Q"] = "SOUR_RES"
  /\ QueryCommand["SOUR_FUNC_Q"] = "SOUR_MODE"
  /\ QueryCommand["MEAS_VOLT_Q"] = "MEAS_VOLT" /\ QueryCommand["MEAS_CURR_Q"] = "MEAS_CURR"
  BY DEF QueryCommand

LEMMA NumberTable ==
  /\ DOMAIN NumberCommand = {"SOUR_VOLT", "SOUR_CURR", "SOUR_POW", "SOUR_RES", "BATT_LVP"}
  /\ NumberCommand["SOUR_VOLT"] = "SET_VOLTAGE" /\ NumberCommand["SOUR_CURR"] = "SET_CURRENT"
  /\ NumberCommand["SOUR_POW"] = "SET_POWER" /\ NumberCommand["SOUR_RES"] = "SET_RESISTANCE"
  /\ NumberCommand["BATT_LVP"] = "SET_LOW_VOLTAGE_PROTECTION"
  BY DEF NumberCommand

LEMMA PlainTable ==
  /\ DOMAIN PlainCommand = {"IDN_Q", "SYST_ERR_Q"}
  /\ PlainCommand["IDN_Q"] = "IDN" /\ PlainCommand["SYST_ERR_Q"] = "ERROR"
  BY DEF PlainCommand

LEMMA ModeTable ==
  /\ DOMAIN ModeNumber = {"VOLT", "CURR", "POW", "RES"}
  /\ ModeNumber["VOLT"] = 0 /\ ModeNumber["CURR"] = 1
  /\ ModeNumber["POW"] = 2 /\ ModeNumber["RES"] = 3
  BY DEF ModeNumber

\* The 8 bits of the channel give an 8-bit number back.
LEMMA ChannelBack ==
  ASSUME NEW n \in 1 .. 256
  PROVE  ChannelOf(n) + 1 = n
  BY DEF ChannelOf

\* Four decimals are enough for a value that is near a number that has four.
LEMMA DecimalsBack ==
  ASSUME NEW n \in Int, NEW v \in Int, v - 10 * n \in -4 .. 4
  PROVE  FourDecimals(v) = n
<1>1. CASE v >= 0
  <2>1. (v + 5) \div 10 = n
    OBVIOUS
  <2> QED  BY <1>1, <2>1 DEF FourDecimals
<1>2. CASE v < 0
  <2>1. (5 - v) \div 10 = -n
    OBVIOUS
  <2> QED  BY <1>2, <2>1 DEF FourDecimals
<1> QED  BY <1>1, <1>2

\* What a float below 1024 loses is less than the fourth decimal.
LEMMA FloatBack ==
  ASSUME NEW n \in Decimal \cap FinelyRead
  PROVE  /\ n \in Int /\ Float[n] \in Int /\ Float[n] - 10 * n \in -4 .. 4
         /\ FourDecimals(Float[n]) = n
  BY FloatAssumption, DecimalsBack

\* A mode's name comes back from its number.
LEMMA ModeBack ==
  ASSUME NEW w \in DOMAIN ModeNumber
  PROVE  ModeName(100000 * ModeNumber[w]) = w
<1>1. ModeNumber[w] \in 0 .. 3
  BY ModeTable
<1>2. 100000 * ModeNumber[w] >= 0 /\ (100000 * ModeNumber[w]) \div 100000 = ModeNumber[w]
  BY <1>1
<1>3. \A v \in DOMAIN ModeNumber : ModeNumber[v] = ModeNumber[w] => v = w
  BY ModeTable
<1> QED  BY <1>2, <1>3 DEF ModeName

\* A header is in one table only, and so is a command.
LEMMA HeadersApart ==
  /\ DOMAIN SwitchCommand \cap DOMAIN PlainCommand = {}
  /\ DOMAIN QueryCommand \cap (DOMAIN PlainCommand \cup DOMAIN SwitchCommand) = {}
  /\ DOMAIN NumberCommand
       \cap (DOMAIN PlainCommand \cup DOMAIN SwitchCommand \cup DOMAIN QueryCommand) = {}
  /\ "SOUR_FUNC" \notin DOMAIN PlainCommand \cup DOMAIN SwitchCommand
                        \cup DOMAIN QueryCommand \cup DOMAIN NumberCommand
<1>1. DOMAIN SwitchCommand \cap DOMAIN PlainCommand = {}
  BY SwitchTable, PlainTable
<1>2. DOMAIN QueryCommand \cap (DOMAIN PlainCommand \cup DOMAIN SwitchCommand) = {}
  BY SwitchTable, PlainTable, QueryTable
<1>3. DOMAIN NumberCommand
        \cap (DOMAIN PlainCommand \cup DOMAIN SwitchCommand \cup DOMAIN QueryCommand) = {}
  BY SwitchTable, PlainTable, QueryTable, NumberTable
<1>4. "SOUR_FUNC" \notin DOMAIN PlainCommand \cup DOMAIN SwitchCommand
                         \cup DOMAIN QueryCommand \cup DOMAIN NumberCommand
  BY SwitchTable, PlainTable, QueryTable, NumberTable
<1> QED  BY <1>1, <1>2, <1>3, <1>4

\* The arms of scpi_decode.
LEMMA DecodeSwitch ==
  ASSUME NEW line, line.header \in DOMAIN SwitchCommand, line.word # "none"
  PROVE  Decode(line) = [cmd |-> SwitchCommand[line.header], channel |-> ChannelOf(line.ch),
                         value |-> IF line.word = "ON" THEN 100000 ELSE 0]
<1>1. /\ line.header \notin DOMAIN PlainCommand /\ line.header # "SOUR_FUNC"
      /\ line.header \notin DOMAIN QueryCommand /\ line.header \notin DOMAIN NumberCommand
  BY HeadersApart
<1> QED  BY <1>1 DEF Decode

LEMMA DecodeMode ==
  ASSUME NEW line, line.header = "SOUR_FUNC", line.word \in DOMAIN ModeNumber
  PROVE  Decode(line) = [cmd |-> "SET_MODE", channel |-> ChannelOf(line.ch),
                         value |-> 100000 * ModeNumber[line.word]]
<1>1. /\ line.header \notin DOMAIN PlainCommand /\ line.header \notin DOMAIN SwitchCommand
      /\ line.header \notin DOMAIN QueryCommand /\ line.header \notin DOMAIN NumberCommand
  BY HeadersApart
<1> QED  BY <1>1 DEF Decode

LEMMA DecodeQuery ==
  ASSUME NEW line, line.header \in DOMAIN QueryCommand
  PROVE  Decode(line) = [cmd |-> QueryCommand[line.header], channel |-> ChannelOf(line.ch),
                         value |-> 0]
<1>1. /\ line.header \notin DOMAIN PlainCommand /\ line.header # "SOUR_FUNC"
      /\ line.header \notin DOMAIN SwitchCommand /\ line.header \notin DOMAIN NumberCommand
  BY HeadersApart
<1> QED  BY <1>1 DEF Decode

LEMMA DecodeNumber ==
  ASSUME NEW line, line.header \in DOMAIN NumberCommand, line.word = "none"
  PROVE  Decode(line) = [cmd |-> NumberCommand[line.header], channel |-> ChannelOf(line.ch),
                         value |-> Float[line.number]]
<1>1. /\ line.header \notin DOMAIN PlainCommand /\ line.header # "SOUR_FUNC"
      /\ line.header \notin DOMAIN SwitchCommand /\ line.header \notin DOMAIN QueryCommand
  BY HeadersApart
<1> QED  BY <1>1 DEF Decode

\* The arms of scpi_encode, for the command of a header.
LEMMA EncodeSwitch ==
  ASSUME NEW msg, NEW h \in DOMAIN SwitchCommand, msg.cmd = SwitchCommand[h]
  PROVE  /\ Encode(msg) = LineOf(h, msg.channel + 1, IF msg.value # 0 THEN "ON" ELSE "OFF", 0)
         /\ msg.cmd # "none"
<1>1. /\ InTable(SwitchCommand, msg.cmd) /\ ~InTable(PlainCommand, msg.cmd)
      /\ ~InTable(QueryCommand, msg.cmd) /\ ~InTable(NumberCommand, msg.cmd)
      /\ msg.cmd # "SET_MODE" /\ msg.cmd # "none"
  BY SwitchTable, PlainTable, QueryTable, NumberTable DEF InTable
<1>2. HeaderOf(SwitchCommand, msg.cmd) = h
  BY SwitchTable DEF HeaderOf
<1> QED  BY <1>1, <1>2 DEF Encode

LEMMA EncodeMode ==
  ASSUME NEW msg, msg.cmd = "SET_MODE"
  PROVE  Encode(msg) = LineOf("SOUR_FUNC", msg.channel + 1, ModeName(msg.value), 0)
<1>1. /\ ~InTable(SwitchCommand, msg.cmd) /\ ~InTable(PlainCommand, msg.cmd)
      /\ ~InTable(QueryCommand, msg.cmd) /\ ~InTable(NumberCommand, msg.cmd)
  BY SwitchTable, PlainTable, QueryTable, NumberTable DEF InTable
<1> QED  BY <1>1 DEF Encode

LEMMA EncodeQuery ==
  ASSUME NEW msg, NEW h \in DOMAIN QueryCommand, msg.cmd = QueryCommand[h]
  PROVE  Encode(msg) = LineOf(h, msg.channel + 1, "none", 0) /\ msg.cmd # "none"
<1>1. /\ InTable(QueryCommand, msg.cmd) /\ ~InTable(PlainCommand, msg.cmd)
      /\ ~InTable(SwitchCommand, msg.cmd) /\ ~InTable(NumberCommand, msg.cmd)
      /\ msg.cmd # "SET_MODE" /\ msg.cmd # "none"
  BY SwitchTable, PlainTable, QueryTable, NumberTable DEF InTable
<1>2. HeaderOf(QueryCommand, msg.cmd) = h
  BY QueryTable DEF HeaderOf
<1> QED  BY <1>1, <1>2 DEF Encode

LEMMA EncodeNumber ==
  ASSUME NEW msg, NEW h \in DOMAIN NumberCommand, msg.cmd = NumberCommand[h]
  PROVE  /\ Encode(msg) = LineOf(h, msg.channel + 1, "none", FourDecimals(msg.value))
         /\ msg.cmd # "none"
<1>1. /\ InTable(NumberCommand, msg.cmd) /\ ~InTable(PlainCommand, msg.cmd)
      /\ ~InTable(SwitchCommand, msg.cmd) /\ ~InTable(QueryCommand, msg.cmd)
      /\ msg.cmd # "SET_MODE" /\ msg.cmd # "none"
  BY SwitchTable, PlainTable, QueryTable, NumberTable DEF InTable
<1>2. HeaderOf(NumberCommand, msg.cmd) = h
  BY NumberTable DEF HeaderOf
<1> QED  BY <1>1, <1>2 DEF Encode

\* scpi_encode undoes scpi_decode: every line that is well formed, with a
\* channel of 1 to 256 and a number below 1024, is decoded, and its message
\* stands for the same line although the number went through a C float.
THEOREM RoundTrip ==
  ASSUME NEW line \in Line, WellFormed(line)
  PROVE  Decode(line) # NoMsg /\ Encode(Decode(line)) = line
<1>1. line = LineOf(line.header, line.ch, line.word, line.number)
  BY DEF Line, LineOf
<1>2. ChannelOf(line.ch) + 1 = line.ch
  BY ChannelBack DEF WellFormed
<1>3. NoMsg.cmd = "none"
  BY DEF NoMsg
<1>4. CASE /\ line.header \in DOMAIN SwitchCommand
           /\ line.word \in {"ON", "OFF"} /\ line.number = 0
  <2> DEFINE v == IF line.word = "ON" THEN 100000 ELSE 0
             msg == [cmd |-> SwitchCommand[line.header], channel |-> ChannelOf(line.ch),
                     value |-> v]
  <2>1. Decode(line) = msg
    BY <1>4, DecodeSwitch
  <2>2. /\ Encode(msg) = LineOf(line.header, line.ch, IF msg.value # 0 THEN "ON" ELSE "OFF", 0)
        /\ msg.cmd # "none"
    BY <1>2, <1>4, EncodeSwitch
  <2>3. (IF msg.value # 0 THEN "ON" ELSE "OFF") = line.word
    BY <1>4
  <2> QED  BY <1>1, <1>3, <1>4, <2>1, <2>2, <2>3
<1>5. CASE line.header = "SOUR_FUNC" /\ line.word \in DOMAIN ModeNumber /\ line.number = 0
  <2> DEFINE msg == [cmd |-> "SET_MODE", channel |-> ChannelOf(line.ch),
                     value |-> 100000 * ModeNumber[line.word]]
  <2>1. Decode(line) = msg
    BY <1>5, DecodeMode
  <2>2. Encode(msg) = LineOf("SOUR_FUNC", line.ch, ModeName(msg.value), 0)
    BY <1>2, EncodeMode
  <2>3. ModeName(msg.value) = line.word
    BY <1>5, ModeBack
  <2> QED  BY <1>1, <1>3, <1>5, <2>1, <2>2, <2>3
<1>6. CASE line.header \in DOMAIN QueryCommand /\ line.word = "none" /\ line.number = 0
  <2> DEFINE msg == [cmd |-> QueryCommand[line.header], channel |-> ChannelOf(line.ch),
                     value |-> 0]
  <2>1. Decode(line) = msg
    BY <1>6, DecodeQuery
  <2>2. Encode(msg) = LineOf(line.header, line.ch, "none", 0) /\ msg.cmd # "none"
    BY <1>2, <1>6, EncodeQuery
  <2> QED  BY <1>1, <1>3, <1>6, <2>1, <2>2
<1>7. CASE /\ line.header \in DOMAIN NumberCommand /\ line.word = "none"
           /\ line.number \in FinelyRead
  <2> DEFINE msg == [cmd |-> NumberCommand[line.header], channel |-> ChannelOf(line.ch),
                     value |-> Float[line.number]]
  <2>1. Decode(line) = msg
    BY <1>7, DecodeNumber
  <2>2. /\ Encode(msg) = LineOf(line.header, line.ch, "none", FourDecimals(msg.value))
        /\ msg.cmd # "none"
    BY <1>2, <1>7, EncodeNumber
  <2>3. FourDecimals(msg.value) = line.number
    BY <1>7, FloatBack DEF Line
  <2> QED  BY <1>1, <1>3, <1>7, <2>1, <2>2, <2>3
<1> QED  BY <1>4, <1>5, <1>6, <1>7 DEF WellFormed

\* Rounding to four decimals moves a value by at most half of the last of them.
LEMMA DecimalsClose ==
  ASSUME NEW v \in Int
  PROVE  FourDecimals(v) \in Int /\ v - 10 * FourDecimals(v) \in -5 .. 5
<1>1. CASE v >= 0
  <2>1. FourDecimals(v) = (v + 5) \div 10
    BY <1>1 DEF FourDecimals
  <2> QED  BY <1>1, <2>1
<1>2. CASE v < 0
  <2>1. FourDecimals(v) = -((5 - v) \div 10)
    BY <1>2 DEF FourDecimals
  <2> QED  BY <1>2, <2>1
<1> QED  BY <1>1, <1>2

\* A setting written as a line and read again is the same setting of the same
\* channel, less than a fourth decimal away: half of it by the rounding of
\* %.4f, the rest by the float it is read into.  Writing it once more changes
\* nothing.  Settings from 1024 up are left out (scpi_encode, scpi_decode).
THEOREM SettingEcho ==
  ASSUME NEW msg \in Msg, NEW h \in DOMAIN NumberCommand, msg.cmd = NumberCommand[h],
         FourDecimals(msg.value) \in Decimal \cap FinelyRead
  PROVE  LET again == Decode(Encode(msg)) IN
         /\ again.cmd = msg.cmd /\ again.channel = msg.channel
         /\ again.value \in Int /\ msg.value - again.value \in -9 .. 9
         /\ Encode(again) = Encode(msg)
<1> DEFINE n == FourDecimals(msg.value)
           line == LineOf(h, msg.channel + 1, "none", n)
<1>1. msg.channel \in 0 .. 255 /\ msg.value \in Int
  BY DEF Msg
<1>2. n \in Int /\ msg.value - 10 * n \in -5 .. 5
  BY <1>1, DecimalsClose
<1>3. Encode(msg) = line
  BY EncodeNumber
<1>4. line.header = h /\ line.ch = msg.channel + 1 /\ line.word = "none" /\ line.number = n
  BY DEF LineOf
<1>5. n \in Decimal \cap FinelyRead
  OBVIOUS
<1>6. line \in Line /\ WellFormed(line)
  <2>1. msg.channel + 1 \in 1 .. 256
    BY <1>1
  <2>2. h \in Header /\ "none" \in Word
    BY DEF Header, Word
  <2>3. line \in Line
    BY <1>5, <2>1, <2>2 DEF Line, LineOf
  <2> QED  BY <1>4, <1>5, <2>1, <2>3 DEF WellFormed
<1>7. ChannelOf(msg.channel + 1) = msg.channel
  BY <1>1 DEF ChannelOf
<1> HIDE DEF line, n
<1>8. Decode(line) = [cmd |-> msg.cmd, channel |-> msg.channel, value |-> Float[n]]
  BY <1>4, <1>7, DecodeNumber
<1>9. Encode(Decode(line)) = line
  BY <1>6, RoundTrip
<1>10. Float[n] \in Int /\ Float[n] - 10 * n \in -4 .. 4
  BY <1>5, FloatBack
<1>11. msg.value - Float[n] \in -9 .. 9
  BY <1>1, <1>2, <1>10
<1> QED  BY <1>3, <1>8, <1>9, <1>10, <1>11

\* The last command posted was decoded from its line.
PostedInv == posted # NotPosted => posted.line \in Line /\ posted.msg = Decode(posted.line)

\* What a POST publishes is the message its line stands for, whatever the
\* bodies are, for every one of them that has a channel of 1 to 256 and a number
\* below 1024; of the others it says nothing (scpi_command_handler).
THEOREM WebPosted == Spec => []PostedAsWritten
<1>1. Init => PostedInv
  BY DEF Init, PostedInv
<1>2. PostedInv /\ [Next]_vars => PostedInv'
  <2> SUFFICES ASSUME PostedInv, [Next]_vars PROVE PostedInv'
    OBVIOUS
  <2>1. CASE posted' = posted
    BY <2>1 DEF PostedInv
  <2>2. CASE posted' # posted
    <3>1. PICK f \in Fd, line \in Body : Post(f, line)
      BY <2>2 DEF Next, vars, Connections, Purge, Connect, Fail, Handler, Upgrade, CloseFrame,
                  DiscardFrame, StaticFile, HttpdTakes, HttpdStep, HttpdGivesUp, HttpdAdds,
                  HttpdRemoves, FileDone, Publish, BcastTakes, BcastStep, BcastReceives,
                  BcastGivesUp, BcastCopies, Send, BcastRemoves, SendAfterFree, Stop, StopHttpd,
                  StopServer, StopBroadcast
    <3>2. posted' = [line |-> line, msg |-> Decode(line)]
      BY <2>2, <3>1 DEF Post
    <3> QED  BY <3>2, WebAssumption DEF PostedInv
  <2> QED  BY <2>1, <2>2
<1>3. PostedInv => PostedAsWritten
  BY RoundTrip DEF PostedInv, PostedAsWritten
<1> QED  BY <1>1, <1>2, <1>3, PTL DEF Spec
=============================================================================
