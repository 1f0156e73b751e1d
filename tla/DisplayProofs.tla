--------------------------- MODULE DisplayProofs ---------------------------
(***************************************************************************)
(* The cutoff that the display shows is the one that the controller holds  *)
(* or will hold: for any number of channels, any lengths of the queues,    *)
(* any numbers that are typed and any interleaving of touches, clients,    *)
(* polls and failed requests.  Then the types of what is shown, of what    *)
(* waits in both queues and of what the controller holds.                  *)
(***************************************************************************)
EXTENDS Display, QueueLemmas

\* What the display and the controller keep of the cutoffs, and the requests
\* that wait between them.
DialOK ==
  /\ dialed \in [Channel -> [armed : BOOLEAN, threshold : 0 .. CutoffMax]]
  /\ \/ pad = Closed
     \/ pad \in [asks : {"setpoint"}, ch : Channel, max : Nat]
     \/ pad \in [asks : {"cutoff"}, ch : Channel, max : {CutoffMax}]
  /\ cutoff \in [Channel -> Nat]
  /\ requests \in Seq(Message)
  /\ astray \subseteq Channel

\* The commands about the cutoff of a channel.
CutoffOf(c) == {m \in Message : m.cmd = "cutoff" /\ m.ch = c}

\* The controller will hold the cutoff of channel c that is dialed as s, once
\* it has taken the requests q.
Heading(q, c, held, s) ==
  \E w : Follows(q, CutoffOf(c), held, w) /\ Effective(w) = Effective(Said(s))

HeadingInv == \A c \in Channel \ astray : Heading(requests, c, cutoff[c], dialed[c])

-----------------------------------------------------------------------------
\* The channels are numbers, and there is one.
LEMMA Channels == NumChannels \in Nat \ {0} /\ Channel \subseteq Nat /\ 0 \in Channel
  BY DisplayAssumption DEF Channel

\* A command that is well formed.
LEMMA CommandTyped ==
  ASSUME NEW cmd \in Kind, NEW c \in Channel, NEW v \in Nat
  PROVE  /\ Command(cmd, c, v) \in Message
         /\ Command(cmd, c, v).cmd = cmd /\ Command(cmd, c, v).ch = c
         /\ Command(cmd, c, v).value = v
  BY DEF Command, Message

LEMMA OwnTyped == Own \in Message /\ Own.cmd = "own"
<1>1. "own" \in Kind
  BY DEF Kind
<1> QED  BY <1>1, Channels, CommandTyped DEF Own

\* The limits and commands of the modes that can be selected.
LEMMA ModesTyped ==
  ASSUME NEW k \in Selectable
  PROVE  /\ MaxOf[k + 1] \in Nat
         /\ Setpoint[k + 1] \in Kind /\ Setpoint[k + 1] # "cutoff"
<1>1. k = 0 \/ k = 1 \/ k = 2 \/ k = 3
  BY DEF Selectable
<1>2. CASE k = 0
  <2>1. k + 1 = 1
    BY <1>2
  <2>2. MaxOf[1] \in Nat /\ Setpoint[1] \in Kind /\ Setpoint[1] # "cutoff"
    BY DEF MaxOf, Setpoint, Kind
  <2> QED  BY <2>1, <2>2, Zenon
<1>3. CASE k = 1
  <2>1. k + 1 = 2
    BY <1>3
  <2>2. MaxOf[2] \in Nat /\ Setpoint[2] \in Kind /\ Setpoint[2] # "cutoff"
    BY DEF MaxOf, Setpoint, Kind
  <2> QED  BY <2>1, <2>2, Zenon
<1>4. CASE k = 2
  <2>1. k + 1 = 3
    BY <1>4
  <2>2. MaxOf[3] \in Nat /\ Setpoint[3] \in Kind /\ Setpoint[3] # "cutoff"
    BY DEF MaxOf, Setpoint, Kind
  <2> QED  BY <2>1, <2>2, Zenon
<1>5. CASE k = 3
  <2>1. k + 1 = 4
    BY <1>5
  <2>2. MaxOf[4] \in Nat /\ Setpoint[4] \in Kind /\ Setpoint[4] # "cutoff"
    BY DEF MaxOf, Setpoint, Kind
  <2> QED  BY <2>1, <2>2, Zenon
<1> QED  BY <1>1, <1>2, <1>3, <1>4, <1>5

\* What is typed is a number, and for the cutoff at most its limit.
LEMMA ClampTyped ==
  ASSUME NEW x \in Typed, NEW c \in Channel, NEW max \in Nat, pad.max = max
  PROVE  Clamp(x) \in 0 .. max
<1>1. x \in Nat
  BY DisplayAssumption
<1> QED  BY <1>1 DEF Clamp

-----------------------------------------------------------------------------
\* A message that says nothing of cutoffs, offered to the controller's queue.
LEMMA OfferOther ==
  ASSUME NEW q \in Seq(Message), NEW m \in Message, m.cmd # "cutoff"
  PROVE  /\ Offer(q, m, LoadCapacity) \in Seq(Message)
         /\ \A c, held, s : Heading(q, c, held, s) => Heading(Offer(q, m, LoadCapacity), c, held, s)
<1>1. Offer(q, m, LoadCapacity) = q \/ Offer(q, m, LoadCapacity) = Append(q, m)
  BY DEF Offer
<1>2. Append(q, m) \in Seq(Message)
  BY AppendProperties
<1>3. ASSUME NEW c, NEW held, NEW s, Heading(q, c, held, s)
      PROVE  Heading(Append(q, m), c, held, s)
  <2>1. PICK w : Follows(q, CutoffOf(c), held, w) /\ Effective(w) = Effective(Said(s))
    BY <1>3 DEF Heading
  <2>2. m \notin CutoffOf(c)
    BY DEF CutoffOf
  <2>3. Follows(Append(q, m), CutoffOf(c), held, w)
    BY <2>1, <2>2, FollowsAppendOther
  <2> QED  BY <2>1, <2>3 DEF Heading
<1> QED  BY <1>1, <1>2, <1>3

\* The steps that offer such a message and leave the cutoffs alone.
LEMMA StepOther ==
  ASSUME DialOK, HeadingInv, NEW m \in Message, m.cmd # "cutoff",
         requests' = Offer(requests, m, LoadCapacity), UNCHANGED <<dialed, cutoff, astray>>
  PROVE  requests' \in Seq(Message) /\ HeadingInv'
<1>1. requests \in Seq(Message)
  BY DEF DialOK
<1>2. PICK q : q = requests'
  OBVIOUS
<1>3. q \in Seq(Message) /\ \A c \in Channel \ astray : Heading(q, c, cutoff[c], dialed[c])
  BY <1>1, <1>2, OfferOther DEF HeadingInv
<1>4. \A c \in Channel \ astray' : Heading(requests', c, cutoff'[c], dialed'[c])
  BY <1>2, <1>3
<1> QED  BY <1>2, <1>3, <1>4 DEF HeadingInv, Heading, Follows

\* A command about the cutoff of a channel, of what is dialed now.
LEMMA StepCutoff ==
  ASSUME DialOK, HeadingInv, NEW c \in Channel, NEW v \in Nat, PublishCutoff(c, v),
         \A e \in Channel \ {c} : dialed'[e] = dialed[e],
         Effective(v) = Effective(Said(dialed'[c])), cutoff' = cutoff
  PROVE  requests' \in Seq(Message) /\ astray' \subseteq Channel /\ HeadingInv'
<1> DEFINE m == Command("cutoff", c, v)
<1>1. /\ requests \in Seq(Message) /\ astray \subseteq Channel
      /\ \A e \in Channel \ astray : Heading(requests, e, cutoff[e], dialed[e])
  BY DEF DialOK, HeadingInv
<1>2. m \in Message /\ m.cmd = "cutoff" /\ m.ch = c /\ m.value = v
  <2>1. "cutoff" \in Kind
    BY DEF Kind
  <2> QED  BY <2>1, CommandTyped
<1>3. /\ requests' = IF Len(requests) < LoadCapacity THEN Append(requests, m) ELSE requests
      /\ astray' = IF Len(requests) < LoadCapacity THEN astray \ {c} ELSE astray \cup {c}
  BY DEF PublishCutoff, PublishCommand, Offer
<1> HIDE DEF m
<1>4. PICK q, u, d : q = requests' /\ u = astray' /\ d = dialed'
  OBVIOUS
<1>5. q \in Seq(Message) /\ u \subseteq Channel
  BY <1>1, <1>2, <1>3, <1>4, AppendProperties
<1>6. ASSUME NEW e \in Channel \ u PROVE Heading(q, e, cutoff[e], d[e])
  <2>1. CASE Len(requests) < LoadCapacity
    <3>1. q = Append(requests, m) /\ u = astray \ {c}
      BY <1>3, <1>4, <2>1
    <3>2. CASE e = c
      <4>1. m \in CutoffOf(c)
        BY <1>2 DEF CutoffOf
      <4>2. Follows(q, CutoffOf(e), cutoff[e], m.value)
        BY <1>1, <3>1, <3>2, <4>1, FollowsAppendSet
      <4>3. Effective(m.value) = Effective(Said(d[e]))
        BY <1>2, <1>4, <3>2
      <4> QED  BY <4>2, <4>3 DEF Heading
    <3>3. CASE e # c
      <4>1. m \notin CutoffOf(e)
        BY <1>2, <3>3 DEF CutoffOf
      <4>2. d[e] = dialed[e] /\ Heading(requests, e, cutoff[e], dialed[e])
        BY <1>1, <1>4, <1>6, <3>1, <3>3
      <4>3. PICK w : /\ Follows(requests, CutoffOf(e), cutoff[e], w)
                     /\ Effective(w) = Effective(Said(d[e]))
        BY <4>2 DEF Heading
      <4>4. Follows(q, CutoffOf(e), cutoff[e], w)
        BY <1>1, <3>1, <4>1, <4>3, FollowsAppendOther
      <4> QED  BY <4>3, <4>4 DEF Heading
    <3> QED  BY <3>2, <3>3
  <2>2. CASE ~(Len(requests) < LoadCapacity)
    <3>1. q = requests /\ u = astray \cup {c}
      BY <1>3, <1>4, <2>2
    <3>2. e # c /\ e \notin astray
      BY <1>6, <3>1
    <3>3. d[e] = dialed[e]
      BY <1>4, <3>2
    <3> QED  BY <1>1, <3>1, <3>2, <3>3
  <2> QED  BY <2>1, <2>2
<1>7. \A e \in Channel \ astray' : Heading(requests', e, cutoff'[e], dialed'[e])
  BY <1>4, <1>6
<1> QED  BY <1>4, <1>5, <1>7 DEF HeadingInv, Heading, Follows

-----------------------------------------------------------------------------
\* A channel whose cutoff is touched.
LEMMA ToggleStep ==
  ASSUME DialOK, HeadingInv, NEW c \in Channel, ToggleCutoff(c)
  PROVE  DialOK' /\ HeadingInv'
<1>1. /\ dialed' = [dialed EXCEPT ![c].armed = ~@] /\ PublishCutoff(c, Said(dialed'[c]))
      /\ pad' = pad /\ cutoff' = cutoff
  BY DEF ToggleCutoff, Touched, loadVars
<1>2. dialed \in [Channel -> [armed : BOOLEAN, threshold : 0 .. CutoffMax]]
  BY DEF DialOK
<1>3. /\ dialed' \in [Channel -> [armed : BOOLEAN, threshold : 0 .. CutoffMax]]
      /\ \A e \in Channel \ {c} : dialed'[e] = dialed[e]
  BY <1>1, <1>2
<1>4. Said(dialed'[c]) \in Nat
  BY <1>3 DEF Said, Disabled, CutoffMax
<1>5. PICK v : v = Said(dialed'[c])
  OBVIOUS
<1>6. requests' \in Seq(Message) /\ astray' \subseteq Channel /\ HeadingInv'
  BY <1>1, <1>3, <1>4, <1>5, StepCutoff
<1> QED  BY <1>1, <1>3, <1>6 DEF DialOK

\* A threshold that is confirmed on the numpad.
LEMMA ConfirmStep ==
  ASSUME DialOK, HeadingInv, NEW x \in Typed, ConfirmCutoff(x)
  PROVE  DialOK' /\ HeadingInv'
<1> DEFINE c == pad.ch
           v == Clamp(x)
<1>1. c \in Channel /\ pad.max = CutoffMax
  BY DEF DialOK, ConfirmCutoff, Closed
<1>2. v \in 0 .. CutoffMax
  BY <1>1, ClampTyped DEF CutoffMax
<1>3. /\ dialed' = [dialed EXCEPT ![c].threshold = v] /\ pad' = Closed /\ cutoff' = cutoff
      /\ IF dialed[c].armed THEN PublishCutoff(c, v) ELSE UNCHANGED <<busVars, astray>>
  BY DEF ConfirmCutoff, Touched, loadVars
<1> HIDE DEF c, v
<1>4. dialed \in [Channel -> [armed : BOOLEAN, threshold : 0 .. CutoffMax]]
  BY DEF DialOK
<1>5. /\ dialed' \in [Channel -> [armed : BOOLEAN, threshold : 0 .. CutoffMax]]
      /\ \A e \in Channel \ {c} : dialed'[e] = dialed[e]
      /\ dialed'[c].armed = dialed[c].armed /\ dialed'[c].threshold = v
  BY <1>1, <1>2, <1>3, <1>4
<1>6. CASE dialed[c].armed
  <2>1. PublishCutoff(c, v) /\ v \in Nat /\ Effective(v) = Effective(Said(dialed'[c]))
    BY <1>2, <1>3, <1>5, <1>6 DEF Said, CutoffMax
  <2>2. requests' \in Seq(Message) /\ astray' \subseteq Channel /\ HeadingInv'
    BY <1>1, <1>3, <1>5, <2>1, StepCutoff
  <2> QED  BY <1>3, <1>5, <2>2 DEF DialOK
<1>7. CASE ~dialed[c].armed
  <2>1. requests' = requests /\ astray' = astray
    BY <1>3, <1>7 DEF busVars
  <2>2. \A e \in Channel : Said(dialed'[e]) = Said(dialed[e])
    BY <1>5, <1>7 DEF Said
  <2>3. HeadingInv'
    BY <1>3, <2>1, <2>2 DEF HeadingInv, Heading
  <2> QED  BY <1>3, <1>5, <2>1, <2>3 DEF DialOK
<1> QED  BY <1>6, <1>7

\* Another client's cutoff: from now on the display's says nothing of the channel,
\* unless the command was lost.
LEMMA RemoteStep ==
  ASSUME DialOK, HeadingInv, NEW c \in Channel, NEW x \in Typed, RemoteCutoff(c, x)
  PROVE  DialOK' /\ HeadingInv'
<1> DEFINE m == Command("cutoff", c, x)
<1>1. /\ requests \in Seq(Message) /\ astray \subseteq Channel
      /\ \A e \in Channel \ astray : Heading(requests, e, cutoff[e], dialed[e])
  BY DEF DialOK, HeadingInv
<1>2. m \in Message /\ m.cmd = "cutoff" /\ m.ch = c
  <2>1. "cutoff" \in Kind /\ x \in Nat
    BY DisplayAssumption DEF Kind
  <2> QED  BY <2>1, CommandTyped
<1>3. /\ requests' = IF Len(requests) < LoadCapacity THEN Append(requests, m) ELSE requests
      /\ astray' = IF Len(requests) < LoadCapacity THEN astray \cup {c} ELSE astray
      /\ UNCHANGED <<dialed, pad, cutoff>>
  BY DEF RemoteCutoff, PublishCommand, Offer, displayVars, loadVars
<1> HIDE DEF m
<1>4. PICK q, u : q = requests' /\ u = astray'
  OBVIOUS
<1>5. q \in Seq(Message) /\ u \subseteq Channel
  BY <1>1, <1>2, <1>3, <1>4, AppendProperties
<1>6. ASSUME NEW e \in Channel \ u PROVE Heading(q, e, cutoff[e], dialed[e])
  <2>1. CASE Len(requests) < LoadCapacity
    <3>1. q = Append(requests, m) /\ e # c /\ e \notin astray
      BY <1>3, <1>4, <1>6, <2>1
    <3>2. m \notin CutoffOf(e)
      BY <1>2, <3>1 DEF CutoffOf
    <3>3. PICK w : /\ Follows(requests, CutoffOf(e), cutoff[e], w)
                   /\ Effective(w) = Effective(Said(dialed[e]))
      BY <1>1, <3>1 DEF Heading
    <3>4. Follows(q, CutoffOf(e), cutoff[e], w)
      BY <1>1, <3>1, <3>2, <3>3, FollowsAppendOther
    <3> QED  BY <3>3, <3>4 DEF Heading
  <2>2. CASE ~(Len(requests) < LoadCapacity)
    BY <1>1, <1>3, <1>4, <2>2
  <2> QED  BY <2>1, <2>2
<1>7. \A e \in Channel \ astray' : Heading(requests', e, cutoff'[e], dialed'[e])
  BY <1>3, <1>4, <1>6
<1>8. HeadingInv'
  BY <1>4, <1>7 DEF HeadingInv, Heading, Follows
<1> QED  BY <1>3, <1>4, <1>5, <1>8 DEF DialOK

\* The controller takes the oldest request.
LEMMA HandleStep ==
  ASSUME DialOK, HeadingInv, Handle
  PROVE  DialOK' /\ HeadingInv'
<1> DEFINE m == Head(requests)
<1>1. /\ requests \in Seq(Message) /\ requests # <<>> /\ cutoff \in [Channel -> Nat]
      /\ UNCHANGED <<dialed, pad, astray>>
      /\ cutoff' = IF m.cmd = "cutoff" THEN [cutoff EXCEPT ![m.ch] = m.value] ELSE cutoff
  BY DEF DialOK, Handle, displayVars
<1>2. /\ requests' = Tail(requests) \/ requests' = Offer(Tail(requests), Own, LoadCapacity)
  BY DEF Handle, PublishOwn
<1>3. Tail(requests) \in Seq(Message) /\ m \in Message
  BY <1>1, TailIndexed, HeadTailProperties
<1>4. m.ch \in Channel /\ m.value \in Nat
  BY <1>3 DEF Message
<1>5. cutoff' \in [Channel -> Nat]
  BY <1>1, <1>4
<1>6. PICK held : held = cutoff'
  OBVIOUS
<1>7. PICK q : q = requests'
  OBVIOUS
<1>8. \A c \in Channel : held[c] = IF m \in CutoffOf(c) THEN m.value ELSE cutoff[c]
  BY <1>1, <1>3, <1>4, <1>6 DEF CutoffOf
<1> HIDE DEF m
<1>9. ASSUME NEW c \in Channel \ astray
      PROVE  Heading(Tail(requests), c, held[c], dialed[c])
  <2>1. PICK w : /\ Follows(requests, CutoffOf(c), cutoff[c], w)
                 /\ Effective(w) = Effective(Said(dialed[c]))
    BY DEF HeadingInv, Heading
  <2>2. Follows(Tail(requests), CutoffOf(c),
                IF m \in CutoffOf(c) THEN m.value ELSE cutoff[c], w)
    BY <1>1, <2>1, FollowsTail DEF m
  <2>3. Follows(Tail(requests), CutoffOf(c), held[c], w)
    BY <1>8, <2>2
  <2> QED  BY <2>1, <2>3 DEF Heading
<1>10. q \in Seq(Message) /\ \A c \in Channel \ astray : Heading(q, c, held[c], dialed[c])
  BY <1>2, <1>3, <1>7, <1>9, OwnTyped, OfferOther
<1>11. \A c \in Channel \ astray' : Heading(requests', c, cutoff'[c], dialed'[c])
  BY <1>1, <1>6, <1>7, <1>10
<1> QED  BY <1>1, <1>5, <1>7, <1>10, <1>11 DEF DialOK, HeadingInv, Heading, Follows

\* The steps that put another message in the controller's queue.
LEMMA OtherStep ==
  ASSUME DialOK, HeadingInv,
         \/ \E c \in Channel : ToggleOutput(c)
         \/ \E c \in Channel, k \in Mode \cap Selectable : ChooseMode(c, k)
         \/ \E x \in Typed : ConfirmSetpoint(x) /\ shown[pad.ch].mode \in Selectable
         \/ PollOk \/ PollFail \/ Remote
  PROVE  DialOK' /\ HeadingInv'
<1>1. SUFFICES /\ UNCHANGED <<dialed, cutoff, astray>> /\ pad' \in {pad, Closed}
               /\ \E m \in Message : /\ m.cmd # "cutoff"
                                     /\ requests' = Offer(requests, m, LoadCapacity)
  BY StepOther DEF DialOK
<1>2. ASSUME NEW cmd \in Kind, NEW c \in Channel, NEW v \in Nat, cmd # "cutoff",
             PublishCommand(Command(cmd, c, v))
      PROVE  \E m \in Message : m.cmd # "cutoff" /\ requests' = Offer(requests, m, LoadCapacity)
  BY <1>2, CommandTyped DEF PublishCommand
<1>3. ASSUME NEW c \in Channel, ToggleOutput(c) PROVE <1>1!1
  <2>1. UNCHANGED <<dialed, cutoff, astray, pad>>
    BY <1>3 DEF ToggleOutput, Touched, loadVars
  <2>2. \E v \in Nat : PublishCommand(Command("output", c, v))
    BY <1>3 DEF ToggleOutput
  <2> QED  BY <1>2, <2>1, <2>2 DEF Kind
<1>4. ASSUME NEW c \in Channel, NEW k \in Mode \cap Selectable, ChooseMode(c, k) PROVE <1>1!1
  <2>1. UNCHANGED <<dialed, cutoff, astray, pad>>
    BY <1>4 DEF ChooseMode, Touched, loadVars
  <2>2. PublishCommand(Command("set mode", c, k))
    BY <1>4 DEF ChooseMode
  <2>3. k \in Nat
    BY DEF Selectable
  <2> QED  BY <1>2, <2>1, <2>2, <2>3 DEF Kind
<1>5. ASSUME NEW x \in Typed, ConfirmSetpoint(x), shown[pad.ch].mode \in Selectable PROVE <1>1!1
  <2>1. pad.ch \in Channel /\ pad.max \in Nat
    BY <1>5 DEF DialOK, ConfirmSetpoint, Closed
  <2>2. Clamp(x) \in Nat
    BY <2>1, ClampTyped
  <2>3. Setpoint[shown[pad.ch].mode + 1] \in Kind /\ Setpoint[shown[pad.ch].mode + 1] # "cutoff"
    BY <1>5, ModesTyped
  <2>4. UNCHANGED <<dialed, cutoff, astray>> /\ pad' = Closed
    BY <1>5 DEF ConfirmSetpoint, Touched, loadVars
  <2>5. PublishCommand(Command(Setpoint[shown[pad.ch].mode + 1], pad.ch, Clamp(x)))
    BY <1>5 DEF ConfirmSetpoint
  <2> QED  BY <1>2, <2>1, <2>2, <2>3, <2>4, <2>5
<1>6. CASE PollOk \/ PollFail
  BY <1>6, OwnTyped DEF PollOk, PollFail, PublishOwn, displayVars
<1>7. CASE Remote
  <2>1. UNCHANGED <<dialed, cutoff, astray, pad>>
    BY <1>7 DEF Remote, displayVars, loadVars
  <2>2. PICK c \in Channel :
          \/ \E v \in {0, 1} : PublishCommand(Command("output", c, v))
          \/ \E k \in Mode \cap Selectable : PublishCommand(Command("set mode", c, k))
          \/ PublishCommand(Command("mode", c, 0))
    BY <1>7 DEF Remote
  <2>3. \A k \in Selectable : k \in Nat
    BY DEF Selectable
  <2>4. \E v \in Nat, cmd \in Kind \ {"cutoff"} : PublishCommand(Command(cmd, c, v))
    BY <2>2, <2>3 DEF Kind
  <2> QED  BY <1>2, <2>1, <2>4
<1> QED  BY <1>3, <1>4, <1>5, <1>6, <1>7

\* The steps that concern neither the cutoffs nor the requests.
LEMMA QuietStep ==
  ASSUME DialOK, HeadingInv,
         \/ \E c \in Channel : OpenPad(c)
         \/ \E x \in Typed : ConfirmSetpoint(x) /\ shown[pad.ch].mode \notin Selectable
         \/ CancelPad \/ Drain \/ Tick \/ DrainDone \/ UNCHANGED vars
  PROVE  DialOK' /\ HeadingInv'
<1>1. UNCHANGED <<dialed, cutoff, requests, astray>>
  BY DEF OpenPad, ConfirmSetpoint, CancelPad, Drain, Tick, DrainDone, vars, displayVars, loadVars,
         busVars, Touched
<1>2. \/ pad' = pad \/ pad' = Closed
      \/ pad' \in [asks : {"setpoint"}, ch : Channel, max : Nat]
      \/ pad' \in [asks : {"cutoff"}, ch : Channel, max : {CutoffMax}]
  <2>1. ASSUME NEW c \in Channel, OpenPad(c) PROVE <1>2
    BY <2>1, ModesTyped DEF OpenPad
  <2> QED  BY <2>1 DEF ConfirmSetpoint, CancelPad, Drain, Tick, DrainDone, vars, displayVars
<1> QED  BY <1>1, <1>2 DEF DialOK, HeadingInv, Heading

-----------------------------------------------------------------------------
\* The cutoffs agree from the start, and every step keeps them so.
LEMMA DialInit == Init => DialOK /\ HeadingInv
<1> SUFFICES ASSUME Init PROVE DialOK /\ HeadingInv
  OBVIOUS
<1>1. DialOK
  BY DEF Init, DialOK, CutoffMax
<1>2. ASSUME NEW c \in Channel PROVE Heading(<<>>, c, cutoff[c], dialed[c])
  <2>1. Follows(<<>>, CutoffOf(c), cutoff[c], cutoff[c])
    BY DEF Follows
  <2>2. Effective(cutoff[c]) = 0 /\ Effective(Said(dialed[c])) = 0
    BY DEF Init, Effective, Said, Disabled
  <2> QED  BY <2>1, <2>2 DEF Heading
<1> QED  BY <1>1, <1>2 DEF Init, HeadingInv

LEMMA DialStep == DialOK /\ HeadingInv /\ [Next]_vars => DialOK' /\ HeadingInv'
  BY ToggleStep, ConfirmStep, HandleStep, RemoteStep, OtherStep, QuietStep
     DEF Next, Touch, Load, Others

\* Unless the display's last command about it was lost, or another client has
\* set it since, the cutoff the controller holds, or will hold, is the one the
\* display shows.
THEOREM DisplayCutoff == Spec => []CutoffAgrees
<1>1. DialOK /\ HeadingInv => CutoffAgrees
  <2> SUFFICES ASSUME DialOK, HeadingInv, NEW c \in Channel \ astray
               PROVE  LET waiting == WaitingCutoffs(c)
                          held == IF waiting = {} THEN cutoff[c]
                                  ELSE requests[CHOOSE k \in waiting : \A j \in waiting : j <= k].value
                      IN  Effective(held) = Effective(Said(dialed[c]))
    BY DEF CutoffAgrees
  <2>1. requests \in Seq(Message)
    BY DEF DialOK
  <2>2. WaitingCutoffs(c) = {k \in 1 .. Len(requests) : requests[k] \in CutoffOf(c)}
    BY <2>1 DEF WaitingCutoffs, CutoffOf
  <2>3. PICK w : /\ Follows(requests, CutoffOf(c), cutoff[c], w)
                 /\ Effective(w) = Effective(Said(dialed[c]))
    BY DEF HeadingInv, Heading
  <2>4. PICK P : P = WaitingCutoffs(c)
    OBVIOUS
  <2>5. w = IF P = {} THEN cutoff[c] ELSE requests[CHOOSE k \in P : \A j \in P : j <= k].value
    BY <2>1, <2>2, <2>3, <2>4, FollowsNewest
  <2> QED  BY <2>3, <2>4, <2>5
<1> QED  BY <1>1, DialInit, DialStep, PTL DEF Spec

-----------------------------------------------------------------------------
(***************************************************************************)
(* The types.  What waits in a queue has to fit what will be made of it.   *)
(***************************************************************************)
\* The modes the display may show: queries carry 0, the first reading 1.
Shows == Mode \cup {0, 1}

\* What the display is sent, and what the controller is.
ForDisplay == {m \in Message : m.cmd \in {"measurement", "mode"} => m.value \in Shows}
ForLoad == {m \in Message : m.cmd = "set mode" => m.value \in Mode}

QueuesOK ==
  /\ gui \in Seq(ForDisplay) /\ Len(gui) <= GuiCapacity
  /\ requests \in Seq(ForLoad) /\ Len(requests) <= LoadCapacity

\* A queue takes a message, or is full and stays as it is.
LEMMA OfferTyped ==
  ASSUME NEW S, NEW q \in Seq(S), NEW m \in S, NEW capacity \in Nat, Len(q) <= capacity
  PROVE  Offer(q, m, capacity) \in Seq(S) /\ Len(Offer(q, m, capacity)) <= capacity
<1>1. Append(q, m) \in Seq(S) /\ Len(Append(q, m)) = Len(q) + 1 /\ Len(q) \in Nat
  BY AppendProperties
<1> QED  BY <1>1 DEF Offer

LEMMA Capacities == GuiCapacity \in Nat /\ LoadCapacity \in Nat
  BY DisplayAssumption

\* A command is published to both queues.
LEMMA PublishTyped ==
  ASSUME QueuesOK, NEW cmd \in Kind \ {"measurement"}, NEW c \in Channel, NEW v \in Nat,
         cmd = "mode" => v \in Shows, cmd = "set mode" => v \in Mode,
         PublishCommand(Command(cmd, c, v))
  PROVE  QueuesOK'
<1> DEFINE m == Command(cmd, c, v)
<1>1. m \in Message /\ m.cmd = cmd /\ m.value = v
  <2>1. cmd \in Kind
    OBVIOUS
  <2> QED  BY <2>1 DEF Command, Message
<1>2. gui' = Offer(gui, Seen(m), GuiCapacity) /\ requests' = Offer(requests, m, LoadCapacity)
  BY DEF PublishCommand
<1> HIDE DEF m
<1>3. m \in ForLoad
  BY <1>1 DEF ForLoad
<1>4. Seen(m) \in ForDisplay
  BY <1>1, OwnTyped DEF Seen, ForDisplay
<1> QED  BY <1>2, <1>3, <1>4, Capacities, OfferTyped DEF QueuesOK

\* The controller's own messages go to the display, and take room in its queue.
LEMMA PublishOwnTyped ==
  ASSUME QueuesOK, NEW m \in ForDisplay, NEW rest \in Seq(ForLoad), Len(rest) <= LoadCapacity,
         PublishOwn(m, rest)
  PROVE  QueuesOK'
<1>1. gui' = Offer(gui, m, GuiCapacity) /\ requests' = Offer(rest, Own, LoadCapacity)
  BY DEF PublishOwn
<1>2. Own \in ForLoad
  BY OwnTyped DEF ForLoad
<1> QED  BY <1>1, <1>2, Capacities, OfferTyped DEF QueuesOK

\* What the display shows when it has emptied its queue.
LEMMA DrainTyped ==
  ASSUME gui \in Seq(ForDisplay), shown \in [Channel -> [on : BOOLEAN, mode : Shows]],
         NEW c \in Channel
  PROVE  Overwritten(c) \in [on : BOOLEAN, mode : Shows]
<1>1. ASSUME NEW cmds, Arrived(cmds, c) # {}
      PROVE  LastOf(Arrived(cmds, c)) \in Arrived(cmds, c)
  <2>1. Len(gui) \in Nat /\ Arrived(cmds, c) \subseteq 1 .. Len(gui)
    BY DEF Arrived
  <2>2. \E k \in Arrived(cmds, c) : \A j \in Arrived(cmds, c) : j <= k
    BY <1>1, <2>1, LastIn
  <2> QED  BY <2>2 DEF LastOf
<1>2. \A cmds : \A k \in Arrived(cmds, c) : gui[k] \in ForDisplay /\ gui[k].cmd \in cmds
  BY DEF Arrived
<1>3. (IF Arrived({"measurement"}, c) # {} /\ InhibitOver(c)
         THEN gui[LastOf(Arrived({"measurement"}, c))].on ELSE shown[c].on) \in BOOLEAN
  <2>1. \A m \in ForDisplay : m.on \in BOOLEAN
    BY DEF ForDisplay, Message
  <2> QED  BY <1>1, <1>2, <2>1
<1>4. (IF Arrived({"measurement", "mode"}, c) # {}
         THEN gui[LastOf(Arrived({"measurement", "mode"}, c))].value ELSE shown[c].mode) \in Shows
  <2>1. \A m \in ForDisplay : m.cmd \in {"measurement", "mode"} => m.value \in Shows
    BY DEF ForDisplay
  <2> QED  BY <1>1, <1>2, <2>1
<1> QED  BY <1>3, <1>4 DEF Overwritten
\* All but the queues.
FieldsOK ==
  /\ DialOK
  /\ shown \in [Channel -> [on : BOOLEAN, mode : Shows]]
  /\ until \in [Channel -> 0 .. Wrap - 1]
  /\ tick \in 0 .. Wrap - 1 /\ quiet \in [Channel -> 0 .. MaxQuiet]
  /\ module \in [Channel -> [on : BOOLEAN, mode : Mode]]
  /\ reading \in [Channel -> [on : BOOLEAN, mode : Mode \cup {1}]]
  /\ turn \in 0 .. NumChannels
  /\ commands \in 0 .. MaxCommands

LEMMA FieldsTyped == FieldsOK /\ QueuesOK => TypeOK
<1> SUFFICES ASSUME FieldsOK, QueuesOK PROVE TypeOK
  OBVIOUS
<1>1. ForDisplay \subseteq Message /\ ForLoad \subseteq Message
  BY DEF ForDisplay, ForLoad
<1>2. gui \in Seq(Message) /\ requests \in Seq(Message)
  BY <1>1 DEF QueuesOK
<1> QED  BY <1>2 DEF FieldsOK, DialOK, QueuesOK, TypeOK, Shows

\* The time wraps to a tick again.
LEMMA TickTyped == \A x \in Nat : x % Wrap \in 0 .. Wrap - 1
<1>1. Wrap \in Nat \ {0}
  BY DisplayAssumption
<1> QED  BY <1>1

LEMMA TouchedTyped ==
  ASSUME FieldsOK, Touched
  PROVE  /\ commands' \in 0 .. MaxCommands /\ UNCHANGED <<tick, quiet, module, reading, cutoff, turn>>
<1>1. commands \in 0 .. MaxCommands /\ MaxCommands \in Nat
  BY DisplayAssumption DEF FieldsOK
<1> QED  BY <1>1 DEF Touched, timeVars, loadVars

\* The commands for what is typed.
LEMMA SetpointTyped ==
  ASSUME NEW k \in Selectable
  PROVE  Setpoint[k + 1] \in {"set voltage", "set current", "set power", "set resistance"}
<1>1. k + 1 = 1 \/ k + 1 = 2 \/ k + 1 = 3 \/ k + 1 = 4
  BY DEF Selectable
<1>2. /\ Setpoint[1] = "set voltage" /\ Setpoint[2] = "set current"
      /\ Setpoint[3] = "set power" /\ Setpoint[4] = "set resistance"
  BY DEF Setpoint
<1> QED  BY <1>1, <1>2, Zenon

\* Touches: the fields ...
LEMMA TouchFields ==
  ASSUME FieldsOK, DialOK', Touch
  PROVE  FieldsOK'
<1>1. /\ shown \in [Channel -> [on : BOOLEAN, mode : Shows]]
      /\ until \in [Channel -> 0 .. Wrap - 1] /\ tick \in Nat /\ Inhibit \in Nat
  BY DisplayAssumption DEF FieldsOK
<1>2. CASE \E c \in Channel : ToggleOutput(c)
  <2>1. PICK c \in Channel : ToggleOutput(c)
    BY <1>2
  <2>2. shown' \in [Channel -> [on : BOOLEAN, mode : Shows]]
    BY <1>1, <2>1 DEF ToggleOutput
  <2>3. (tick + Inhibit) % Wrap \in 0 .. Wrap - 1
    BY <1>1, TickTyped
  <2>4. until' \in [Channel -> 0 .. Wrap - 1]
    BY <1>1, <2>1, <2>3 DEF ToggleOutput
  <2>5. Touched
    BY <2>1 DEF ToggleOutput
  <2> QED  BY <2>2, <2>4, <2>5, TouchedTyped DEF FieldsOK
<1>3. CASE \E c \in Channel, k \in Mode \cap Selectable : ChooseMode(c, k)
  <2>1. PICK c \in Channel, k \in Mode \cap Selectable : ChooseMode(c, k)
    BY <1>3
  <2>2. shown' \in [Channel -> [on : BOOLEAN, mode : Shows]] /\ until' = until
    BY <1>1, <2>1 DEF ChooseMode, Shows
  <2>3. Touched
    BY <2>1 DEF ChooseMode
  <2> QED  BY <1>1, <2>2, <2>3, TouchedTyped DEF FieldsOK
<1>4. CASE \/ \E c \in Channel : ToggleCutoff(c)
           \/ \E x \in Typed : ConfirmSetpoint(x) \/ ConfirmCutoff(x)
  <2>1. shown' = shown /\ until' = until /\ Touched
    BY <1>4 DEF ToggleCutoff, ConfirmSetpoint, ConfirmCutoff
  <2> QED  BY <2>1, TouchedTyped DEF FieldsOK
<1>5. CASE \/ \E c \in Channel : OpenPad(c)
           \/ CancelPad
  <2>1. UNCHANGED <<shown, until, tick, quiet, module, reading, turn, commands>>
    BY <1>5 DEF OpenPad, CancelPad, timeVars, loadVars
  <2> QED  BY <2>1 DEF FieldsOK
<1> QED  BY <1>2, <1>3, <1>4, <1>5 DEF Touch

\* ... and the queues.
LEMMA TouchQueues ==
  ASSUME FieldsOK, QueuesOK, DialOK', Touch
  PROVE  QueuesOK'
<1>1. CASE \E c \in Channel : ToggleOutput(c)
  <2>1. PICK c \in Channel, v \in {0, 1} : PublishCommand(Command("output", c, v))
    BY <1>1 DEF ToggleOutput
  <2> QED  BY <2>1, PublishTyped DEF Kind
<1>2. CASE \E c \in Channel, k \in Mode \cap Selectable : ChooseMode(c, k)
  <2>1. PICK c \in Channel, k \in Mode \cap Selectable : PublishCommand(Command("set mode", c, k))
    BY <1>2 DEF ChooseMode
  <2>2. k \in Nat /\ k \in Mode
    BY DEF Selectable
  <2> QED  BY <2>1, <2>2, PublishTyped DEF Kind
<1>3. CASE \E c \in Channel : ToggleCutoff(c)
  <2>1. PICK c \in Channel : ToggleCutoff(c)
    BY <1>3
  <2>2. PICK v : v = Said(dialed'[c])
    OBVIOUS
  <2>3. v \in Nat
    <3>1. PICK s : s = dialed'[c]
      OBVIOUS
    <3>2. s \in [armed : BOOLEAN, threshold : 0 .. 30]
      BY <3>1 DEF DialOK, CutoffMax
    <3> QED  BY <2>2, <3>1, <3>2 DEF Said, Disabled
  <2>4. PublishCommand(Command("cutoff", c, v))
    BY <2>1, <2>2 DEF ToggleCutoff, PublishCutoff
  <2> QED  BY <2>3, <2>4, PublishTyped DEF Kind
<1>4. ASSUME NEW x \in Typed, ConfirmSetpoint(x) PROVE QueuesOK'
  <2>1. pad.ch \in Channel /\ pad.max \in Nat
    BY <1>4 DEF FieldsOK, DialOK, ConfirmSetpoint, Closed
  <2>2. Clamp(x) \in Nat
    BY <2>1, ClampTyped
  <2>3. CASE shown[pad.ch].mode \in Selectable
    <3>1. PICK cmd : cmd = Setpoint[shown[pad.ch].mode + 1]
      OBVIOUS
    <3>2. cmd \in {"set voltage", "set current", "set power", "set resistance"}
      BY <2>3, <3>1, SetpointTyped
    <3>3. PublishCommand(Command(cmd, pad.ch, Clamp(x)))
      BY <1>4, <2>3, <3>1 DEF ConfirmSetpoint
    <3> QED  BY <2>1, <2>2, <3>2, <3>3, PublishTyped DEF Kind
  <2>4. CASE shown[pad.ch].mode \notin Selectable
    BY <1>4, <2>4 DEF ConfirmSetpoint, busVars, QueuesOK
  <2> QED  BY <2>3, <2>4
<1>5. ASSUME NEW x \in Typed, ConfirmCutoff(x) PROVE QueuesOK'
  <2>1. pad.ch \in Channel /\ pad.max \in Nat
    BY <1>5 DEF FieldsOK, DialOK, ConfirmCutoff, Closed, CutoffMax
  <2>2. Clamp(x) \in Nat
    BY <2>1, ClampTyped
  <2>3. CASE dialed[pad.ch].armed
    <3>1. PublishCommand(Command("cutoff", pad.ch, Clamp(x)))
      BY <1>5, <2>3 DEF ConfirmCutoff, PublishCutoff
    <3> QED  BY <2>1, <2>2, <3>1, PublishTyped DEF Kind
  <2>4. CASE ~dialed[pad.ch].armed
    BY <1>5, <2>4 DEF ConfirmCutoff, busVars, QueuesOK
  <2> QED  BY <2>3, <2>4
<1>6. CASE \/ \E c \in Channel : OpenPad(c)
           \/ CancelPad
  BY <1>6 DEF OpenPad, CancelPad, busVars, QueuesOK
<1> QED  BY <1>1, <1>2, <1>3, <1>4, <1>5, <1>6 DEF Touch

LEMMA ModesAreNumbers == \A k \in Mode \cup {0, 1} : k \in Nat
  BY DisplayAssumption

\* What a command makes of the modules.
LEMMA WriteTyped ==
  ASSUME module \in [Channel -> [on : BOOLEAN, mode : Mode]], NEW m \in ForLoad
  PROVE  Write(m) \in [Channel -> [on : BOOLEAN, mode : Mode]]
<1>1. m.ch \in Channel
  BY DEF ForLoad, Message
<1>2. CASE m.cmd = "output"
  <2>1. Write(m) = [module EXCEPT ![m.ch].on = (m.value = 1)]
    BY <1>2 DEF Write
  <2>2. (m.value = 1) \in BOOLEAN
    OBVIOUS
  <2> QED  BY <1>1, <2>1, <2>2
<1>3. CASE m.cmd = "set mode"
  <2>1. Write(m) = [module EXCEPT ![m.ch].mode = m.value]
    BY <1>3 DEF Write
  <2>2. m.value \in Mode
    BY <1>3 DEF ForLoad
  <2> QED  BY <1>1, <2>1, <2>2
<1>4. CASE m.cmd # "output" /\ m.cmd # "set mode"
  BY <1>4 DEF Write
<1> QED  BY <1>2, <1>3, <1>4

\* The controller's steps.
LEMMA LoadTyped ==
  ASSUME FieldsOK, QueuesOK, DialOK', Load
  PROVE  FieldsOK' /\ QueuesOK'
<1>1. /\ module \in [Channel -> [on : BOOLEAN, mode : Mode]]
      /\ reading \in [Channel -> [on : BOOLEAN, mode : Mode \cup {1}]]
      /\ turn \in 0 .. NumChannels /\ NumChannels \in Nat \ {0}
      /\ requests \in Seq(ForLoad) /\ Len(requests) <= LoadCapacity
  BY DisplayAssumption DEF FieldsOK, QueuesOK
<1>2. ASSUME NEW c \in Channel, NEW r \in [on : BOOLEAN, mode : Mode \cup {1}]
      PROVE  Measurement(c, r) \in ForDisplay
  <2>1. r.on \in BOOLEAN /\ r.mode \in Mode \cup {1}
    OBVIOUS
  <2>2. r.mode \in Nat /\ r.mode \in Shows
    BY <2>1, ModesAreNumbers DEF Shows
  <2> QED  BY <2>1, <2>2 DEF Measurement, ForDisplay, Message, Kind
<1>3. ASSUME NEW c \in Channel, NEW on, Cutoff(c, on)
      PROVE  module' \in [Channel -> [on : BOOLEAN, mode : Mode]]
  BY <1>1, <1>3 DEF Cutoff
<1>4. CASE PollOk
  <2>1. turn \in Channel /\ turn + 1 \in 0 .. NumChannels
    BY <1>1, <1>4 DEF PollOk, Channel
  <2>2. /\ reading' = [reading EXCEPT ![turn] = module[turn]] /\ turn' = turn + 1
        /\ Cutoff(turn, module[turn].on) /\ PublishOwn(Measurement(turn, module[turn]), requests)
        /\ UNCHANGED <<shown, until, tick, quiet, commands>>
    BY <1>4 DEF PollOk, displayVars, timeVars
  <2>3. reading' \in [Channel -> [on : BOOLEAN, mode : Mode \cup {1}]]
    BY <1>1, <2>1, <2>2
  <2>4. module[turn] \in [on : BOOLEAN, mode : Mode \cup {1}]
    BY <1>1, <2>1
  <2>5. QueuesOK'
    BY <1>1, <1>2, <2>1, <2>2, <2>4, PublishOwnTyped
  <2> QED  BY <1>3, <2>1, <2>2, <2>3, <2>5 DEF FieldsOK
<1>5. CASE PollFail
  <2>1. turn \in Channel /\ turn + 1 \in 0 .. NumChannels
    BY <1>1, <1>5 DEF PollFail, Channel
  <2>2. /\ reading' = reading /\ turn' = turn + 1
        /\ Cutoff(turn, reading[turn].on) /\ PublishOwn(Measurement(turn, reading[turn]), requests)
        /\ UNCHANGED <<shown, until, tick, quiet, commands>>
    BY <1>5 DEF PollFail, displayVars, timeVars
  <2>3. reading[turn] \in [on : BOOLEAN, mode : Mode \cup {1}]
    BY <1>1, <2>1
  <2>4. QueuesOK'
    BY <1>1, <1>2, <2>1, <2>2, <2>3, PublishOwnTyped
  <2> QED  BY <1>3, <2>1, <2>2, <2>4 DEF FieldsOK
<1>6. CASE DrainDone
  <2>1. UNCHANGED <<shown, until, tick, quiet, module, reading, gui, requests, commands>> /\ turn' = 0
    BY <1>6 DEF DrainDone, displayVars, timeVars, busVars
  <2>2. turn' \in 0 .. NumChannels
    BY <1>1, <2>1
  <2> QED  BY <2>1, <2>2 DEF FieldsOK, QueuesOK
<1>7. CASE Handle
  <2> DEFINE m == Head(requests)
             rest == Tail(requests)
  <2>1. /\ requests # <<>> /\ module' \in {module, Write(m)}
        /\ UNCHANGED <<shown, until, tick, quiet, reading, turn, commands>>
        /\ \/ PublishOwn(Command("mode", m.ch, reading[m.ch].mode), rest)
           \/ requests' = rest /\ gui' = gui
    BY <1>7 DEF Handle, displayVars, timeVars
  <2>2. m \in ForLoad /\ rest \in Seq(ForLoad) /\ Len(rest) <= LoadCapacity
    <3>1. /\ Len(requests) \in Nat \ {0} /\ m = requests[1] /\ rest \in Seq(ForLoad)
          /\ Len(rest) = Len(requests) - 1
      BY <1>1, <2>1, TailIndexed
    <3> HIDE DEF m, rest
    <3> QED  BY <1>1, <3>1, Capacities
  <2> HIDE DEF m, rest
  <2>3. m.ch \in Channel /\ m.value \in Nat /\ (m.cmd = "set mode" => m.value \in Mode)
    BY <2>2 DEF ForLoad, Message
  <2>4. Write(m) \in [Channel -> [on : BOOLEAN, mode : Mode]]
    BY <1>1, <2>2, WriteTyped
  <2>5. reading[m.ch].mode \in Shows /\ reading[m.ch].mode \in Nat
    <3>1. reading[m.ch].mode \in Mode \cup {1}
      BY <1>1, <2>3
    <3> QED  BY <3>1, ModesAreNumbers DEF Shows
  <2>6. Command("mode", m.ch, reading[m.ch].mode) \in ForDisplay
    <3>1. PICK v : v = reading[m.ch].mode
      OBVIOUS
    <3>2. "mode" \in Kind
      BY DEF Kind
    <3>3. /\ Command("mode", m.ch, v) \in Message /\ Command("mode", m.ch, v).cmd = "mode"
          /\ Command("mode", m.ch, v).value = v
      BY <2>3, <2>5, <3>1, <3>2 DEF Command, Message
    <3> QED  BY <2>5, <3>1, <3>3 DEF ForDisplay
  <2>7. QueuesOK'
    <3>1. CASE PublishOwn(Command("mode", m.ch, reading[m.ch].mode), rest)
      BY <2>2, <2>6, <3>1, PublishOwnTyped
    <3>2. CASE requests' = rest /\ gui' = gui
      BY <2>2, <3>2 DEF QueuesOK
    <3> QED  BY <2>1, <3>1, <3>2
  <2>8. module' \in [Channel -> [on : BOOLEAN, mode : Mode]]
    BY <1>1, <2>1, <2>4
  <2> QED  BY <2>1, <2>7, <2>8 DEF FieldsOK
<1> QED  BY <1>4, <1>5, <1>6, <1>7 DEF Load

\* The display's timer, the time and other clients.
LEMMA RestTyped ==
  ASSUME FieldsOK, QueuesOK, DialOK', Drain \/ Tick \/ Others \/ UNCHANGED vars
  PROVE  FieldsOK' /\ QueuesOK'
<1>1. CASE Drain
  <2>1. /\ gui' = <<>> /\ shown' = [c \in Channel |-> Overwritten(c)]
        /\ UNCHANGED <<until, tick, module, reading, turn, requests, commands>>
    BY <1>1 DEF Drain, loadVars
  <2>2. quiet' \in [Channel -> 0 .. MaxQuiet]
    <3>1. quiet' = [c \in Channel |-> IF Arrived({"measurement"}, c) = {} THEN quiet[c] ELSE 0]
      BY <1>1 DEF Drain
    <3> QED  BY <3>1, DisplayAssumption DEF FieldsOK
  <2>3. shown' \in [Channel -> [on : BOOLEAN, mode : Shows]]
    BY <2>1, DrainTyped DEF FieldsOK, QueuesOK
  <2>4. gui' \in Seq(ForDisplay) /\ Len(gui') <= GuiCapacity
    BY <2>1, Capacities
  <2> QED  BY <2>1, <2>2, <2>3, <2>4 DEF FieldsOK, QueuesOK
<1>2. CASE Tick
  <2>1. /\ quiet' = [c \in Channel |-> quiet[c] + 1] /\ tick' = (tick + 1) % Wrap
        /\ \A c \in Channel : quiet[c] < MaxQuiet
        /\ UNCHANGED <<shown, until, module, reading, turn, gui, requests, commands>>
    BY <1>2 DEF Tick, displayVars, loadVars, busVars
  <2>2. tick' \in 0 .. Wrap - 1
    <3>1. tick + 1 \in Nat
      BY DisplayAssumption DEF FieldsOK
    <3> QED  BY <2>1, <3>1, TickTyped
  <2>3. quiet' \in [Channel -> 0 .. MaxQuiet]
    BY <2>1, DisplayAssumption DEF FieldsOK
  <2> QED  BY <2>1, <2>2, <2>3 DEF FieldsOK, QueuesOK
<1>3. CASE Remote
  <2>1. UNCHANGED <<shown, until, tick, quiet, module, reading, turn>>
    BY <1>3 DEF Remote, displayVars, timeVars, loadVars
  <2>2. commands' \in 0 .. MaxCommands
    <3>1. commands < MaxCommands /\ commands' = commands + 1
      BY <1>3 DEF Remote
    <3>2. commands \in 0 .. MaxCommands /\ MaxCommands \in Nat
      BY DisplayAssumption DEF FieldsOK
    <3> QED  BY <3>1, <3>2
  <2>3. PICK c \in Channel :
          \/ \E v \in {0, 1} : PublishCommand(Command("output", c, v))
          \/ \E k \in Mode \cap Selectable : PublishCommand(Command("set mode", c, k))
          \/ PublishCommand(Command("mode", c, 0))
    BY <1>3 DEF Remote
  <2>4. QueuesOK'
    <3>1. \A k \in Selectable : k \in Nat
      BY DEF Selectable
    <3>2. \E v \in Nat, cmd \in Kind \ {"measurement"} :
            /\ cmd = "mode" => v \in Shows
            /\ cmd = "set mode" => v \in Mode
            /\ PublishCommand(Command(cmd, c, v))
      BY <2>3, <3>1 DEF Kind, Shows
    <3> QED  BY <3>2, PublishTyped
  <2> QED  BY <2>1, <2>2, <2>4 DEF FieldsOK
<1>4. ASSUME NEW c \in Channel, NEW x \in Typed, RemoteCutoff(c, x)
      PROVE  FieldsOK' /\ QueuesOK'
  <2>1. UNCHANGED <<shown, until, tick, quiet, module, reading, turn>>
    BY <1>4 DEF RemoteCutoff, displayVars, timeVars, loadVars
  <2>2. commands' \in 0 .. MaxCommands
    <3>1. commands < MaxCommands /\ commands' = commands + 1
      BY <1>4 DEF RemoteCutoff
    <3>2. commands \in 0 .. MaxCommands /\ MaxCommands \in Nat
      BY DisplayAssumption DEF FieldsOK
    <3> QED  BY <3>1, <3>2
  <2>3. QueuesOK'
    <3>1. x \in Nat /\ PublishCommand(Command("cutoff", c, x))
      BY <1>4, DisplayAssumption DEF RemoteCutoff
    <3>2. "cutoff" \in Kind \ {"measurement", "mode", "set mode"}
      BY DEF Kind
    <3> QED  BY <3>1, <3>2, PublishTyped
  <2> QED  BY <2>1, <2>2, <2>3 DEF FieldsOK
<1>5. CASE UNCHANGED vars
  BY <1>5 DEF vars, displayVars, timeVars, loadVars, busVars, FieldsOK, QueuesOK
<1> QED  BY <1>1, <1>2, <1>3, <1>4, <1>5 DEF Others

\* The display's copy, the numpad, both queues and the controller keep their
\* types, and the queues their lengths (ui.c, app_bus.h).
THEOREM DisplayTyped == Spec => []TypeOK
<1>1. Init => FieldsOK /\ QueuesOK
  <2> SUFFICES ASSUME Init PROVE FieldsOK /\ QueuesOK
    OBVIOUS
  <2>1. DialOK
    BY DEF Init, DialOK, CutoffMax
  <2>2. QueuesOK
    BY Capacities DEF Init, QueuesOK
  <2> QED  BY <2>1, <2>2, DisplayAssumption DEF Init, FieldsOK, Shows
<1>2. FieldsOK /\ QueuesOK /\ HeadingInv /\ [Next]_vars => FieldsOK' /\ QueuesOK' /\ HeadingInv'
  <2> SUFFICES ASSUME FieldsOK, QueuesOK, HeadingInv, [Next]_vars
               PROVE  FieldsOK' /\ QueuesOK' /\ HeadingInv'
    OBVIOUS
  <2>1. DialOK' /\ HeadingInv'
    BY DialStep DEF FieldsOK
  <2> QED  BY <2>1, TouchFields, TouchQueues, LoadTyped, RestTyped DEF Next
<1>3. Init => HeadingInv
  BY DialInit
<1> QED  BY <1>1, <1>2, <1>3, FieldsTyped, PTL DEF Spec
=============================================================================
