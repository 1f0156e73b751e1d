------------------------------ MODULE Display ------------------------------
(***************************************************************************)
(* What the touch display shows and commands, against what the load does.  *)
(*                                                                         *)
(* The display is src/ui/ui.c, ui_main.c, ui_channel_detail.c and          *)
(* ui_numpad.c: one thread that changes its copy of the channels when a    *)
(* control is touched, publishes a command, and overwrites the copy by     *)
(* what arrives in queue_gui.  After an output switch was touched the      *)
(* output of the measurements is ignored until a tick is reached.          *)
(*                                                                         *)
(* The load controller is taken here at the grain of its poll loop         *)
(* (esp/main/dc_load_controller.c; DcLoad has the detail), and a client of *)
(* the SCPI or web server as somebody who publishes on the same bus.  A    *)
(* publication is lost for every queue that is full.                       *)
(*                                                                         *)
(* Time is a tick counter that wraps.  Between two measurements of a       *)
(* channel lies a round of the controller: a request to every module, each *)
(* of which may time out after 1000 ms, and the commands that waited; it   *)
(* takes MaxQuiet ticks at most.                                           *)
(***************************************************************************)
EXTENDS Integers, Sequences

CONSTANTS
  NumChannels,  \* UI_CHANNEL_COUNT and DC_LOAD_DEVICE_COUNT
  Mode,         \* the modes of the load: from 0 (CV) to 3 (CR), and 4 (CVCC)
  Typed,        \* numbers that are typed, on the numpad or by a client
  GuiCapacity,  \* the length of queue_gui
  LoadCapacity, \* the length of queue_dc_load
  Inhibit,      \* the ticks for which a touched output is kept
  Wrap,         \* the tick counter counts modulo Wrap
  MaxQuiet,     \* bound: ticks from one drained measurement of a channel to the next
  MaxCommands   \* bound: touches that publish, and messages of other clients

ASSUME DisplayAssumption ==
  /\ NumChannels \in Nat \ {0}
  /\ Mode \subseteq 0 .. 4
  /\ Typed \subseteq Nat
  /\ GuiCapacity \in Nat \ {0} /\ LoadCapacity \in Nat \ {0}
  /\ Wrap \in Nat \ {0} /\ Inhibit \in 1 .. Wrap - 1
  /\ MaxQuiet \in Nat \ {0}
  /\ MaxCommands \in Nat

VARIABLES
  shown,      \* channels[] of the display: what measurements overwrite
  dialed,     \* channels[] of the display: what only touches change
  until,      \* s_output_inhibit_until[]
  tick,       \* xTaskGetTickCount()
  quiet,      \* per channel, ticks since a measurement of it was drained
  pad,        \* the numpad screen: what it asks for, of which channel, its limit
  gui,        \* queue_gui
  module,     \* the modules of the load
  reading,    \* what the controller read of them last
  cutoff,     \* lv_cutoff_threshold of the controller
  turn,       \* the channel that is polled next, or NumChannels: the queue
  requests,   \* queue_dc_load
  astray,     \* channels whose last cutoff command was lost or another client's
  commands    \* touches and messages of other clients so far

displayVars == <<shown, dialed, until, pad>>
timeVars == <<tick, quiet>>
loadVars == <<module, reading, cutoff, turn>>
busVars == <<gui, requests>>
vars == <<displayVars, timeVars, loadVars, busVars, astray, commands>>

Channel == 0 .. NumChannels - 1

MaxOf == <<200, 10, 200, 1000>>   \* the limits of the numpad, by mode
CutoffMax == 30
Disabled == 1000                  \* published when the cutoff switch is off

\* Messages.  A measurement carries mode and output, another message a value.
Measurement(c, m) == [cmd |-> "measurement", ch |-> c, value |-> m.mode, on |-> m.on]
Command(cmd, c, value) == [cmd |-> cmd, ch |-> c, value |-> value, on |-> FALSE]
Setpoint == <<"set voltage", "set current", "set power", "set resistance">>

\* The modes that display and clients know: the numpad does nothing in another.
Selectable == 0 .. 3

Closed == [asks |-> "nothing", ch |-> 0, max |-> 0]

Init ==
  /\ shown = [c \in Channel |-> [on |-> FALSE, mode |-> 0]]
  /\ dialed = [c \in Channel |-> [armed |-> FALSE, threshold |-> 0]]
  /\ until = [c \in Channel |-> 0]
  /\ tick = 0 /\ quiet = [c \in Channel |-> 0]
  /\ pad = Closed
  /\ gui = <<>> /\ requests = <<>>
  /\ module \in [Channel -> [on : BOOLEAN, mode : Mode]]
  /\ reading = [c \in Channel |-> [on |-> FALSE, mode |-> 1]]
  /\ cutoff = [c \in Channel |-> 999]
  /\ turn = 0 /\ astray = {}
  /\ commands = 0

-----------------------------------------------------------------------------
(***************************************************************************)
(* The bus.  The controller skips its own messages but they take room.     *)
(***************************************************************************)
OfferUnbounded(q, m, capacity) == Append(q, m)    \* Mutant: the queue has no limit.

Offer(q, m, capacity) == IF Len(q) < capacity THEN Append(q, m) ELSE q

Own == Command("own", 0, 0)

\* The display does nothing with a command: it only takes room.
Seen(m) == IF m.cmd \in {"measurement", "mode"} THEN m ELSE Own

PublishCommand(m) ==
  /\ gui' = Offer(gui, Seen(m), GuiCapacity)
  /\ requests' = Offer(requests, m, LoadCapacity)

\* The controller's own message, offered to its rest of the requests.
PublishOwn(m, rest) ==
  /\ gui' = Offer(gui, m, GuiCapacity)
  /\ requests' = Offer(rest, Own, LoadCapacity)

-----------------------------------------------------------------------------
(***************************************************************************)
(* Touches.  A control changes the display's copy of a channel and         *)
(* publishes a command.  The screens of all channels can be reached from   *)
(* one another, except that the numpad covers them until it is closed.     *)
(***************************************************************************)
Touched ==
  /\ commands < MaxCommands
  /\ commands' = commands + 1
  /\ UNCHANGED <<timeVars, loadVars>>

\* event_output_toggle and ui_set_output_local_with_inhibit
ToggleOutput(c) ==
  /\ pad = Closed
  /\ Touched
  /\ shown' = [shown EXCEPT ![c].on = ~@]
  /\ until' = [until EXCEPT ![c] = (tick + Inhibit) % Wrap]
  /\ PublishCommand(Command("output", c, IF shown[c].on THEN 0 ELSE 1))
  /\ UNCHANGED <<dialed, pad, astray>>

\* event_mode_change
ChooseMode(c, m) ==
  /\ pad = Closed
  /\ Touched
  /\ shown' = [shown EXCEPT ![c].mode = m]
  /\ PublishCommand(Command("set mode", c, m))
  /\ UNCHANGED <<dialed, until, pad, astray>>

\* What the display says of a cutoff that is dialed as s.
Said(s) == IF s.armed THEN s.threshold ELSE Disabled

\* publish_low_voltage_cutoff
PublishCutoff(c, value) ==
  /\ PublishCommand(Command("cutoff", c, value))
  /\ astray' = IF Len(requests) < LoadCapacity THEN astray \ {c} ELSE astray \cup {c}

\* event_cutoff_toggle
ToggleCutoff(c) ==
  /\ pad = Closed
  /\ Touched
  /\ dialed' = [dialed EXCEPT ![c].armed = ~@]
  /\ PublishCutoff(c, Said(dialed'[c]))
  /\ UNCHANGED <<shown, until, pad>>

\* ui_open_numpad, for the setpoint of the mode that is shown or for the cutoff.
OpenPad(c) ==
  /\ pad = Closed
  /\ commands < MaxCommands
  /\ \/ /\ shown[c].mode \in Selectable
        /\ pad' = [asks |-> "setpoint", ch |-> c, max |-> MaxOf[shown[c].mode + 1]]
     \/ pad' = [asks |-> "cutoff", ch |-> c, max |-> CutoffMax]
  /\ UNCHANGED <<shown, dialed, until, timeVars, loadVars, busVars, astray, commands>>

\* btn_cancel_event
CancelPad ==
  /\ pad # Closed
  /\ pad' = Closed
  /\ UNCHANGED <<shown, dialed, until, timeVars, loadVars, busVars, astray, commands>>

\* btn_ok_event: what was typed is cut to the limits the numpad opened with ...
Clamp(x) == IF x > pad.max THEN pad.max ELSE x

\* ... on_setpoint_confirmed: and belongs to the mode that is shown by now;
ConfirmSetpoint(x) ==
  /\ pad.asks = "setpoint"
  /\ pad' = Closed
  /\ Touched
  /\ IF shown[pad.ch].mode \in Selectable
       THEN PublishCommand(Command(Setpoint[shown[pad.ch].mode + 1], pad.ch, Clamp(x)))
       ELSE UNCHANGED busVars
  /\ UNCHANGED <<shown, dialed, until, astray>>

\* Mutant: a new threshold is kept for the next time the switch is touched.
ConfirmCutoffSilently(x) ==
  /\ pad.asks = "cutoff"
  /\ pad' = Closed
  /\ Touched
  /\ dialed' = [dialed EXCEPT ![pad.ch].threshold = Clamp(x)]
  /\ UNCHANGED <<shown, until, busVars, astray>>

\* ... on_cutoff_confirmed.
ConfirmCutoff(x) ==
  /\ pad.asks = "cutoff"
  /\ pad' = Closed
  /\ Touched
  /\ dialed' = [dialed EXCEPT ![pad.ch].threshold = Clamp(x)]
  /\ IF dialed[pad.ch].armed THEN PublishCutoff(pad.ch, Clamp(x)) ELSE UNCHANGED <<busVars, astray>>
  /\ UNCHANGED <<shown, until>>

-----------------------------------------------------------------------------
(***************************************************************************)
(* gui_queue_timer_cb.                                                     *)
(***************************************************************************)
InhibitOverLate(c) == tick > until[c]    \* Mutant: one tick later.

InhibitOver(c) == tick >= until[c]

LastOf(S) == CHOOSE k \in S : \A j \in S : j <= k

Arrived(cmds, c) == {k \in 1 .. Len(gui) : gui[k].cmd \in cmds /\ gui[k].ch = c}

\* The loop over the messages: each overwrites what came before it, so that the last
\* one counts.  A query of the mode by a client arrives too, as if it were the
\* answer.
Overwritten(c) ==
  LET outputs == Arrived({"measurement"}, c)
      modes == Arrived({"measurement", "mode"}, c)
  IN  [on |-> IF outputs # {} /\ InhibitOver(c) THEN gui[LastOf(outputs)].on ELSE shown[c].on,
       mode |-> IF modes # {} THEN gui[LastOf(modes)].value ELSE shown[c].mode]

Drain ==
  /\ gui # <<>>
  /\ gui' = <<>>
  /\ shown' = [c \in Channel |-> Overwritten(c)]
  /\ quiet' = [c \in Channel |-> IF Arrived({"measurement"}, c) = {} THEN quiet[c] ELSE 0]
  /\ UNCHANGED <<dialed, until, tick, pad, loadVars, requests, astray, commands>>

Tick ==
  /\ \A c \in Channel : quiet[c] < MaxQuiet
  /\ quiet' = [c \in Channel |-> quiet[c] + 1]
  /\ tick' = (tick + 1) % Wrap
  /\ UNCHANGED <<displayVars, loadVars, busVars, astray, commands>>

-----------------------------------------------------------------------------
(***************************************************************************)
(* The controller: it polls the channels in turn, then empties its queue.  *)
(***************************************************************************)
Armed(c) == cutoff[c] > 0 /\ cutoff[c] <= 998

\* dc_load_handle_low_voltage_cutoff, for what was read last: an output that was
\* on and below its cutoff is switched off, and the reading stays as it is.
Cutoff(c, on) ==
  \E low \in BOOLEAN :
    module' = IF low /\ on /\ Armed(c) THEN [module EXCEPT ![c].on = FALSE] ELSE module

PollOk ==
  /\ turn \in Channel
  /\ reading' = [reading EXCEPT ![turn] = module[turn]]
  /\ Cutoff(turn, module[turn].on)
  /\ PublishOwn(Measurement(turn, module[turn]), requests)
  /\ turn' = turn + 1
  /\ UNCHANGED <<displayVars, timeVars, cutoff, astray, commands>>

PollFail ==
  /\ turn \in Channel
  /\ Cutoff(turn, reading[turn].on)
  /\ PublishOwn(Measurement(turn, reading[turn]), requests)
  /\ turn' = turn + 1
  /\ UNCHANGED <<displayVars, timeVars, reading, cutoff, astray, commands>>

DrainDone ==
  /\ turn = NumChannels /\ requests = <<>>
  /\ turn' = 0
  /\ UNCHANGED <<displayVars, timeVars, module, reading, cutoff, busVars, astray, commands>>

\* A command is written to the module, or the request fails and it is lost.
Write(m) ==
  CASE m.cmd = "output" -> [module EXCEPT ![m.ch].on = (m.value = 1)]
    [] m.cmd = "set mode" -> [module EXCEPT ![m.ch].mode = m.value]
    [] OTHER -> module

Handle ==
  /\ turn = NumChannels /\ requests # <<>>
  /\ LET m == Head(requests)
     IN  /\ module' \in {module, Write(m)}
         /\ cutoff' = IF m.cmd = "cutoff" THEN [cutoff EXCEPT ![m.ch] = m.value] ELSE cutoff
         /\ IF m.cmd = "mode"
              THEN PublishOwn(Command("mode", m.ch, reading[m.ch].mode), Tail(requests))
              ELSE requests' = Tail(requests) /\ UNCHANGED gui
  /\ UNCHANGED <<displayVars, timeVars, reading, turn, astray, commands>>

\* Another client switches, sets the mode or asks for it (value 0) ...
Remote ==
  /\ commands < MaxCommands
  /\ commands' = commands + 1
  /\ \E c \in Channel :
       \/ \E v \in {0, 1} : PublishCommand(Command("output", c, v))
       \/ \E m \in Mode \cap Selectable : PublishCommand(Command("set mode", c, m))
       \/ PublishCommand(Command("mode", c, 0))
  /\ UNCHANGED <<displayVars, timeVars, loadVars, astray>>

\* ... or sets the cutoff with BATT:LVP, which the display does not take up.
RemoteCutoff(c, value) ==
  /\ commands < MaxCommands
  /\ commands' = commands + 1
  /\ PublishCommand(Command("cutoff", c, value))
  /\ astray' = IF Len(requests) < LoadCapacity THEN astray \cup {c} ELSE astray
  /\ UNCHANGED <<displayVars, timeVars, loadVars>>

-----------------------------------------------------------------------------
Touch ==
  \/ \E c \in Channel : ToggleOutput(c) \/ ToggleCutoff(c) \/ OpenPad(c)
  \/ \E c \in Channel, m \in Mode \cap Selectable : ChooseMode(c, m)
  \/ CancelPad
  \/ \E x \in Typed : ConfirmSetpoint(x) \/ ConfirmCutoff(x)

Load == PollOk \/ PollFail \/ DrainDone \/ Handle

Others == Remote \/ \E c \in Channel, x \in Typed : RemoteCutoff(c, x)

Next == Touch \/ Drain \/ Tick \/ Load \/ Others

Spec == Init /\ [][Next]_vars

\* LVGL runs its timers and the controller its loop; time passes.  A module
\* that is polled for ever answers again and again.
FairSpec ==
  Spec /\ WF_vars(Drain) /\ WF_vars(Tick) /\ WF_vars(Load) /\ SF_vars(PollOk)

-----------------------------------------------------------------------------
(***************************************************************************)
(* Properties.                                                             *)
(***************************************************************************)
Kind == {"measurement", "own", "mode", "output", "set mode", "cutoff",
         "set voltage", "set current", "set power", "set resistance"}
Message == [cmd : Kind, ch : Channel, value : Nat, on : BOOLEAN]

\* Type: the display's copy, the numpad, the queues and the controller.
TypeOK ==
  /\ shown \in [Channel -> [on : BOOLEAN, mode : Mode \cup {0, 1}]]
  /\ dialed \in [Channel -> [armed : BOOLEAN, threshold : 0 .. CutoffMax]]
  /\ until \in [Channel -> 0 .. Wrap - 1]
  /\ tick \in 0 .. Wrap - 1 /\ quiet \in [Channel -> 0 .. MaxQuiet]
  /\ \/ pad = Closed
     \/ pad \in [asks : {"setpoint"}, ch : Channel, max : Nat]
     \/ pad \in [asks : {"cutoff"}, ch : Channel, max : {CutoffMax}]
  /\ module \in [Channel -> [on : BOOLEAN, mode : Mode]]
  /\ reading \in [Channel -> [on : BOOLEAN, mode : Mode \cup {1}]]
  /\ cutoff \in [Channel -> Nat]
  /\ turn \in 0 .. NumChannels
  /\ gui \in Seq(Message) /\ Len(gui) <= GuiCapacity
  /\ requests \in Seq(Message) /\ Len(requests) <= LoadCapacity
  /\ astray \subseteq Channel
  /\ commands \in 0 .. MaxCommands

\* The threshold that will act on a channel: 0 stands for none.
Effective(x) == IF x > 0 /\ x <= 998 THEN x ELSE 0

WaitingCutoffs(c) == {k \in 1 .. Len(requests) : requests[k].cmd = "cutoff" /\ requests[k].ch = c}

\* Unless the display's last command about it was lost, or another client has
\* set it since, the cutoff the controller holds, or will hold when it has
\* emptied its queue, is the one the display shows (event_cutoff_toggle,
\* on_cutoff_confirmed, lv_cutoff_threshold): the switch and the number are
\* changed apart and published together, and nothing else takes a cutoff away
\* that the display shows.
CutoffAgrees ==
  \A c \in Channel \ astray :
    LET waiting == WaitingCutoffs(c)
        held == IF waiting = {} THEN cutoff[c]
                ELSE requests[CHOOSE k \in waiting : \A j \in waiting : j <= k].value
    IN  Effective(held) = Effective(Said(dialed[c]))

\* The window of a touched output ends so late before the counter wraps that
\* every measurement may miss what is left of it, round after round.
EndsAtWrap(c) == until[c] + MaxQuiet > Wrap

\* Once touches and clients cease, the display comes to show the output and the
\* mode of every module and keeps showing them, whatever messages were lost,
\* whichever requests failed, and although the tick counter may have wrapped
\* after a switch was touched; only an output touched just so that its window
\* ends at the wrap is excepted (gui_queue_timer_cb, s_output_inhibit_until).
DisplayConverges ==
  <>[](\A c \in Channel :
         /\ shown[c].on = module[c].on \/ EndsAtWrap(c)
         /\ shown[c].mode = module[c].mode)
=============================================================================
