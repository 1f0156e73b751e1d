# CPDEL: a TLA+ model of the electronic load's firmware

CPDEL is a two-channel DC electronic load: an ESP32 board with a display, a web
page and a telnet SCPI server in front of two SOUSIM load modules on a Modbus
line. This directory holds TLA+ modules of the firmware under `src/firmware`,
the TLC configurations that check them, and theorems checked by TLAPS.

Contents: [the system](#the-system), [plan](#plan), [modules](#modules-and-the-code),
[runs](#runs), [bounds](#bounds), [fairness](#fairness), [proofs](#proofs),
[findings](#what-the-code-does-otherwise-than-its-documents),
[not modelled](#what-is-not-modelled).

## The system

Every part runs as one or two FreeRTOS tasks of equal or close priority, and
reaches the others through one publish/subscribe bus.

| Part | State | Operations | Talks to |
|---|---|---|---|
| Bus, `src/app_bus.h` | array of queue handles, their count | subscribe, publish | every part; no lock |
| Load controller, `esp/main/dc_load_controller.c` | per channel: mode, enabled, last reading, setpoints, cutoff, tick of the last success; a queue of 16 | poll, cutoff, report, one case per command, stop | modules over Modbus; bus |
| Telnet server, `esp/main/scpi_server.c` | 2 client slots, subscriptions per channel and quantity, error latch; a queue of 8 | accept, read, execute a line, disconnect; reply task | TCP clients; bus; two tasks share its state without a lock |
| SCPI codec, `src/scpi.h` | none | decode, encode | telnet server, web server, simulator |
| Web server, `esp/main/web_server.c` | list of 2 web socket clients under a mutex; a queue of 8 | connect, remove, broadcast, POST of a command | browsers; bus |
| Wi-Fi, `esp/main/wireless_controller.c` | none of its own | events, signal strength every 2.5 s | bus |
| Boot and shutdown, `esp/main/main.c` | task handles | init in order, prepare for an update | all |
| Update, `esp/main/ota.c`, `src/ui/ui_ota.c` | image state in flash, an update flag | update, confirm | Wi-Fi state of the display |
| Archive, `src/rrd.c` | two rings of averaged points per channel, a slot in progress | ingest, read | bus; a mutex (its init call is commented out) |
| Display, `src/ui/*.c` | what the screens show per channel; the numpad and its callback | 100 ms drain of its queue, touch events | bus; one thread |
| Graph, `src/ui/ui_graph.c` | a ring of 60 points per channel | push by elapsed time | display |
| Simulator, `src/sim_controller.h` | setpoints, mode, output | answers like the controller | bus |

What is hard about it, and the property that makes each part correct:

* **Bus.** Publishers of higher priority run while `app_main` still subscribes;
  no lock protects the array. A full queue drops the message. Correct: no
  subscriber is skipped, each sees each publisher's messages in order and once,
  and a publisher never waits.
* **Load controller.** Transactions fail or time out after they were executed; the
  modules outlive a reset of the board; the controller hears itself on the bus;
  its queue is short and each command costs 200 ms. Correct: an output goes on
  by command only, an under-voltage is acted on before it is reported and ends
  the output, a setpoint is read back in the order it was sent and is in the module to the
  step of its register, a value not marked stale is recent, a query is answered once.
* **Telnet server.** Two tasks share the slots, subscriptions and error latch;
  socket numbers are reused; one task reads for all clients. Correct: slots and
  sockets agree, a subscription ends with its connection, errors are not lost,
  no open client's answer goes to another, what is sent is read.
* **Codec.** One decoder serves the telnet and the web server. Correct: a line that is
  meant as one is published as the message it stands for, as far as a C float can say it.
* **Web server.** The client list and the HTTP server's own list of connections
  drift apart; two tasks share the list under a mutex that each gives up on after 50 ms.
  Correct: the list holds the connected web sockets, dead ones leave it, no task waits for ever.
* **Update and Wi-Fi.** Whether an image may be confirmed hangs on one Wi-Fi event that the
  bus may lose; power may fail at any moment. Correct: a confirmed image is always left,
  confirmation is only online, an update that begins ends.
* **Display.** Local state that commands and measurements both write, over two lossy
  queues. Correct: it comes to show the state of the modules, and the cutoff it shows is the
  one that acts.
* **Archive and graph.** Time slots, gaps and full rings. Correct: what readers get is what a
  definition over the list of measurements gives.

The hazards, each with its line and the properties aimed at it, are listed in
`PROJECT.json`.

## Plan

Each part below is modelled, checked and, where the prover can reach it, proved; the order is
that of importance for the load and its user.

| Modules | Subject | State |
|---|---|---|
| `AppBus`, `BusService`, `AppBusProofs` | the bus and what it promises | checked, refinement and all safety proved |
| `DcLoad`, `DcLoadProofs` | the controller | checked, all safety proved |
| `ScpiServer`, `ScpiServerProofs` | the telnet server, by lines | checked, all safety proved |
| `ScpiCodec`, `WebServer`, `WebServerProofs` | the codec; the web server on top of it | checked, all safety proved |
| `Update`, `TwoSlots`, `UpdateProofs` | boot, Wi-Fi, the OTA and Wi-Fi screens, images and rollback; what flash promises | checked, refinement and all safety proved |
| `Display`, `DisplayProofs` | the touch display against the controller's loop | checked, all safety proved |
| `Rrd`, `Graph`, `History`, `HistoryProofs` | archives and chart against reference definitions | checked, all safety proved |
| `ScpiInput` | the bytes of one connection: line buffer of 64, IAC sequences, a slow reader; refines the lines of `ScpiServer` | open |
| `Instrument` | telnet client, `ScpiServer` and `DcLoad` joined by `BusService`, end to end | open |

`Display` and `Update` already compose: the first joins the screens, both queues and the poll
loop, the second joins boot, the Wi-Fi station, the bus's losses, the screens and the flash.

## Modules and the code

**`AppBus`** models `app_bus_subscribe` and `app_bus_publish` one memory access
at a time. `s_subscribers[s_sub_count++] = q` is two accesses in an order the
language leaves open, so `SubscribeStoreFirst` and `SubscribeCountFirst` are both
there and `FinishSubscribe` makes the other access. `Publish` enters the loop,
`Send` is one iteration (it reads `s_sub_count` again), `SendToNull` the assertion
of `xQueueSend` on a handle not yet stored, `Return` the end. A message is its
publisher and its rank; `last` and `lost` are history. An assertion stops the chip
(`halted`).

**`BusService`** is what the bus promises its users: per publisher and subscriber
a lossy channel that neither duplicates nor reorders. `AppBus!ImplementsService`
instantiates it on `issued` and `last`.

**`DcLoad`** is the controller task. `ReadOk`, `ReadFail`, `Cutoff` and `Report`
are one turn of the polling loop; each case of the switch is an action
(`HandleOutputState` ... `HandleQuery`), with the wait of 200 ms that follows it;
`Skip` is the two `continue`s. `WriteRegister` is a Modbus write: it works, or it
fails with or without having been executed. `regs` are the modules' holding
registers, `terminal` what they measure; both survive `Restart`. Time is counted
in 200 ms; `age` is the time since `last_success_tick`, capped just above the
threshold because only the comparison with it matters. Since the task is the only
one to touch its state, one action per transaction is the granularity at which
the environment can interfere. `doubt`, `wanted`, `asked`, `replied` and `since` are
history; `doubt` holds the registers whose last write failed, or that were not written since the
reset, so that their contents are unknown to the task. Values count steps of 1/`PerUnit` of a
unit. `Units` is the conversion to a register, `(uint16_t)(x * scale)`: it drops what is less than a step
of the register, by one step more where the product of floats may come out below a whole number,
and keeps 16 bits.

**`ScpiServer`** is the telnet server: the server task (`Select` ... `ServerExit`),
the reply task (`ReplyReceive` ... `ReplySend`), the clients and the TCP stack.
Every access of either task to what they share is a step of its own:
`ReplyTest`, `ReplyLoad` and `ReplyPush` are the test of `s_cont_volt[ch]`, its second
reading and the `send`; `ServeErrorTest`, `ServeErrorClear`, `ServeErrorSend` the
three accesses of `SYST:ERR?`. `owner` gives the connection behind a socket number,
lowest free number first as in lwIP. The controller is reduced to what the server
sees of it: `ControllerAnswer` (or no answer) and `ControllerMeasure`. Input is whole lines, by
kind. A connection that finds no slot is accepted and closed in two steps (`Reject`),
because the reply task may hold its number from before; `DisconnectClear` ends one
subscription at a time. The server also hears its own queries and commands on the bus;
the reply task skips them, and what they cost is that `queue_scpi` may be full at any time.

**`ScpiCodec`** is `scpi_decode` and `scpi_encode` as operators. A line is its header, the
number it carries for a channel, and a word or number; the tables say which header is which
command. `ChannelOf` is the cast to 8 bits after the decrement. Numbers are counted in steps
of their fourth decimal on a line and of their fifth in a message, which shows the rounding of
`%.4f`. The constant `Float` says which number of that fineness is the C float a line's number is
read into; it is within 4/100000 for numbers below 1024 (`FinelyRead`), and nothing is said of the others.

**`WebServer`** has two tasks. That of the HTTP server runs one handler at a time
(`Upgrade`, `CloseFrame`, `DiscardFrame`, `StaticFile`, `Post`); `ws_add_client` and
`ws_remove_client` are the wait for the mutex (`HttpdTakes`), the wait that ends after 50 ms
(`HttpdGivesUp`, after which the server ends the connection of a CLOSE frame all the same, as
`ws_handler` returns `ESP_OK`) and the work (`HttpdAdds`, `HttpdRemoves`). `ws_broadcast_task` receives, copies
the list under the mutex, sends without it, one place of the copy per step, and removes what
failed; a send may fail on a live connection too (`Send`). `Connect`, `Purge` and `Fail` are the library's own doings, which the list does not hear
of. The last actions are `web_server_stop` in its order, with the send through a freed server that
the order admits. `unheard` and `passed` are history: numbers whose last web socket ended without the list being told,
and web sockets that the list left out or a failed send removed.

**`Update`** goes from one reset to the next: `BootStep` is the order of `app_main`,
`StoreDefaults` the restart inside `wireless_init`, `BootLoader` what ESP-IDF does with image
states. The Wi-Fi station publishes its events (`WifiEvent`); the display's `connected` is
what `Drain` makes of those that arrived. The screens are one variable; `Loaded` and
`Unloaded` are the callbacks of the OTA screen, `RefreshTimer` the timer of a second. `ota_task`
is `StopNext` ... `Finish`. `PressConfirm`
may leave the image unconfirmed without a word, as the result of
`esp_ota_mark_app_valid_cancel_rollback` is ignored. `missed` is history.

**`TwoSlots`** is what the owner of a device is promised about the images in flash, whatever is
pressed and whenever power fails: a new image runs on probation; only a slot that does not run is erased, and
only while the image that runs is confirmed; only an erased slot is installed; an image on
probation that is left is given up for a confirmed one. `Update!ImplementsTwoSlots` instantiates it on
`image` and `running`: the confirmation is `Confirm`, the task's erasure `Erase`, `Finish` with the restart that
follows it `Install`, and any other restart with an image on probation `GiveUp`.

**`Display`** holds the display's copy of the channels, what measurements overwrite (`shown`)
apart from what only touches change (`dialed`), the numpad with the limit it opened with, and the
window in which a touched output is kept. `Drain` is `gui_queue_timer_cb` over the whole queue: of several
messages about one field the last one stays (`LastOf`, `Overwritten`). The
controller is there at the grain of its loop: `PollOk` and `PollFail` read one channel, cut it off
and publish, `Handle` takes one request. `Remote` is any other client
that switches an output or selects a mode, `RemoteCutoff` one that sends `BATT<ch>:LVP`, which the
controller obeys and the display ignores. `astray` is history: channels whose last command about the
cutoff found the controller's queue full or came from another client. `tick` wraps; `quiet`
counts the ticks since a measurement of a channel was drained, at most `MaxQuiet` of them, since a
round of the controller may contain timeouts of 1000 ms and a drain of its queue.

**`Rrd`** and **`Graph`** are operators on one archive and one chart buffer, a step of the code each
(`Ingest`, `GetPoints`, `PushTimed`, `Chart`); **`History`** feeds both the measurements of a
channel, each of which either may lose, and states what they should hold from the list of what
they were given (`Matches`, `ChartMatches`). `SlotOf` is the slot of time a measurement was made
in; `PointSlots` and `Averaged` state the one point of an archive that is not the mean of its own slot,
that of the first slot after boot. `NextColumn` is the column a measurement is drawn in, and `InTime`
what columns have to do with time. The archive's list carries a running total, so that the sum of a
slot is a difference of two totals, and the chart's the columns. The loop that fills a gap of the chart is `PushTimes`,
which writes all its values at once.

**`*Proofs`** and **`QueueLemmas`** hold the theorems; see [proofs](#proofs).

Definitions marked as mutants (a comment says which bug each stands for) are not
used by the specifications. Each is a plausible mistake that the property it is
listed with in `PROJECT.json` must reject.

## Runs

Passing:

| Run | States | Shows |
|---|---|---|
| `MCAppBus` | 197 131 | 3 queues for 2 slots, so that the assertion on the array is reached: types, order, no subscriber skipped; `app_bus_publish` returns whatever subscribers do; the bus implements `BusService` |
| `MCDcLoad` | 2 153 488 | two channels that power up with their outputs off, every case of the switch, a queue of two, a failing transaction, a reset, a changing input: cutoff before report, outputs on by command only, readback, module contents to the step of the register, answers |
| `MCDcLoadLive` | 247 486 | one channel, output on or off at power-up, two changes of the input, a failed read, a reset: `FreshMeansRecent`; every query that the switch has a case for is answered; an enabled output below its cutoff ends, once requests cease |
| `MCScpi` | 2.3 million | two clients, queries, subscriptions, telnet commands, both server tasks interleaved: subscriptions, error latch, answers |
| `MCScpiLive` | 89 466 | one slot and two connections, so that one is turned away: slots and sockets agree, lines are read, connections are decided |
| `MCWeb` | 135 459 | two sockets for three connections, the purge, silent ends, a timeout of the mutex, a failed send, a posted setpoint that no float holds exactly, the stop: list and connections agree, a posted line is published as written, both tasks come back, dead clients leave the list |
| `MCUpdate` | 996 492 | boot, one reset at any moment, one task that cannot be created or confirmation that fails, a queue of two: a confirmed image is left, the Wi-Fi flag follows the station, confirmation is online only, flash implements `TwoSlots`, an update ends in a restart |
| `MCDisplay` | 1 230 978 | two touches or remote commands, queues that overflow, requests that fail, a tick counter that wraps: the cutoff shown is the one that acts unless another client set it, the display comes to agree with the modules |
| `MCHistory` | 286 089 | four measurements with gaps from none to longer than every ring, each possibly lost on the way to either: archives hold the mean of each slot, with the first after boot as the one exception; the chart shows the newest columns and never claims more time than passed |

The runs that TLC must find violated are the [findings](#what-the-code-does-otherwise-than-its-documents).

Deadlock is checked in `MCUpdate` and `MCDisplay`, whose systems always have a next step. It is
not in the others because they stop: publishers, clients and measurements
are bounded, `Stop` ends the tasks before an update, a failed assertion ends everything.

## Bounds

`MaxMessages`, `MaxRequests`, `MaxLines`, `MaxMeasurements` bound what the environment
sends; `MaxFaults`, `MaxRestarts`, `MaxChanges` what goes wrong. Two or three
messages against queues of one or two fill and overflow every queue; one fault
and one reset are enough because a second meets the same states as the first (a
read that failed leaves nothing behind but `age`). The bus has two publishers, as
interference is between pairs, and more queues than slots. Two connections on two
slots and two numbers let a pair of open clients interfere, and one reuse the number of
the other; the same two on one slot give the rejected connection and the freed slot. The channels
of the controller do not interact except through `poll` and the one queue: two show
that. Values are the few that the code tells apart: below and above the cutoff,
a valid and an invalid mode, an existing channel and one that is not there. Symmetry is
used only in runs without liveness properties.

* `MCDcLoad`: a value has four decimals (`PerUnit` 10000). Requests are one of each case of the switch, setpoints
  that a register cannot hold (5.5555 V, 0.5555 A) and one that it holds exactly (0.29 V), a mode with a fraction, an
  invalid one, a query without a case, and a channel that is not there.
* `MCWeb`: two numbers and three connections make a number change hands and bring the purge; the
  third connection meets a list with stale entries. A list that is full of other numbers needs a third
  socket; that case rests on `WebListAgrees`, which is proved for any number. One
  timeout falls on either task. Bodies: 700.0002 A on the last channel of 8 bits, which the nearest
  float misses by 2/100000, and a line that cannot be read.
* `MCUpdate`: one unasked reset meets every other state; `MinUptime` 1 is "not yet" and
  "long enough"; a queue of two loses an event behind another message.
* `MCDisplay`: the first touch opens a difference between display and controller, the second
  changes it while the first is on its way. A measurement fills `queue_gui`, `queue_dc_load` takes two, so
  that every message can be lost. Mode CV is selected, CVCC is one the module may have been
  left in and the numpad does not know. Modules may be on at power-up, so that the cutoff can trip.
  A window of one tick in a counter of three meets its wrap, with up to two ticks between measurements. 1000 is typed
  on the numpad, which clamps it to 998, or sent by a client, which disarms the cutoff.
* `MCHistory`: slots of 2 and 4, rings of 2 points (chart: 3), delays of 0, 1, 3 and 9: within a slot,
  across one, beyond every ring; four measurements overwrite a ring.

## Fairness

* `AppBus!FairSpec`: weak fairness of each publisher's loop step. A task inside
  `app_bus_publish` never waits, and FreeRTOS schedules every ready task of its
  priority in turn. Nothing is assumed of subscribers.
* `DcLoad!FairSpec`: weak fairness of the task. A transaction ends within
  `response_tout_ms`, and the other tasks block most of the time. Nothing is assumed of
  clients: they may stop sending, and their requests are bounded — with clients
  that never pause (`MCDcLoad!FloodSpec`) the cutoff is starved, which is a finding.
* `ScpiServer!FairSpec`: weak fairness of the server task and of the reply task. `select`
  returns when something is readable. Clients need not send, close or read.
* `WebServer!FairSpec`: weak fairness of both tasks once they run. Strong fairness of taking the
  mutex, because `xSemaphoreGive` wakes the task that waits for it; a task that waits gets it or gives up. Strong
  fairness of a measurement reaching the queue, because the controller polls for ever.
  Nothing is assumed of browsers.
* `Update!FairSpec`: weak fairness of the boot sequence, of the LVGL timers (`Drain`, `RefreshTimer`)
  and of the update task, whose HTTP client has timeouts. Nothing is assumed of Wi-Fi, of
  the user or of power.
* `Display!FairSpec`: weak fairness of the LVGL timer, of time and of the controller task, and
  strong fairness of a poll that succeeds: a module that is polled for ever and never answers cannot be
  shown. At most `MaxQuiet` ticks
  pass between two drained measurements of a channel (`Tick`): a round of the controller is bounded, Modbus timeouts
  and the drain of its queue included.

## Proofs

`AppBusProofs` proves for every set of publishers and subscribers, every length of
the array, all capacities and message counts (assumption `BusAssumption`: the
sizes are naturals, the array has a slot, `NoQueue` is no queue):

* `BusCorrect`: `Spec => []BusInv`, the inductive invariant. `QueueOrdered` and
  `Accounted` are not inductive by themselves. That a publication finds no copy of its
  message in the queue it is about to serve (`FirstOffer`) needs to know that a queue
  sits in one slot only (`SlotsInv`) and that a queue that has the message lies
  below the loop index (`ServedInv`); that slots already passed keep their queue
  needs the shape of the array in the window of a subscription (`SlotsInv`, `SlotsStable`).
  `BusInv` is their conjunction.
* `BusTyped`, `BusOrdered`, `BusAccounted`: its parts, which `MCAppBus` checks.
* `BusPanic`: `PanicOnlyInSubscribe`, from `BusInv`: a null slot below the count exists
  only between the two accesses of a subscription.
* `BusImplementsService`: every step of the bus is a step of `BusService` or leaves it alone.

`DcLoadProofs` proves for every number of channels, any requests and readings, every
length of the queue and all bounds (assumption `DcLoadAssumption`: the sizes and times
are naturals, there is a channel and the queue has a place, requests, readings and
power-up values have numbers in their fields):

* `DcLoadTyped`: the type invariant, which is inductive. `TypeParts` cuts it into the
  parts that the clock, a write of a register, an offer to the queue and the task's own
  copy answer for; each has a lemma, and the actions cite the lemmas of the parts they touch.
* `DcLoadOnOnlyByCommand`: an action property. A step that turns an `enable` register from FALSE to TRUE handles
  the oldest command of the queue, an ON from a client for that channel (`HandlesOn`); every other step leaves
  the registers alone or writes FALSE, whether its write fails or not.
* `DcLoadFresh`: `FreshMeansRecent`. Not inductive by itself, because nothing in it relates
  the age of a reading to the time since the module measured that value; `FreshInv` says
  that the second is at most the first, and that what a module measures now has been
  measured now. A transaction that fails advances both by the same time (`OlderMonotone`).
* `DcLoadCutoffBeforeReport`, through any failures: a failed write of the switch puts it in `doubt`, which is all
  that is excepted.

`QueueLemmas` has the facts about queues that two of the modules share. `Follows(q, T, x, w)` says that
whoever starts from `x` and takes the messages of `T` in the queue `q`, oldest first, ends with `w`;
appending another message, appending one of `T`, and taking the head each preserve it in their way. This
replaces looking ahead over the whole queue by one fact per step.

With it `DcLoadProofs` proves what looks into the controller's queue:

* `DcLoadReadback`: `ReadbackFollowsSet`. The setpoint wanted last is the one the queue leads
  to from what the task holds (`FollowsOutcome`).
* `DcLoadSetpoints`: `RequestsFit /\ Spec => []SetpointInModule`. Without the premise, that requests fit
  16 bits in the register's units, it is false. The proof carries the same for messages in the
  queue (`ModuleInv`). What is excepted is a register in `doubt`: failures are not bounded.
* `DcLoadAnsweredOnce`: `AnsweredOnce`, by the cardinality of the set of waiting queries:
  answers given and queries waiting together never exceed the queries asked.

`ScpiServerProofs` proves for every number of slots, sockets, connections and channels, and every
length of the queue (assumption `ScpiAssumption`):

* `ScpiTyped`; `ScpiSlots`, which needs `SocketInv`: a socket has one connection and a connection one
  socket, the backlog holds a connection once, and at most one socket is in no slot, the one being decided.
* `ScpiSubscriptions` and `ScpiStray`: `StrayInv` ties the one reading that may go astray to the socket
  number the reply task has loaded.
* `ScpiErrors`, an action property. `ScpiAnswers`: a query on its way names the socket of its
  asker or the asker has closed (`QueryOK`), which holds because a closed connection stays closed
  and a socket keeps its connection until then (`NetProgress`).

`WebServerProofs` proves for every set of sockets, every size of list and queue, all bodies
(assumption `WebAssumption`):

* `WebTyped`, `WebListAgrees`: `ListAgrees` speaks of moments without a handler, so its inductive form also
  says what holds while one is at work (`HandlerInv`, `RemovalInv`, `ListedOnce`, `SocketListed`, `ListedSocket`).
* `RoundTrip`: encoding what was decoded gives back every well-formed line (`WellFormed`), for channels 1 to 256 and
  numbers of four decimals below 1024. The float a number is read into is less than half of the fourth decimal away,
  so that `%.4f` finds it again (`FloatBack`, `DecimalsBack`). `WebPosted` follows, as what is published is what
  was decoded; like it, it says nothing of channels 0 and 257 and of larger numbers, where it is false.
* `SettingEcho`: the other way round something is lost, half of the fourth decimal by the rounding (`DecimalsClose`)
  and the float's part, less than one fourth decimal together (9/100000), and only once: the setting
  read back is written as the same line.

`UpdateProofs` proves for any resets, failures and capacities (assumption `UpdateAssumption`):

* `UpdateTyped`. `UpdateFallback`: `FallbackInv` adds that the update section is only offered, and the update
  task only runs, while the running image is valid, so what is erased is never the last valid one.
* `UpdateFlag`: `FlagInv`; the messages that wait, read in order, lead to the state of the station.
* `UpdateConfirmedOnline`: no other step than the button makes a pending image valid
  without a change of slot; the rest is `FlagFollowsWifi`.
* `UpdateImplementsTwoSlots`: each step of `Update` is one of `TwoSlots` or leaves the images alone. `SlotsInv` adds to
  `FallbackInv` that while an update is written the other slot is erased; `RestartSlots` is the case of a
  reset, wherever it comes. `TwoSlotsFallback`: any system that refines `TwoSlots` keeps an image to fall back to.

`DisplayProofs` proves for any number of channels, lengths of queues and commands of others
(assumption `DisplayAssumption`):

* `DisplayTyped`. It needs to know more of the messages than `TypeOK` says, because `Drain` copies what it
  takes and the controller writes what it is told: a measurement or an answer that waits for the display carries what can
  be shown (`ForDisplay`), a mode that waits for the controller is one (`ForLoad`).
* `DisplayCutoff`: `CutoffAgrees`. `HeadingInv` says with `Follows` that what the controller holds
  is led by the waiting requests to what is dialed, for every channel that is not `astray`: a touch that is
  queued takes it out again, a lost one or a cutoff that another client sets puts it in.

`HistoryProofs` proves for slots, rings and charts of any size, any sequence of measurements and any losses
(assumption `HistoryAssumption`: the sizes are positive, times and values are naturals):

* `HistoryTyped`, `HistoryArchives`, `HistoryChart` from one inductive invariant, `HistoryInv`. `ArchivesMatch` is not
  inductive, as it speaks of the list and of what readers see: `ArchiveInv` says that the slot in progress is the last
  slot of the list, that its sum and number are those of the measurements in it, and that the ring
  holds the newest of the slots before it. `GraphInv` says that the ring, read back from its head, is
  the series with one value per column read back from its end, and `Timed` bounds what consecutive columns lose
  against time. The inductive form counts slots as the code closes them (`CountIn`, `CountMatches`); `PointsMatch`
  and `CountsAveraged` show that these are the slots of `Averaged`.
* `PushTimesIsTheLoop`: the closed form of the chart's gap is the code's loop, one `buf_push` after the other.

Sums and loops are written as running totals and closed forms, and not as folds, because a fold over the
list can only be reasoned about by induction over data, for which the library's theorems need an operator
parameter that the installed provers cannot instantiate. `TLC` evaluates the same definitions.

Every invariant and every action property that a run checks is proved, and so are both refinements. Only model-checked
is liveness: `PublishReturns`, `QueriesAnswered`, `UndervoltageEndsOutput`, `LinesRead`, `ConnectionDecided`,
`TasksReturn`, `StaleLeaves`, `UpdateEnds` and `DisplayConverges` rest on fairness and ENABLED, which are beyond the
prover.

## What the code does otherwise than its documents

Runs that TLC must find violated; `PROJECT.json` quotes the lines.

* `MCDcLoadFlood`: five commands a second keep the controller from polling; an output
  below its cutoff stays on.
* `MCScpiReuse`: an answer goes to the next connection with the same socket number.
* `MCScpiIac`: after one IAC byte the server waits in a `recv` for the next one, and with it every client.

The actions of the modules also show these, which no run is spent on:

* `Offer` of `AppBus`: `docs/report.md` says the bus "broadcasts every published message
  to all subscribers"; a full queue loses it.
* `HandleSetPower`: the comment says tenths of a watt, the code writes hundredths.
* `Answerable`: `SOUR<ch>:POW?` and `SOUR<ch>:RES?` are documented (`docs/report.md:202,204`), decoded, enter the queue
  and are never answered, because the switch has no case for them. `QueriesAnswered` is about the others.
* `Units`: a setpoint is truncated to the step of its register, 10 mV or 1 mA, and `SOUR<ch>:VOLT?` answers the number
  as sent: 0.5555 A is reported while the module holds 555 mA.
* `ChannelOf`: channel 257 addresses the first, channel 0 becomes 255; nothing checks it.
* `Decode`: a number is read into a C float, so that from 1024 up decimals are lost: 2048.1234 becomes 2048.1233.
* `HttpdGivesUp`: when `ws_remove_client` does not get the mutex in the CLOSE handler, the connection ends and its number
  stays in the list, until a send fails or the number is used again.
* `PressConfirm`: `confirm_pending_ota` ignores the result of `esp_ota_mark_app_valid_cancel_rollback`.
* `RemoteCutoff`: a `BATT<ch>:LVP` from another client (`docs/report.md:228,269`) changes the controller's cutoff, and
  the display goes on showing its own: it may show an armed cutoff that is disarmed.
* `Elapse` in the drain: a burst of commands makes an answer stale although no
  Modbus transaction failed.
* `ServeCont`: a second subscriber to a quantity displaces the first without a word.
* `OUTP<ch>:STAT?` matches the command's pattern and switches the output off; `SOUR:FUNC?` answers
  a name, of the mode that was polled last.
* `Post`: "OK" is answered also when a full queue lost the command.
* `BcastRemoves`: a send that failed for a connection that is gone removes the number after a new web
  socket has taken it. The new client gets no measurements, without being told.
* `ConfirmSetpoint`: a numpad opened for one mode confirms for the mode shown by then, with the first
  one's limit: a voltage may be sent as a current.
* `Seen`: the display does nothing with commands, so its setpoints never follow those of other clients.
* `InhibitOver` compares ticks without regard to the wrap: a window that ends just before it may keep the
  measured output from being shown until the counter comes round (`EndsAtWrap`, which `DisplayConverges` excepts).
* `PressUpdate`: when the update task cannot be created, a dialogue without a button stays until a reset.
* `SaveRefused`: credentials that do not fit are dropped without a word; `SaveAndReboot` restarts, which rolls
  back an image that is not confirmed yet.
* `Started`: the first slot after boot starts at time 0, which stands for "none", so its measurements are merged into
  the next slot that has any; `docs/report.md:339` says "Values are averaged within each time slot."
  `ArchivesMatch` states it as the one exception.
* `PushTimed`: the time of reference moves with every measurement, so a channel measured more often than every
  200 ms would never advance, and several slots become one column; `ui_graph.c:86` says "keep a single point per time
  slot". `ChartMatches` therefore speaks of columns, and `InTime` bounds what they lose against time. `rrd_init` is called by the simulator only.

## What is not modelled

* `ScpiInput`: the bytes of a connection. `ScpiServer` reads whole lines; the buffer of 64 bytes, a line cut
  at its end, what `sscanf` accepts beyond well-formed lines, and a `send` that blocks because its client does
  not read are outside.
* `Instrument`: the end-to-end composition. Each server and the controller are joined to an abstraction of the other,
  and `BusService` is the seam.
* The simulator: a stand-in for the controller on a PC, which no part of the device depends on. It shares
  none of the controller's loop and is a tool of development.
* The web page's script: one event at a time in each browser; to the device a client that posts lines.
* Drivers (SPI display, I2C touch, UDP log), layout, wording and logging: no state that another part reads.
* Setpoints as screens show them and the keys of the numpad: text that no other part reads until it is confirmed.
* The 32-bit tick after 49 days, in ages and archives: ages are capped, not wrapped. `Display` does wrap.
* `scpi_server_stop` closing a listener that the server task closes again: the model
  closes it once. Memory of LVGL after `lv_deinit`.
* The 10 ms wait after an empty queue and the duration of a successful transaction,
  which are below the unit of time.
