------------------------------- MODULE DcLoad -------------------------------
(***************************************************************************)
(* The Modbus controller task of src/firmware/esp/main/dc_load_controller.c*)
(* with the load modules behind it and the queue in front of it.           *)
(*                                                                         *)
(* The task polls the modules in turn (read the input registers, switch    *)
(* the output off if the voltage is below the cutoff, publish the          *)
(* measurement, wait), then drains its queue: it writes the registers a    *)
(* client asked for and answers queries from what it last read.  It is     *)
(* itself a subscriber of the bus, so its publications come back to its    *)
(* own queue.  A Modbus transaction may fail, and a write that failed may  *)
(* still have reached the module.  The modules keep their registers when   *)
(* the firmware restarts.                                                  *)
(*                                                                         *)
(* Time is counted in units of the 200 ms the task waits after a poll and  *)
(* after a command, and values in steps of 1/PerUnit of a volt, an ampere, *)
(* a watt or an ohm, so that what a register cannot hold is there to lose. *)
(***************************************************************************)
EXTENDS Naturals, Sequences, FiniteSets

CONSTANTS
  NumDevices,     \* DC_LOAD_DEVICE_COUNT
  Client,         \* the reply_socket values clients use; 0 is the default
  Request,        \* the commands clients send: [cmd, channel, value]
  Reading,        \* what a module can measure: [voltage, current]
  PowerUp,        \* the holding registers the modules may start with
  PerUnit,        \* the steps that make a unit of a value
  QueueLength,    \* the length of queue_dc_load
  StaleTicks,     \* MODBUS_STALE_TICKS
  TimeoutTicks,   \* response_tout_ms: what a failed transaction costs
  BootTicks,      \* time from reset to the start of the task
  MaxRequests,    \* bound: requests clients send
  MaxFaults,      \* bound: Modbus transactions that fail
  MaxRestarts,    \* bound: resets of the controller board
  MaxChanges      \* bound: changes of what the modules measure

ASSUME DcLoadAssumption ==
  /\ NumDevices \in Nat \ {0}
  /\ Client \subseteq Nat
  /\ Request \subseteq [cmd : STRING, channel : Nat, value : Nat]
  /\ Reading \subseteq [voltage : Nat, current : Nat]
  /\ PowerUp \subseteq [enable : BOOLEAN, mode : Nat, voltage : Nat, current : Nat,
                        power : Nat, resistance : Nat]
  /\ QueueLength \in Nat \ {0} /\ PerUnit \in Nat \ {0}
  /\ StaleTicks \in Nat /\ TimeoutTicks \in Nat /\ BootTicks \in Nat
  /\ MaxRequests \in Nat /\ MaxFaults \in Nat /\ MaxRestarts \in Nat /\ MaxChanges \in Nat

VARIABLES
  pc,         \* where the task is: "read", "cutoff", "report", "drain" or "stopped"
  poll,       \* the device being polled
  mb_err,     \* the last read failed
  dev,        \* s_dc_load_state.devices[] without last_success_tick
  age,        \* now - last_success_tick, per device, up to StaleTicks + 1
  queue,      \* queue_dc_load
  regs,       \* the holding registers of the modules
  terminal,   \* what each module measures now
  since,      \* ticks since the module last measured a value, up to StaleTicks + 1
  doubt,      \* the registers whose last write of this boot failed or never was
  wanted,     \* the last setpoints accepted into the queue, per device
  asked,      \* per client, the queries accepted into the queue
  replied,    \* per client, the answers published
  budget      \* what is left of the bounds

\* The firmware's variables, the modules' and the history kept for the properties.
taskVars == <<pc, poll, mb_err, dev>>
historyVars == <<doubt, wanted, asked, replied>>
vars == <<taskVars, age, queue, regs, terminal, since, historyVars, budget>>

Device == 0 .. NumDevices - 1

\* The queries docs/report.md offers, and two of them the switch has no case for.
Query == {"MEAS_VOLT", "MEAS_CURR", "SOUR_VOLT", "SOUR_CURR", "SOUR_MODE",
          "SOUR_POW", "SOUR_RES"}
Unserved == {"SOUR_POW", "SOUR_RES"}

\* Mutant: the case of SOUR_MODE is missing.
AnswerableButMode == {"MEAS_VOLT", "MEAS_CURR", "SOUR_VOLT", "SOUR_CURR"}

\* The queries the switch answers.
Answerable == {"MEAS_VOLT", "MEAS_CURR", "SOUR_VOLT", "SOUR_CURR", "SOUR_MODE"}

LOAD_MODE_CC == 1
LOAD_MODE_CVCC == 4

\* A voltage or current that was never measured.
Unread == [voltage |-> 0, current |-> 0]

\* Mutant: the remainder is rounded up, not cut off.
UnitsRoundedUp(value, scale) ==
  {((value * scale + PerUnit - 1) \div PerUnit) % 65536}

\* What (uint16_t)(value * scale) may be: the whole steps of the register.  The
\* product is a float: of a fraction that fills a step exactly (0.29 V) it may
\* fall short, and the register gets one less.
Units(value, scale) ==
  LET steps == (value * scale) \div PerUnit
      exact == (value * scale) % PerUnit = 0 /\ value % PerUnit # 0
  IN  {n % 65536 : n \in {steps} \cup (IF exact THEN {steps - 1} ELSE {})}

\* The holding registers the task writes.
Register == {"enable", "mode", "voltage", "current", "power", "resistance"}

BootDevice ==
  [mode |-> LOAD_MODE_CC, is_enabled |-> FALSE, reading |-> Unread,
   command_voltage |-> 0, command_current |-> 0, lv_cutoff_threshold |-> 999 * PerUnit]

Older(t, n) == IF t + n > StaleTicks THEN StaleTicks + 1 ELSE t + n

Init ==
  /\ pc = "read" /\ poll = 0 /\ mb_err = FALSE
  /\ dev = [d \in Device |-> BootDevice]
  /\ age = [d \in Device |-> Older(0, BootTicks)]
  /\ queue = <<>>
  /\ regs \in [Device -> PowerUp]
  /\ terminal \in [Device -> Reading]
  /\ since = [d \in Device |->
                [r \in Reading |-> IF r = terminal[d] THEN 0 ELSE StaleTicks + 1]]
  /\ doubt = [d \in Device |-> Register]
  /\ wanted = [d \in Device |-> [voltage |-> 0, current |-> 0]]
  /\ asked = [c \in Client |-> 0]
  /\ replied = [c \in Client |-> 0]
  /\ budget = [requests |-> MaxRequests, faults |-> MaxFaults,
               restarts |-> MaxRestarts, changes |-> MaxChanges]

-----------------------------------------------------------------------------
\* n ticks pass; every module goes on measuring what it measures.
AgedBy(n) == [d \in Device |-> Older(age[d], n)]
SinceBy(n) ==
  [d \in Device |-> [r \in Reading |->
     IF r = terminal[d] THEN 0 ELSE Older(since[d][r], n)]]

Elapse(n) == age' = AgedBy(n) /\ since' = SinceBy(n)

Fault ==
  /\ budget.faults > 0
  /\ budget' = [budget EXCEPT !.faults = @ - 1]

\* mbc_master_send_request with MB_FUNC_WRITE_HOLD_REG, then a wait of n ticks.
\* A failed write may have been executed: only its answer was lost.
WriteRegister(d, reg, value, n) ==
  LET written == [regs EXCEPT ![d][reg] = value]
  IN  \/ /\ regs' = written
         /\ doubt' = [doubt EXCEPT ![d] = @ \ {reg}]
         /\ Elapse(n)
         /\ UNCHANGED budget
      \/ /\ regs' \in {regs, written}
         /\ doubt' = [doubt EXCEPT ![d] = @ \cup {reg}]
         /\ Fault
         /\ Elapse(n + TimeoutTicks)

NoWrite(n) == Elapse(n) /\ UNCHANGED <<regs, doubt, budget>>

\* Mutant: the queue has no limit.
OfferUnbounded(q, m) == Append(q, m)

\* app_bus_publish, as far as queue_dc_load is concerned: a full queue drops it.
Offer(q, m) == IF Len(q) < QueueLength THEN Append(q, m) ELSE q

Stale(d) == age[d] > StaleTicks

-----------------------------------------------------------------------------
(***************************************************************************)
(* The polling half of dc_load_controller_task.                            *)
(***************************************************************************)
ReadOk ==
  /\ pc = "read"
  /\ dev' = [dev EXCEPT ![poll].mode = regs[poll].mode,
                        ![poll].is_enabled = regs[poll].enable,
                        ![poll].reading = terminal[poll]]
  /\ age' = [age EXCEPT ![poll] = 0]
  /\ mb_err' = FALSE
  /\ pc' = "cutoff"
  /\ UNCHANGED <<poll, queue, regs, terminal, since, historyVars, budget>>

\* Mutant: last_success_tick is set before the error return.
ReadFailCountsAsSuccess ==
  /\ pc = "read"
  /\ Fault
  /\ age' = [AgedBy(TimeoutTicks) EXCEPT ![poll] = 0]
  /\ since' = SinceBy(TimeoutTicks)
  /\ mb_err' = TRUE
  /\ pc' = "cutoff"
  /\ UNCHANGED <<poll, dev, queue, regs, terminal, historyVars>>

ReadFail ==
  /\ pc = "read"
  /\ Fault
  /\ Elapse(TimeoutTicks)
  /\ mb_err' = TRUE
  /\ pc' = "cutoff"
  /\ UNCHANGED <<poll, dev, queue, regs, terminal, historyVars>>

\* The cutoff is set: 0 and anything above 998 V mean that it is off.
Armed(d) == dev[d].lv_cutoff_threshold > 0 /\ dev[d].lv_cutoff_threshold <= 998 * PerUnit

\* Mutant: the comparison with the threshold is swapped.
TripsAbove(d) ==
  /\ dev[d].is_enabled
  /\ Armed(d)
  /\ dev[d].reading.voltage > dev[d].lv_cutoff_threshold

\* Mutant: the staleness test the TODO asks for, the wrong way round.
TripsWhenStale(d) ==
  /\ dev[d].is_enabled
  /\ Armed(d)
  /\ Stale(d)
  /\ dev[d].reading.voltage < dev[d].lv_cutoff_threshold

\* dc_load_handle_low_voltage_cutoff switches the output off.
Trips(d) ==
  /\ dev[d].is_enabled
  /\ Armed(d)
  /\ dev[d].reading.voltage < dev[d].lv_cutoff_threshold

Cutoff ==
  /\ pc = "cutoff"
  /\ IF Trips(poll) THEN WriteRegister(poll, "enable", FALSE, 0) ELSE NoWrite(0)
  /\ pc' = "report"
  /\ UNCHANGED <<poll, mb_err, dev, queue, terminal, wanted, asked, replied>>

\* respond_measurement, the wait, and the step to the next device.
Report ==
  /\ pc = "report"
  /\ queue' = Offer(queue, [source |-> "CTRL", cmd |-> "SCPI_MEASUREMENTS",
                            channel |-> poll, value |-> 0, reply |-> 0])
  /\ NoWrite(1)
  /\ IF poll + 1 < NumDevices
       THEN poll' = poll + 1 /\ pc' = "read"
       ELSE poll' = 0 /\ pc' = "drain"
  /\ UNCHANGED <<mb_err, dev, terminal, wanted, asked, replied>>

-----------------------------------------------------------------------------
(***************************************************************************)
(* The draining half: one action per case of the switch.  Each takes the   *)
(* oldest message, acts on it and waits 200 ms; the messages the task does *)
(* not handle are skipped, with or without the wait.                       *)
(***************************************************************************)
Draining == pc = "drain" /\ queue # <<>>

\* Mutant: the task does not skip its own publications.
HandledWithEcho(m) == m.channel < NumDevices

\* The message passes the two tests that precede the switch.
Handled(m) == m.source # "CTRL" /\ m.channel < NumDevices

Take(cmds) ==
  /\ Draining
  /\ Handled(Head(queue))
  /\ Head(queue).cmd \in cmds

\* Mutant: the write goes to the device polled last.
HandleOutputStateOfPolled ==
  /\ Take({"OUTPUT_STATE"})
  /\ WriteRegister(poll, "enable", Head(queue).value # 0, 1)
  /\ queue' = Tail(queue)
  /\ UNCHANGED <<taskVars, terminal, wanted, asked, replied>>

HandleOutputState ==
  /\ Take({"OUTPUT_STATE"})
  /\ WriteRegister(Head(queue).channel, "enable", Head(queue).value # 0, 1)
  /\ queue' = Tail(queue)
  /\ UNCHANGED <<taskVars, terminal, wanted, asked, replied>>

\* (uint8_t)value
ModeOf(value) == (value \div PerUnit) % 256

HandleSetMode ==
  /\ Take({"SET_MODE"})
  /\ LET mode == ModeOf(Head(queue).value)
     IN  IF mode > LOAD_MODE_CVCC
           THEN NoWrite(1)
           ELSE WriteRegister(Head(queue).channel, "mode", mode, 1)
  /\ queue' = Tail(queue)
  /\ UNCHANGED <<taskVars, terminal, wanted, asked, replied>>

\* Mutant: the setpoint is remembered only if the write was acknowledged.
HandleSetVoltageIfWritten ==
  /\ Take({"SET_VOLTAGE"})
  /\ LET m == Head(queue)
     IN  /\ \E u \in Units(m.value, 100) : WriteRegister(m.channel, "voltage", u, 1)
         /\ dev' = IF budget' = budget
                     THEN [dev EXCEPT ![m.channel].command_voltage = m.value]
                     ELSE dev
  /\ queue' = Tail(queue)
  /\ UNCHANGED <<pc, poll, mb_err, terminal, wanted, asked, replied>>

\* The setpoint is remembered whether or not the write succeeds.
HandleSetVoltage ==
  /\ Take({"SET_VOLTAGE"})
  /\ LET m == Head(queue)
     IN  /\ dev' = [dev EXCEPT ![m.channel].command_voltage = m.value]
         /\ \E u \in Units(m.value, 100) : WriteRegister(m.channel, "voltage", u, 1)
  /\ queue' = Tail(queue)
  /\ UNCHANGED <<pc, poll, mb_err, terminal, wanted, asked, replied>>

HandleSetCurrent ==
  /\ Take({"SET_CURRENT"})
  /\ LET m == Head(queue)
     IN  /\ dev' = [dev EXCEPT ![m.channel].command_current = m.value]
         /\ \E u \in Units(m.value, 1000) : WriteRegister(m.channel, "current", u, 1)
  /\ queue' = Tail(queue)
  /\ UNCHANGED <<pc, poll, mb_err, terminal, wanted, asked, replied>>

HandleSetPower ==
  /\ Take({"SET_POWER"})
  /\ \E u \in Units(Head(queue).value, 100) :
       WriteRegister(Head(queue).channel, "power", u, 1)
  /\ queue' = Tail(queue)
  /\ UNCHANGED <<taskVars, terminal, wanted, asked, replied>>

HandleSetResistance ==
  /\ Take({"SET_RESISTANCE"})
  /\ \E u \in Units(Head(queue).value, 10) :
       WriteRegister(Head(queue).channel, "resistance", u, 1)
  /\ queue' = Tail(queue)
  /\ UNCHANGED <<taskVars, terminal, wanted, asked, replied>>

HandleSetLowVoltageProtection ==
  /\ Take({"SET_LOW_VOLTAGE_PROTECTION"})
  /\ dev' = [dev EXCEPT ![Head(queue).channel].lv_cutoff_threshold = Head(queue).value]
  /\ NoWrite(1)
  /\ queue' = Tail(queue)
  /\ UNCHANGED <<pc, poll, mb_err, terminal, wanted, asked, replied>>

\* What the task answers to a query, from its own copy of the device.
AnswerValue(m) ==
  CASE m.cmd = "MEAS_VOLT" -> dev[m.channel].reading.voltage
    [] m.cmd = "MEAS_CURR" -> dev[m.channel].reading.current
    [] m.cmd = "SOUR_VOLT" -> dev[m.channel].command_voltage
    [] m.cmd = "SOUR_CURR" -> dev[m.channel].command_current
    [] m.cmd = "SOUR_MODE" -> dev[m.channel].mode

Answer(m) == [source |-> "CTRL", cmd |-> m.cmd, channel |-> m.channel,
              value |-> AnswerValue(m), reply |-> m.reply]

HandleQuery ==
  /\ Take(Answerable)
  /\ LET a == Answer(Head(queue))
     IN  /\ queue' = Offer(Tail(queue), a)
         /\ replied' = [replied EXCEPT ![a.reply] = @ + 1]
  /\ NoWrite(1)
  /\ UNCHANGED <<taskVars, terminal, wanted, asked>>

\* What the cases of the switch name.
Known == Answerable \cup
  {"OUTPUT_STATE", "SET_MODE", "SET_VOLTAGE", "SET_CURRENT", "SET_POWER",
   "SET_RESISTANCE", "SET_LOW_VOLTAGE_PROTECTION"}

HandleUnknown ==
  /\ Draining
  /\ Handled(Head(queue))
  /\ Head(queue).cmd \notin Known
  /\ NoWrite(1)
  /\ queue' = Tail(queue)
  /\ UNCHANGED <<taskVars, terminal, wanted, asked, replied>>

Skip ==
  /\ Draining
  /\ ~Handled(Head(queue))
  /\ queue' = Tail(queue)
  /\ UNCHANGED <<taskVars, age, regs, terminal, since, historyVars, budget>>

\* The queue is empty: back to polling (the 10 ms wait is below the unit).
PollAgain ==
  /\ pc = "drain"
  /\ queue = <<>>
  /\ pc' = "read"
  /\ UNCHANGED <<poll, mb_err, dev, age, queue, regs, terminal, since, historyVars, budget>>

-----------------------------------------------------------------------------
(***************************************************************************)
(* The rest of the system.                                                 *)
(***************************************************************************)
\* A client publishes a request; a full queue drops it.
Enqueue(r, c) ==
  LET accepted == Len(queue) < QueueLength
      d == r.channel
  IN  /\ queue' = Offer(queue, [source |-> "CLIENT", cmd |-> r.cmd, channel |-> d,
                                value |-> r.value, reply |-> c])
      /\ wanted' = IF accepted /\ d < NumDevices /\ r.cmd = "SET_VOLTAGE"
                     THEN [wanted EXCEPT ![d].voltage = r.value]
                     ELSE IF accepted /\ d < NumDevices /\ r.cmd = "SET_CURRENT"
                            THEN [wanted EXCEPT ![d].current = r.value]
                            ELSE wanted
      /\ asked' = IF accepted /\ d < NumDevices /\ r.cmd \in Query \ Unserved
                    THEN [asked EXCEPT ![c] = @ + 1]
                    ELSE asked
      /\ UNCHANGED <<taskVars, age, regs, terminal, since, doubt, replied>>

ClientRequest ==
  /\ budget.requests > 0
  /\ \E r \in Request, c \in Client : Enqueue(r, c)
  /\ budget' = [budget EXCEPT !.requests = @ - 1]

\* The source under test changes what a module measures.
TerminalChange ==
  /\ budget.changes > 0
  /\ \E d \in Device : \E r \in Reading \ {terminal[d]} :
       /\ terminal' = [terminal EXCEPT ![d] = r]
       /\ since' = [since EXCEPT ![d][r] = 0]
  /\ budget' = [budget EXCEPT !.changes = @ - 1]
  /\ UNCHANGED <<taskVars, age, queue, regs, historyVars>>

\* dc_load_controller_stop deletes the task wherever it is.
Stop ==
  /\ pc # "stopped"
  /\ pc' = "stopped"
  /\ UNCHANGED <<poll, mb_err, dev, age, queue, regs, terminal, since, historyVars, budget>>

\* The board resets: dc_load_controller_init starts over, the modules do not.
Restart ==
  /\ budget.restarts > 0
  /\ pc' = "read" /\ poll' = 0 /\ mb_err' = FALSE
  /\ dev' = [d \in Device |-> BootDevice]
  /\ age' = [d \in Device |-> Older(0, BootTicks)]
  /\ since' = SinceBy(BootTicks)
  /\ queue' = <<>>
  /\ wanted' = [d \in Device |-> [voltage |-> 0, current |-> 0]]
  /\ asked' = replied
  /\ budget' = [budget EXCEPT !.restarts = @ - 1]
  /\ doubt' = [d \in Device |-> Register]
  /\ UNCHANGED <<regs, terminal, replied>>

Poll == ReadOk \/ ReadFail \/ Cutoff \/ Report

Drain ==
  \/ HandleOutputState \/ HandleSetMode \/ HandleSetVoltage \/ HandleSetCurrent
  \/ HandleSetPower \/ HandleSetResistance \/ HandleSetLowVoltageProtection
  \/ HandleQuery \/ HandleUnknown \/ Skip \/ PollAgain

Task == Poll \/ Drain

Next == Task \/ ClientRequest \/ TerminalChange \/ Stop \/ Restart

Spec == Init /\ [][Next]_vars

\* The scheduler runs the task whenever it is ready; a Modbus transaction always
\* ends, within its timeout.  Nothing is assumed of the clients.
FairSpec == Spec /\ WF_vars(Task)
-----------------------------------------------------------------------------
\* What is on the bus: the clients' commands and the task's own report.
Command == {r.cmd : r \in Request} \cup {"SCPI_MEASUREMENTS"}
Message == [source : {"CTRL", "CLIENT"}, cmd : Command, channel : Nat, value : Nat, reply : Nat]

TypeOK ==
  /\ pc \in {"read", "cutoff", "report", "drain", "stopped"}
  /\ poll \in Device
  /\ mb_err \in BOOLEAN
  /\ dev \in [Device -> [mode : Nat, is_enabled : BOOLEAN, reading : Reading \cup {Unread},
                         command_voltage : Nat, command_current : Nat,
                         lv_cutoff_threshold : Nat]]
  /\ age \in [Device -> 0 .. StaleTicks + 1]
  /\ queue \in Seq(Message)
  /\ Len(queue) <= QueueLength
  /\ regs \in [Device -> [enable : BOOLEAN, mode : Nat, voltage : Nat, current : Nat,
                          power : Nat, resistance : Nat]]
  /\ terminal \in [Device -> Reading]
  /\ since \in [Device -> [Reading -> 0 .. StaleTicks + 1]]
  /\ doubt \in [Device -> SUBSET Register]
  /\ wanted \in [Device -> [voltage : Nat, current : Nat]]
  /\ asked \in [Client -> Nat]
  /\ replied \in [Client -> Nat]
  /\ budget \in [requests : Nat, faults : Nat, restarts : Nat, changes : Nat]

\* An output that is off goes on only in the step that handles a client's ON
\* command for its own channel, the oldest of the queue: never by the cutoff, an
\* echo, a reset, another command or another channel's.
OnOnlyByCommand ==
  [][\A d \in Device : ~regs[d].enable /\ regs'[d].enable =>
       /\ pc = "drain" /\ queue # <<>> /\ queue' = Tail(queue)
       /\ Head(queue).source = "CLIENT" /\ Head(queue).cmd = "OUTPUT_STATE"
       /\ Head(queue).channel = d /\ Head(queue).value # 0]_vars

\* When an under-voltage reading of an enabled channel with its cutoff armed is
\* published, fresh or left over from a read before, the output is off, unless the
\* write that switches it off was the one that failed.
CutoffBeforeReport ==
  pc = "report" =>
    \/ ~(dev[poll].is_enabled /\ Armed(poll))
    \/ dev[poll].reading.voltage >= dev[poll].lv_cutoff_threshold
    \/ ~regs[poll].enable
    \/ "enable" \in doubt[poll]

\* The setpoint commands of channel d waiting in the queue.
Pending(d, cmd) ==
  {k \in 1 .. Len(queue) : Handled(queue[k]) /\ queue[k].channel = d /\ queue[k].cmd = cmd}

\* What channel d's setpoint will be once the queue is drained.
Outcome(d, cmd, current) ==
  IF Pending(d, cmd) = {} THEN current
  ELSE queue[CHOOSE k \in Pending(d, cmd) : \A j \in Pending(d, cmd) : j <= k].value

\* A query handled after the setpoints queued before it answers the newest of
\* them, whichever client sent it and whether or not its Modbus write worked.
ReadbackFollowsSet ==
  \A d \in Device :
    /\ Outcome(d, "SET_VOLTAGE", dev[d].command_voltage) = wanted[d].voltage
    /\ Outcome(d, "SET_CURRENT", dev[d].command_current) = wanted[d].current

\* A register holds a value: never more than it, and at most one step less.
Holds(register, value, scale) ==
  /\ register * PerUnit <= value * scale
  /\ value * scale <= register * PerUnit + PerUnit

\* The setpoint the task reports is the one in the module, to the step of the
\* register, unless the write of it failed or there was none since the reset:
\* the two copies come apart by nothing else.
SetpointInModule ==
  \A d \in Device :
    /\ "voltage" \in doubt[d] \/ Holds(regs[d].voltage, dev[d].command_voltage, 100)
    /\ "current" \in doubt[d] \/ Holds(regs[d].current, dev[d].command_current, 1000)

\* The queries of client c that wait in the queue.
Waiting(c) ==
  {k \in 1 .. Len(queue) : /\ Handled(queue[k])
                           /\ queue[k].reply = c
                           /\ queue[k].cmd \in Answerable}

\* No query is answered twice, and none to a client that did not ask: the task
\* never takes its own answers, back from the bus, for new queries.
AnsweredOnce == \A c \in Client : replied[c] + Cardinality(Waiting(c)) <= asked[c]

\* A value that is not marked stale was measured within MODBUS_STALE_TICKS,
\* through failed reads, long drains and restarts.
FreshMeansRecent ==
  \A d \in Device :
    ~Stale(d) /\ dev[d].reading # Unread => since[d][dev[d].reading] <= StaleTicks

\* Below its cutoff an enabled output is switched off, once requests cease.
UndervoltageEndsOutput ==
  \A d \in Device :
    LET tooLow == regs[d].enable /\ Armed(d) /\ terminal[d].voltage < dev[d].lv_cutoff_threshold
    IN  (tooLow /\ pc # "stopped") ~> (~tooLow \/ pc = "stopped")

\* Every query that entered the queue and that the switch has a case for is
\* answered, unless the task is stopped, whatever stands before it in the queue
\* (the documented queries without a case among them).
QueriesAnswered ==
  \A c \in Client : (asked[c] > replied[c]) ~> (asked[c] = replied[c] \/ pc = "stopped")
=============================================================================
