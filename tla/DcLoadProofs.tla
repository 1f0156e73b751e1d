---------------------------- MODULE DcLoadProofs ----------------------------
(***************************************************************************)
(* The controller task keeps its types, no output goes on without the ON   *)
(* command of its own channel, a value that is not marked stale is recent, *)
(* and an under-voltage is acted on before it is published.  Then what     *)
(* looks into the queue: a setpoint is read back in the order it was sent, *)
(* no query is answered twice, and a module holds the setpoint the task    *)
(* reports, to the step of its register, unless the write of it failed.    *)
(* All of it for any number of channels, any requests and readings, any    *)
(* length of the queue and any number of failed transactions, resets and   *)
(* changes of the inputs.                                                  *)
(***************************************************************************)
EXTENDS DcLoad, QueueLemmas, FiniteSetTheorems, SequenceTheorems, TLAPS

\* What a module's holding registers hold.
Registers == [enable : BOOLEAN, mode : Nat, voltage : Nat, current : Nat,
              power : Nat, resistance : Nat]

\* What the task keeps of a module.
DeviceRecord == [mode : Nat, is_enabled : BOOLEAN, reading : Reading \cup {Unread},
                 command_voltage : Nat, command_current : Nat, lv_cutoff_threshold : Nat]

\* The parts of the type invariant that a step of the clock, a write of a
\* register and an offer to the queue are responsible for.
ClockOK ==
  /\ age \in [Device -> 0 .. StaleTicks + 1]
  /\ since \in [Device -> [Reading -> 0 .. StaleTicks + 1]]

BudgetOK == budget \in [requests : Nat, faults : Nat, restarts : Nat, changes : Nat]

QueueOK == queue \in Seq(Message) /\ Len(queue) <= QueueLength

TaskOK ==
  /\ pc \in {"read", "cutoff", "report", "drain", "stopped"}
  /\ poll \in Device
  /\ mb_err \in BOOLEAN
  /\ dev \in [Device -> DeviceRecord]

ModulesOK == regs \in [Device -> Registers] /\ terminal \in [Device -> Reading]

\* What a write of a register says of it.
DoubtOK == doubt \in [Device -> SUBSET Register]

HistoryOK ==
  /\ wanted \in [Device -> [voltage : Nat, current : Nat]]
  /\ asked \in [Client -> Nat]
  /\ replied \in [Client -> Nat]

\* The sizes and times are numbers.
LEMMA Numbers ==
  /\ NumDevices \in Nat \ {0} /\ QueueLength \in Nat \ {0} /\ PerUnit \in Nat \ {0}
  /\ StaleTicks \in Nat /\ TimeoutTicks \in Nat /\ BootTicks \in Nat
  BY DcLoadAssumption

\* The type invariant in its parts.
LEMMA TypeParts ==
  TypeOK <=> ClockOK /\ BudgetOK /\ QueueOK /\ TaskOK /\ ModulesOK /\ DoubtOK /\ HistoryOK
  BY DEF TypeOK, ClockOK, BudgetOK, QueueOK, TaskOK, ModulesOK, DoubtOK, HistoryOK,
         DeviceRecord, Registers

\* The same for the next state.
LEMMA NextTypeParts ==
  ASSUME ClockOK', BudgetOK', QueueOK', TaskOK', ModulesOK', DoubtOK', HistoryOK'
  PROVE  TypeOK'
  BY DEF TypeOK, ClockOK, BudgetOK, QueueOK, TaskOK, ModulesOK, DoubtOK, HistoryOK,
         DeviceRecord, Registers

-----------------------------------------------------------------------------
\* An age never exceeds its cap.
LEMMA OlderBounded ==
  ASSUME NEW t \in Nat, NEW n \in Nat
  PROVE  Older(t, n) \in 0 .. StaleTicks + 1
  BY Numbers DEF Older

\* Nor does the time since a value was measured.
LEMMA SinceTyped ==
  ASSUME ClockOK, NEW n \in Nat
  PROVE  SinceBy(n) \in [Device -> [Reading -> 0 .. StaleTicks + 1]]
  <1>1. ASSUME NEW d \in Device, NEW r \in Reading
        PROVE  (IF r = terminal[d] THEN 0 ELSE Older(since[d][r], n)) \in 0 .. StaleTicks + 1
    <2>1. since[d][r] \in Nat
      BY Numbers DEF ClockOK
    <2>2. Older(since[d][r], n) \in 0 .. StaleTicks + 1
      BY <2>1, OlderBounded
    <2>3. 0 \in 0 .. StaleTicks + 1
      BY Numbers
    <2>4. QED
      BY <2>2, <2>3
  <1>2. QED
    BY <1>1 DEF SinceBy

\* Time that passes keeps the clocks typed.
LEMMA ElapseTyped ==
  ASSUME ClockOK, NEW n \in Nat, Elapse(n)
  PROVE  ClockOK'
  <1>1. age' \in [Device -> 0 .. StaleTicks + 1]
    BY OlderBounded, Numbers DEF Elapse, AgedBy, ClockOK
  <1>2. QED
    BY <1>1, SinceTyped DEF Elapse, ClockOK

\* What the task knows of its modules after a reset.
LEMMA BootTyped ==
  0 \in Device /\ BootDevice \in DeviceRecord
  <1>1. 0 \in Device
    BY Numbers DEF Device
  <1>2. 999 * PerUnit \in Nat
    BY Numbers
  <1>3. BootDevice \in DeviceRecord
    BY <1>2 DEF BootDevice, DeviceRecord, LOAD_MODE_CC
  <1>4. QED
    BY <1>1, <1>3

\* A failed transaction is paid from the bound.
LEMMA FaultTyped ==
  ASSUME BudgetOK, Fault
  PROVE  BudgetOK'
  BY DEF BudgetOK, Fault

\* A write of a register, acknowledged or not, changes that register only.
LEMMA WriteTyped ==
  ASSUME ClockOK, BudgetOK, ModulesOK, DoubtOK, NEW n \in Nat,
         NEW d \in Device, NEW reg \in Register, NEW v, WriteRegister(d, reg, v, n),
         [regs EXCEPT ![d][reg] = v] \in [Device -> Registers]
  PROVE  /\ ClockOK' /\ BudgetOK' /\ DoubtOK'
         /\ regs' \in {regs, [regs EXCEPT ![d][reg] = v]}
         /\ regs' \in [Device -> Registers]
  <1>1. n + TimeoutTicks \in Nat
    BY Numbers
  <1>2. DoubtOK'
    BY DEF WriteRegister, DoubtOK
  <1>3. CASE regs' = [regs EXCEPT ![d][reg] = v] /\ Elapse(n) /\ UNCHANGED budget
    BY <1>2, <1>3, ElapseTyped DEF BudgetOK
  <1>4. CASE /\ regs' \in {regs, [regs EXCEPT ![d][reg] = v]}
             /\ Fault /\ Elapse(n + TimeoutTicks)
    BY <1>1, <1>2, <1>4, ElapseTyped, FaultTyped DEF ModulesOK
  <1>5. QED
    BY <1>3, <1>4 DEF WriteRegister

\* A step without a transaction.
LEMMA NoWriteTyped ==
  ASSUME ClockOK, BudgetOK, ModulesOK, DoubtOK, NEW n \in Nat, NoWrite(n)
  PROVE  ClockOK' /\ BudgetOK' /\ DoubtOK' /\ regs' = regs
  BY ElapseTyped DEF NoWrite, BudgetOK, DoubtOK

\* An offer never makes the queue longer than it is.
LEMMA OfferTyped ==
  ASSUME NEW q \in Seq(Message), Len(q) <= QueueLength, NEW m \in Message
  PROVE  Offer(q, m) \in Seq(Message) /\ Len(Offer(q, m)) <= QueueLength
  <1>1. Append(q, m) \in Seq(Message) /\ Len(Append(q, m)) = Len(q) + 1 /\ Len(q) \in Nat
    BY AppendProperties, LenProperties
  <1>2. QED
    BY <1>1, Numbers DEF Offer

\* The oldest message and what stays behind it.
LEMMA TakeTyped ==
  ASSUME QueueOK, queue # <<>>
  PROVE  /\ Head(queue) \in Message
         /\ Tail(queue) \in Seq(Message)
         /\ Len(Tail(queue)) <= QueueLength
  <1>1. Head(queue) \in Message /\ Tail(queue) \in Seq(Message)
    BY HeadTailProperties DEF QueueOK
  <1>2. Len(Tail(queue)) = Len(queue) - 1 /\ Len(queue) \in Nat
    BY HeadTailProperties, LenProperties DEF QueueOK
  <1>3. QED
    BY <1>1, <1>2, Numbers DEF QueueOK

\* A message that passes the tests before the switch is for a channel there is.
LEMMA HandledTyped ==
  ASSUME QueueOK, NEW cmds, Take(cmds)
  PROVE  /\ Head(queue) \in Message
         /\ Head(queue).channel \in Device
         /\ Head(queue).value \in Nat
         /\ Tail(queue) \in Seq(Message) /\ Len(Tail(queue)) <= QueueLength
  BY TakeTyped, Numbers DEF Take, Draining, Handled, Message, Device

\* The 16 bits of a register.
LEMMA UnitsTyped ==
  ASSUME NEW v \in Nat, NEW s \in Nat
  PROVE  Units(v, s) \subseteq Nat
  <1>1. \A n \in Int : n % 65536 \in Nat
    OBVIOUS
  <1>2. (v * s) \div PerUnit \in Int
    BY Numbers
  <1>3. QED
    BY <1>1, <1>2 DEF Units

\* A mode is a number of 8 bits.
LEMMA ModeTyped ==
  ASSUME NEW v \in Nat
  PROVE  ModeOf(v) \in Nat
  <1>1. v \div PerUnit \in Int
    BY Numbers
  <1>2. QED
    BY <1>1 DEF ModeOf

-----------------------------------------------------------------------------
\* The machine starts typed.
LEMMA InitTyped == Init => TypeOK
  <1> SUFFICES ASSUME Init PROVE TypeOK
    OBVIOUS
  <1>1. ClockOK
    <2>1. Older(0, BootTicks) \in 0 .. StaleTicks + 1 /\ 0 \in 0 .. StaleTicks + 1
          /\ StaleTicks + 1 \in 0 .. StaleTicks + 1
      BY OlderBounded, DcLoadAssumption
    <2>2. QED
      BY <2>1 DEF Init, ClockOK
  <1>2. BudgetOK /\ DoubtOK /\ HistoryOK
    BY DcLoadAssumption DEF Init, BudgetOK, DoubtOK, HistoryOK
  <1>3. QueueOK
    <2>1. <<>> \in Seq(Message) /\ Len(<<>>) = 0
      BY EmptySeq
    <2>2. QED
      BY <2>1, DcLoadAssumption DEF Init, QueueOK
  <1>4. TaskOK
    BY BootTyped DEF Init, TaskOK
  <1>5. ModulesOK
    BY DcLoadAssumption DEF Init, ModulesOK, Registers
  <1>6. QED
    BY <1>1, <1>2, <1>3, <1>4, <1>5, TypeParts

\* The polling half keeps the types.
LEMMA PollTyped ==
  ASSUME TypeOK, Poll
  PROVE  TypeOK'
  <1>0. ClockOK /\ BudgetOK /\ QueueOK /\ TaskOK /\ ModulesOK /\ DoubtOK /\ HistoryOK
    BY TypeParts
  <1>1. CASE ReadOk
    <2>1. regs[poll] \in Registers /\ terminal[poll] \in Reading /\ dev[poll] \in DeviceRecord
      BY <1>0 DEF TaskOK, ModulesOK
    <2>2. [dev[poll] EXCEPT !.mode = regs[poll].mode, !.is_enabled = regs[poll].enable,
                            !.reading = terminal[poll]] \in DeviceRecord
      BY <2>1 DEF DeviceRecord, Registers
    <2>3. dev' \in [Device -> DeviceRecord]
      BY <1>0, <1>1, <2>2 DEF ReadOk, TaskOK
    <2>4. TaskOK'
      BY <1>0, <1>1, <2>3 DEF ReadOk, TaskOK
    <2>5. ClockOK'
      <3>1. 0 \in 0 .. StaleTicks + 1
        BY Numbers
      <3>2. QED
        BY <1>0, <1>1, <3>1 DEF ReadOk, ClockOK
    <2>6. BudgetOK' /\ QueueOK' /\ ModulesOK' /\ DoubtOK' /\ HistoryOK'
      BY <1>0, <1>1 DEF ReadOk, BudgetOK, DoubtOK, QueueOK, ModulesOK, HistoryOK, historyVars
    <2>7. QED
      BY <2>4, <2>5, <2>6, NextTypeParts
  <1>2. CASE ReadFail
    <2>1. ClockOK' /\ BudgetOK'
      BY <1>0, <1>2, ElapseTyped, FaultTyped, Numbers DEF ReadFail
    <2>2. TaskOK' /\ QueueOK' /\ ModulesOK' /\ DoubtOK' /\ HistoryOK'
      BY <1>0, <1>2 DEF ReadFail, DoubtOK, TaskOK, QueueOK, ModulesOK, HistoryOK, historyVars
    <2>3. QED
      BY <2>1, <2>2, NextTypeParts
  <1>3. CASE Cutoff
    <2>1. ClockOK' /\ BudgetOK' /\ DoubtOK' /\ regs' \in [Device -> Registers]
      <3>1. CASE Trips(poll)
        <4>1. [regs EXCEPT ![poll]["enable"] = FALSE] \in [Device -> Registers]
          BY <1>0 DEF ModulesOK, Registers
        <4>2. /\ WriteRegister(poll, "enable", FALSE, 0) /\ poll \in Device
              /\ "enable" \in Register
          BY <1>0, <1>3, <3>1 DEF Cutoff, TaskOK, Register
        <4>3. QED
          BY <1>0, <4>1, <4>2, WriteTyped
      <3>2. CASE ~Trips(poll)
        BY <1>0, <1>3, <3>2, NoWriteTyped DEF Cutoff, ModulesOK
      <3>3. QED
        BY <3>1, <3>2
    <2>2. TaskOK' /\ QueueOK' /\ ModulesOK' /\ HistoryOK'
      BY <1>0, <1>3, <2>1 DEF Cutoff, TaskOK, QueueOK, ModulesOK, HistoryOK, historyVars
    <2>3. QED
      BY <2>1, <2>2, NextTypeParts
  <1>4. CASE Report
    <2> DEFINE m == [source |-> "CTRL", cmd |-> "SCPI_MEASUREMENTS",
                     channel |-> poll, value |-> 0, reply |-> 0]
    <2>1. m \in Message
      <3>1. poll \in Nat
        BY <1>0, Numbers DEF TaskOK, Device
      <3>2. QED
        BY <3>1 DEF Message, Command
    <2>2. QueueOK'
      BY <1>0, <1>4, <2>1, OfferTyped DEF Report, QueueOK
    <2>3. ClockOK' /\ BudgetOK' /\ DoubtOK' /\ regs' = regs
      BY <1>0, <1>4, NoWriteTyped DEF Report
    <2>4. TaskOK'
      <3>1. poll' \in Device /\ pc' \in {"read", "drain"}
        BY <1>0, <1>4, Numbers DEF Report, TaskOK, Device
      <3>2. QED
        BY <1>0, <1>4, <3>1 DEF Report, TaskOK
    <2>5. ModulesOK' /\ HistoryOK'
      BY <1>0, <1>4, <2>3 DEF Report, ModulesOK, HistoryOK, historyVars
    <2>6. QED
      BY <2>2, <2>3, <2>4, <2>5, NextTypeParts
  <1>5. QED
    BY <1>1, <1>2, <1>3, <1>4 DEF Poll

\* The draining half keeps the types.
LEMMA DrainTyped ==
  ASSUME TypeOK, Drain
  PROVE  TypeOK'
  <1> DEFINE m == Head(queue)
  <1>0. ClockOK /\ BudgetOK /\ QueueOK /\ TaskOK /\ ModulesOK /\ DoubtOK /\ HistoryOK
    BY TypeParts
  <1>1. CASE HandleOutputState
    <2>1. m.channel \in Device /\ QueueOK'
      BY <1>0, <1>1, HandledTyped DEF HandleOutputState, QueueOK
    <2>2. [regs EXCEPT ![m.channel]["enable"] = (m.value # 0)] \in [Device -> Registers]
      BY <1>0, <2>1 DEF ModulesOK, Registers
    <2>3. WriteRegister(m.channel, "enable", m.value # 0, 1) /\ "enable" \in Register
      BY <1>1 DEF HandleOutputState, Register
    <2>4. ClockOK' /\ BudgetOK' /\ DoubtOK' /\ regs' \in [Device -> Registers]
      BY <1>0, <2>1, <2>2, <2>3, WriteTyped
    <2>5. TaskOK' /\ ModulesOK' /\ HistoryOK'
      BY <1>0, <1>1, <2>4 DEF HandleOutputState, TaskOK, ModulesOK, HistoryOK, taskVars
    <2>6. QED
      BY <2>1, <2>4, <2>5, NextTypeParts
  <1>2. CASE HandleSetMode
    <2> DEFINE mode == ModeOf(m.value)
    <2>1. m.channel \in Device /\ m.value \in Nat /\ QueueOK'
      BY <1>0, <1>2, HandledTyped DEF HandleSetMode, QueueOK
    <2>2. mode \in Nat
      BY <2>1, ModeTyped
    <2> HIDE DEF mode
    <2>3. ClockOK' /\ BudgetOK' /\ DoubtOK' /\ regs' \in [Device -> Registers]
      <3>1. CASE mode > LOAD_MODE_CVCC
        BY <1>0, <1>2, <3>1, NoWriteTyped DEF HandleSetMode, ModulesOK, mode
      <3>2. CASE ~(mode > LOAD_MODE_CVCC)
        <4>1. [regs EXCEPT ![m.channel]["mode"] = mode] \in [Device -> Registers]
          BY <1>0, <2>1, <2>2 DEF ModulesOK, Registers
        <4>2. WriteRegister(m.channel, "mode", mode, 1) /\ "mode" \in Register
          BY <1>2, <3>2 DEF HandleSetMode, mode, Register
        <4>3. QED
          BY <1>0, <2>1, <4>1, <4>2, WriteTyped
      <3>3. QED
        BY <3>1, <3>2
    <2>4. TaskOK' /\ ModulesOK' /\ HistoryOK'
      BY <1>0, <1>2, <2>3 DEF HandleSetMode, TaskOK, ModulesOK, HistoryOK, taskVars
    <2>5. QED
      BY <2>1, <2>3, <2>4, NextTypeParts
  <1>3. CASE HandleSetVoltage
    <2>1. /\ m \in Message /\ m.channel \in Device /\ m.value \in Nat /\ QueueOK'
      BY <1>0, <1>3, HandledTyped DEF HandleSetVoltage, QueueOK
    <2>2. PICK u \in Units(m.value, 100) : WriteRegister(m.channel, "voltage", u, 1)
      BY <1>3 DEF HandleSetVoltage
    <2>3. [regs EXCEPT ![m.channel]["voltage"] = u] \in [Device -> Registers]
      BY <1>0, <2>1, UnitsTyped DEF ModulesOK, Registers
    <2>4. "voltage" \in Register
      BY DEF Register
    <2>5. ClockOK' /\ BudgetOK' /\ DoubtOK' /\ regs' \in [Device -> Registers]
      BY <1>0, <2>1, <2>2, <2>3, <2>4, WriteTyped
    <2>6. dev' = [dev EXCEPT ![m.channel].command_voltage = m.value]
      BY <1>3 DEF HandleSetVoltage
    <2>7. dev' \in [Device -> DeviceRecord]
      BY <1>0, <2>1, <2>6 DEF TaskOK, DeviceRecord
    <2>8. TaskOK' /\ ModulesOK' /\ HistoryOK'
      BY <1>0, <1>3, <2>5, <2>7 DEF HandleSetVoltage, TaskOK, ModulesOK, HistoryOK, historyVars
    <2>9. QED
      BY <2>1, <2>5, <2>8, NextTypeParts
  <1>4. CASE HandleSetCurrent
    <2>1. /\ m \in Message /\ m.channel \in Device /\ m.value \in Nat /\ QueueOK'
      BY <1>0, <1>4, HandledTyped DEF HandleSetCurrent, QueueOK
    <2>2. PICK u \in Units(m.value, 1000) : WriteRegister(m.channel, "current", u, 1)
      BY <1>4 DEF HandleSetCurrent
    <2>3. [regs EXCEPT ![m.channel]["current"] = u] \in [Device -> Registers]
      BY <1>0, <2>1, UnitsTyped DEF ModulesOK, Registers
    <2>4. "current" \in Register
      BY DEF Register
    <2>5. ClockOK' /\ BudgetOK' /\ DoubtOK' /\ regs' \in [Device -> Registers]
      BY <1>0, <2>1, <2>2, <2>3, <2>4, WriteTyped
    <2>6. dev' = [dev EXCEPT ![m.channel].command_current = m.value]
      BY <1>4 DEF HandleSetCurrent
    <2>7. dev' \in [Device -> DeviceRecord]
      BY <1>0, <2>1, <2>6 DEF TaskOK, DeviceRecord
    <2>8. TaskOK' /\ ModulesOK' /\ HistoryOK'
      BY <1>0, <1>4, <2>5, <2>7 DEF HandleSetCurrent, TaskOK, ModulesOK, HistoryOK, historyVars
    <2>9. QED
      BY <2>1, <2>5, <2>8, NextTypeParts
  <1>5. CASE HandleSetPower
    <2>1. /\ m \in Message /\ m.channel \in Device /\ m.value \in Nat /\ QueueOK'
      BY <1>0, <1>5, HandledTyped DEF HandleSetPower, QueueOK
    <2>2. PICK u \in Units(m.value, 100) : WriteRegister(m.channel, "power", u, 1)
      BY <1>5 DEF HandleSetPower
    <2>3. [regs EXCEPT ![m.channel]["power"] = u] \in [Device -> Registers]
      BY <1>0, <2>1, UnitsTyped DEF ModulesOK, Registers
    <2>4. "power" \in Register
      BY DEF Register
    <2>5. ClockOK' /\ BudgetOK' /\ DoubtOK' /\ regs' \in [Device -> Registers]
      BY <1>0, <2>1, <2>2, <2>3, <2>4, WriteTyped
    <2>6. TaskOK' /\ ModulesOK' /\ HistoryOK'
      BY <1>0, <1>5, <2>5 DEF HandleSetPower, TaskOK, ModulesOK, HistoryOK, taskVars, historyVars
    <2>7. QED
      BY <2>1, <2>5, <2>6, NextTypeParts
  <1>6. CASE HandleSetResistance
    <2>1. /\ m \in Message /\ m.channel \in Device /\ m.value \in Nat /\ QueueOK'
      BY <1>0, <1>6, HandledTyped DEF HandleSetResistance, QueueOK
    <2>2. PICK u \in Units(m.value, 10) : WriteRegister(m.channel, "resistance", u, 1)
      BY <1>6 DEF HandleSetResistance
    <2>3. [regs EXCEPT ![m.channel]["resistance"] = u] \in [Device -> Registers]
      BY <1>0, <2>1, UnitsTyped DEF ModulesOK, Registers
    <2>4. "resistance" \in Register
      BY DEF Register
    <2>5. ClockOK' /\ BudgetOK' /\ DoubtOK' /\ regs' \in [Device -> Registers]
      BY <1>0, <2>1, <2>2, <2>3, <2>4, WriteTyped
    <2>6. TaskOK' /\ ModulesOK' /\ HistoryOK'
      BY <1>0, <1>6, <2>5 DEF HandleSetResistance, TaskOK, ModulesOK, HistoryOK, taskVars, historyVars
    <2>7. QED
      BY <2>1, <2>5, <2>6, NextTypeParts
  <1>7. CASE HandleSetLowVoltageProtection
    <2>1. m.channel \in Device /\ m.value \in Nat /\ QueueOK'
      BY <1>0, <1>7, HandledTyped DEF HandleSetLowVoltageProtection, QueueOK
    <2>2. ClockOK' /\ BudgetOK' /\ DoubtOK' /\ regs' = regs
      BY <1>0, <1>7, NoWriteTyped DEF HandleSetLowVoltageProtection
    <2>3. dev' = [dev EXCEPT ![m.channel].lv_cutoff_threshold = m.value]
      BY <1>7 DEF HandleSetLowVoltageProtection
    <2>4. dev' \in [Device -> DeviceRecord]
      BY <1>0, <2>1, <2>3 DEF TaskOK, DeviceRecord
    <2>5. TaskOK' /\ ModulesOK' /\ HistoryOK'
      BY <1>0, <1>7, <2>2, <2>4
      DEF HandleSetLowVoltageProtection, TaskOK, ModulesOK, HistoryOK, historyVars
    <2>6. QED
      BY <2>1, <2>2, <2>5, NextTypeParts
  <1>8. CASE HandleQuery
    <2>1. /\ m \in Message /\ m.channel \in Device /\ m.cmd \in Answerable
          /\ Tail(queue) \in Seq(Message) /\ Len(Tail(queue)) <= QueueLength
      BY <1>0, <1>8, HandledTyped DEF HandleQuery, Take
    <2>2. AnswerValue(m) \in Nat
      <3>1. dev[m.channel] \in DeviceRecord
        BY <1>0, <2>1 DEF TaskOK
      <3>2. /\ dev[m.channel].reading.voltage \in Nat /\ dev[m.channel].reading.current \in Nat
        <4>1. dev[m.channel].reading \in [voltage : Nat, current : Nat]
          BY <3>1, DcLoadAssumption DEF DeviceRecord, Unread
        <4>2. QED
          BY <4>1
      <3>3. /\ dev[m.channel].command_voltage \in Nat /\ dev[m.channel].command_current \in Nat
            /\ dev[m.channel].mode \in Nat
        BY <3>1 DEF DeviceRecord
      <3>4. m.cmd \in {"MEAS_VOLT", "MEAS_CURR", "SOUR_VOLT", "SOUR_CURR", "SOUR_MODE"}
        BY <2>1 DEF Answerable
      <3>5. QED
        BY <3>2, <3>3, <3>4 DEF AnswerValue
    <2>3. Answer(m) \in Message /\ Answer(m).reply \in Nat
      BY <2>1, <2>2 DEF Answer, Message
    <2>4. QueueOK'
      BY <1>8, <2>1, <2>3, OfferTyped DEF HandleQuery, QueueOK
    <2>5. ClockOK' /\ BudgetOK' /\ DoubtOK' /\ regs' = regs
      BY <1>0, <1>8, NoWriteTyped DEF HandleQuery
    <2>6. replied' = [replied EXCEPT ![Answer(m).reply] = @ + 1]
      BY <1>8 DEF HandleQuery
    <2>7. replied' \in [Client -> Nat]
      <3>1. replied \in [Client -> Nat]
        BY <1>0 DEF HistoryOK
      <3>2. replied' = [c \in Client |->
                          IF c = Answer(m).reply THEN replied[c] + 1 ELSE replied[c]]
        BY <2>6, <3>1
      <3>3. QED
        BY <3>1, <3>2
    <2>8. TaskOK' /\ ModulesOK' /\ HistoryOK'
      BY <1>0, <1>8, <2>5, <2>7 DEF HandleQuery, TaskOK, ModulesOK, HistoryOK, taskVars
    <2>9. QED
      BY <2>4, <2>5, <2>8, NextTypeParts
  <1>9. CASE HandleUnknown
    <2>1. QueueOK'
      BY <1>0, <1>9, TakeTyped DEF HandleUnknown, Draining, QueueOK
    <2>2. ClockOK' /\ BudgetOK' /\ DoubtOK' /\ regs' = regs
      BY <1>0, <1>9, NoWriteTyped DEF HandleUnknown
    <2>3. TaskOK' /\ ModulesOK' /\ HistoryOK'
      BY <1>0, <1>9, <2>2 DEF HandleUnknown, TaskOK, ModulesOK, HistoryOK, taskVars, historyVars
    <2>4. QED
      BY <2>1, <2>2, <2>3, NextTypeParts
  <1>10. CASE Skip
    <2>1. QueueOK'
      BY <1>0, <1>10, TakeTyped DEF Skip, Draining, QueueOK
    <2>2. ClockOK' /\ BudgetOK' /\ TaskOK' /\ ModulesOK' /\ DoubtOK' /\ HistoryOK'
      BY <1>0, <1>10
      DEF Skip, DoubtOK, ClockOK, BudgetOK, TaskOK, ModulesOK, HistoryOK, taskVars, historyVars
    <2>3. QED
      BY <2>1, <2>2, NextTypeParts
  <1>11. CASE PollAgain
    <2>1. ClockOK' /\ BudgetOK' /\ QueueOK' /\ TaskOK' /\ ModulesOK' /\ DoubtOK' /\ HistoryOK'
      BY <1>0, <1>11
      DEF PollAgain, DoubtOK, ClockOK, BudgetOK, QueueOK, TaskOK, ModulesOK, HistoryOK, historyVars
    <2>2. QED
      BY <2>1, NextTypeParts
  <1>12. QED
    BY <1>1, <1>2, <1>3, <1>4, <1>5, <1>6, <1>7, <1>8, <1>9, <1>10, <1>11 DEF Drain

\* Clients, the source under test, a stop and a reset keep the types.
LEMMA EnvironmentTyped ==
  ASSUME TypeOK, ClientRequest \/ TerminalChange \/ Stop \/ Restart
  PROVE  TypeOK'
  <1>0. ClockOK /\ BudgetOK /\ QueueOK /\ TaskOK /\ ModulesOK /\ DoubtOK /\ HistoryOK
    BY TypeParts
  <1>1. CASE ClientRequest
    <2>1. PICK r \in Request, c \in Client : Enqueue(r, c)
      BY <1>1 DEF ClientRequest
    <2>2. r.channel \in Nat /\ r.value \in Nat /\ r.cmd \in Command /\ c \in Nat
      BY DcLoadAssumption DEF Command
    <2>3. [source |-> "CLIENT", cmd |-> r.cmd, channel |-> r.channel,
           value |-> r.value, reply |-> c] \in Message
      BY <2>2 DEF Message
    <2>4. QueueOK'
      BY <1>0, <2>1, <2>3, OfferTyped DEF Enqueue, QueueOK
    <2>5. wanted' \in [Device -> [voltage : Nat, current : Nat]]
      BY <1>0, <2>1, <2>2 DEF Enqueue, HistoryOK
    <2>6. asked' \in [Client -> Nat]
      BY <1>0, <2>1 DEF Enqueue, HistoryOK
    <2>7. ClockOK' /\ TaskOK' /\ ModulesOK' /\ DoubtOK' /\ HistoryOK'
      BY <1>0, <2>1, <2>5, <2>6
      DEF Enqueue, DoubtOK, ClockOK, TaskOK, ModulesOK, HistoryOK, taskVars
    <2>8. BudgetOK'
      BY <1>0, <1>1 DEF ClientRequest, BudgetOK
    <2>9. QED
      BY <2>4, <2>7, <2>8, NextTypeParts
  <1>2. CASE TerminalChange
    <2>1. PICK d \in Device, r \in Reading :
            /\ terminal' = [terminal EXCEPT ![d] = r]
            /\ since' = [since EXCEPT ![d][r] = 0]
      BY <1>2 DEF TerminalChange
    <2>2. 0 \in 0 .. StaleTicks + 1
      BY Numbers
    <2>3. ModulesOK'
      BY <1>0, <1>2, <2>1 DEF TerminalChange, ModulesOK
    <2>4. ClockOK'
      BY <1>0, <1>2, <2>1, <2>2 DEF TerminalChange, ClockOK
    <2>5. BudgetOK'
      BY <1>0, <1>2 DEF TerminalChange, BudgetOK
    <2>6. TaskOK' /\ QueueOK' /\ DoubtOK' /\ HistoryOK'
      BY <1>0, <1>2
      DEF TerminalChange, DoubtOK, TaskOK, QueueOK, HistoryOK, taskVars, historyVars
    <2>7. QED
      BY <2>3, <2>4, <2>5, <2>6, NextTypeParts
  <1>3. CASE Stop
    <2>1. ClockOK' /\ BudgetOK' /\ QueueOK' /\ TaskOK' /\ ModulesOK' /\ DoubtOK' /\ HistoryOK'
      BY <1>0, <1>3
      DEF Stop, DoubtOK, ClockOK, BudgetOK, QueueOK, TaskOK, ModulesOK, HistoryOK, historyVars
    <2>2. QED
      BY <2>1, NextTypeParts
  <1>4. CASE Restart
    <2>1. ClockOK'
      <3>1. Older(0, BootTicks) \in 0 .. StaleTicks + 1
        BY OlderBounded, Numbers
      <3>2. SinceBy(BootTicks) \in [Device -> [Reading -> 0 .. StaleTicks + 1]]
        BY <1>0, SinceTyped, Numbers
      <3>3. QED
        BY <1>4, <3>1, <3>2 DEF Restart, ClockOK
    <2>2. TaskOK'
      BY <1>4, BootTyped DEF Restart, TaskOK
    <2>3. QueueOK'
      BY <1>4, EmptySeq, Numbers DEF Restart, QueueOK
    <2>4. BudgetOK'
      BY <1>0, <1>4 DEF Restart, BudgetOK
    <2>5. ModulesOK' /\ DoubtOK' /\ HistoryOK'
      BY <1>0, <1>4 DEF Restart, ModulesOK, DoubtOK, HistoryOK
    <2>6. QED
      BY <2>1, <2>2, <2>3, <2>4, <2>5, NextTypeParts
  <1>5. QED
    BY <1>1, <1>2, <1>3, <1>4

\* The controller task's variables, the modules' registers and the clocks keep
\* their types, and the queue its length.
THEOREM DcLoadTyped == Spec => []TypeOK
  <1>1. TypeOK /\ [Next]_vars => TypeOK'
    <2> SUFFICES ASSUME TypeOK, [Next]_vars PROVE TypeOK'
      OBVIOUS
    <2>1. CASE Task
      BY <2>1, PollTyped, DrainTyped DEF Task
    <2>2. CASE ClientRequest \/ TerminalChange \/ Stop \/ Restart
      BY <2>2, EnvironmentTyped
    <2>3. CASE UNCHANGED vars
      BY <2>3 DEF TypeOK, vars, taskVars, historyVars
    <2>4. QED
      BY <2>1, <2>2, <2>3 DEF Next
  <1>2. QED
    BY InitTyped, <1>1, PTL DEF Spec

-----------------------------------------------------------------------------
\* Writing another register than the enable register leaves the outputs alone.
LEMMA OtherRegister ==
  ASSUME ModulesOK, NEW d \in Device, NEW e \in Device, NEW v, NEW n,
         NEW reg \in {"mode", "voltage", "current", "power", "resistance"},
         WriteRegister(d, reg, v, n)
  PROVE  regs'[e].enable = regs[e].enable
  BY DEF WriteRegister, ModulesOK, Registers

\* The step that handles a client's ON command for channel d.
HandlesOn(d) ==
  /\ pc = "drain" /\ queue # <<>> /\ queue' = Tail(queue)
  /\ Head(queue).source = "CLIENT" /\ Head(queue).cmd = "OUTPUT_STATE"
  /\ Head(queue).channel = d /\ Head(queue).value # 0

\* An output that is off goes on only in the step that handles a client's ON
\* command for its own channel: not by the cutoff, an echo, a reset, another
\* command or another channel's, whatever fails.
THEOREM DcLoadOnOnlyByCommand == Spec => OnOnlyByCommand
  <1>1. TypeOK /\ [Next]_vars =>
          [\A d \in Device : ~regs[d].enable /\ regs'[d].enable => HandlesOn(d)]_vars
    <2> SUFFICES ASSUME TypeOK, Next, NEW e \in Device, ~regs[e].enable, regs'[e].enable
                 PROVE  HandlesOn(e)
      OBVIOUS
    <2>0. ModulesOK /\ QueueOK /\ TaskOK
      BY TypeParts
    <2> DEFINE m == Head(queue)
    <2>1. CASE Poll
      <3>1. regs' # regs
        OBVIOUS
      <3>2. Cutoff /\ Trips(poll)
        BY <2>1, <3>1 DEF Poll, ReadOk, ReadFail, Cutoff, Report, NoWrite
      <3>3. regs' \in {regs, [regs EXCEPT ![poll]["enable"] = FALSE]}
        BY <3>2 DEF Cutoff, WriteRegister
      <3>4. QED
        BY <2>0, <3>3 DEF ModulesOK, Registers, TaskOK
    <2>2. CASE HandleOutputState
      <3>1. /\ regs' \in {regs, [regs EXCEPT ![m.channel]["enable"] = (m.value # 0)]}
            /\ queue' = Tail(queue)
        BY <2>2 DEF HandleOutputState, WriteRegister
      <3>2. /\ pc = "drain" /\ queue # <<>> /\ m \in Message
            /\ m.source # "CTRL" /\ m.cmd = "OUTPUT_STATE"
        BY <2>0, <2>2, HandledTyped DEF HandleOutputState, Take, Draining, Handled
      <3>3. m.source = "CLIENT"
        BY <3>2 DEF Message
      <3>4. m.channel \in Device
        BY <2>0, <2>2, HandledTyped DEF HandleOutputState
      <3>5. CASE e = m.channel
        <4>1. m.value # 0
          BY <2>0, <3>1, <3>4, <3>5 DEF ModulesOK, Registers
        <4>2. QED
          BY <3>1, <3>2, <3>3, <3>5, <4>1 DEF HandlesOn
      <3>6. CASE e # m.channel
        BY <2>0, <3>1, <3>4, <3>6 DEF ModulesOK, Registers
      <3>7. QED
        BY <3>5, <3>6
    <2>3. CASE HandleSetMode \/ HandleSetVoltage \/ HandleSetCurrent \/ HandleSetPower
               \/ HandleSetResistance
      <3>1. m.channel \in Device
        BY <2>0, <2>3, HandledTyped
        DEF HandleSetMode, HandleSetVoltage, HandleSetCurrent, HandleSetPower, HandleSetResistance
      <3>2. \/ regs' = regs
            \/ \E reg \in {"mode", "voltage", "current", "power", "resistance"} :
                 \E v : WriteRegister(m.channel, reg, v, 1)
        BY <2>3 DEF HandleSetMode, HandleSetVoltage, HandleSetCurrent, HandleSetPower,
                    HandleSetResistance, NoWrite
      <3>3. regs'[e].enable = regs[e].enable
        BY <2>0, <3>1, <3>2, OtherRegister
      <3>4. QED
        BY <3>3
    <2>4. QED
      <3>1. regs' # regs
        OBVIOUS
      <3>2. QED
        BY <2>1, <2>2, <2>3, <3>1
        DEF Next, Task, Drain, HandleSetLowVoltageProtection, HandleQuery, HandleUnknown, Skip,
            PollAgain, NoWrite, ClientRequest, Enqueue, TerminalChange, Stop, Restart
  <1>2. QED
    BY <1>1, DcLoadTyped, PTL DEF Spec, OnOnlyByCommand, HandlesOn

-----------------------------------------------------------------------------
\* What a module measures now was measured just now, and what the task last
\* read of it is no older than the last successful read.
FreshInv ==
  \A d \in Device :
    /\ since[d][terminal[d]] = 0
    /\ dev[d].reading # Unread => since[d][dev[d].reading] <= age[d]

\* The clocks advance together.
LEMMA OlderMonotone ==
  ASSUME NEW s \in Nat, NEW t \in Nat, NEW n \in Nat, s <= t
  PROVE  Older(s, n) <= Older(t, n)
  BY Numbers DEF Older

\* Waiting, with or without a transaction, does not make a reading fresher.
LEMMA ElapseFresh ==
  ASSUME TypeOK, FreshInv, NEW n \in Nat, Elapse(n), terminal' = terminal,
         \A d \in Device : dev'[d].reading = dev[d].reading
  PROVE  FreshInv'
  <1> SUFFICES ASSUME NEW d \in Device
               PROVE  /\ since'[d][terminal'[d]] = 0
                      /\ dev'[d].reading # Unread => since'[d][dev'[d].reading] <= age'[d]
    BY DEF FreshInv
  <1>0. ClockOK /\ ModulesOK /\ TaskOK
    BY TypeParts
  <1>1. /\ since'[d] = [r \in Reading |-> IF r = terminal[d] THEN 0 ELSE Older(since[d][r], n)]
        /\ age'[d] = Older(age[d], n)
    BY DEF Elapse, AgedBy, SinceBy
  <1>2. terminal[d] \in Reading
    BY <1>0 DEF ModulesOK
  <1>3. ASSUME dev[d].reading # Unread PROVE since'[d][dev[d].reading] <= age'[d]
    <2> DEFINE r == dev[d].reading
    <2>1. r \in Reading
      BY <1>0, <1>3 DEF TaskOK, DeviceRecord
    <2>2. since[d][r] \in Nat /\ age[d] \in Nat /\ since[d][r] <= age[d]
      BY <1>0, <1>3, <2>1, Numbers DEF ClockOK, FreshInv
    <2>3. Older(since[d][r], n) <= Older(age[d], n)
      BY <2>2, OlderMonotone
    <2>4. Older(age[d], n) \in Nat
      BY <2>2, Numbers DEF Older
    <2>5. QED
      BY <1>1, <2>1, <2>3, <2>4
  <1>4. QED
    BY <1>1, <1>2, <1>3

\* A step in which no time passes and no reading changes.
LEMMA StillFresh ==
  ASSUME FreshInv, since' = since, age' = age, terminal' = terminal,
         \A d \in Device : dev'[d].reading = dev[d].reading
  PROVE  FreshInv'
  BY DEF FreshInv

\* A write that failed takes its timeout on top of the wait.
LEMMA WriteElapses ==
  ASSUME NEW d, NEW reg, NEW v, NEW n \in Nat, WriteRegister(d, reg, v, n)
  PROVE  \E k \in Nat : Elapse(k)
  BY Numbers DEF WriteRegister

\* A value that is not marked stale was measured within MODBUS_STALE_TICKS,
\* through failed reads, long drains and resets.
THEOREM DcLoadFresh == Spec => []FreshMeansRecent
  <1>1. Init => FreshInv
    BY DEF Init, FreshInv, BootDevice
  <1>2. TypeOK /\ FreshInv /\ [Next]_vars => FreshInv'
    <2> SUFFICES ASSUME TypeOK, FreshInv, [Next]_vars PROVE FreshInv'
      OBVIOUS
    <2>0. ClockOK /\ ModulesOK /\ TaskOK /\ QueueOK
      BY TypeParts
    <2>1. CASE ReadOk
      <3> SUFFICES ASSUME NEW d \in Device
                   PROVE  /\ since'[d][terminal'[d]] = 0
                          /\ dev'[d].reading # Unread => since'[d][dev'[d].reading] <= age'[d]
        BY DEF FreshInv
      <3>1. CASE d = poll
        <4>1. dev'[d].reading = terminal[d] /\ age'[d] = 0
          BY <2>0, <2>1, <3>1 DEF ReadOk, TaskOK, ClockOK, DeviceRecord
        <4>2. since'[d][terminal[d]] = 0 /\ terminal' = terminal
          BY <2>1 DEF ReadOk, FreshInv
        <4>3. QED
          BY <4>1, <4>2
      <3>2. CASE d # poll
        <4>1. dev'[d] = dev[d] /\ age'[d] = age[d] /\ since' = since /\ terminal' = terminal
          BY <2>0, <2>1, <3>2 DEF ReadOk, TaskOK, ClockOK
        <4>2. QED
          BY <4>1 DEF FreshInv
      <3>3. QED
        BY <3>1, <3>2
    <2>2. CASE ReadFail
      BY <2>2, ElapseFresh, Numbers DEF ReadFail
    <2>3. CASE Cutoff
      <3>1. \E k \in Nat : Elapse(k)
        BY <2>3, WriteElapses DEF Cutoff, NoWrite
      <3>2. QED
        BY <2>3, <3>1, ElapseFresh DEF Cutoff
    <2>4. CASE Report
      BY <2>4, ElapseFresh DEF Report, NoWrite
    <2>5. CASE HandleOutputState \/ HandleSetMode \/ HandleSetPower \/ HandleSetResistance
      <3>1. \E k \in Nat : Elapse(k)
        BY <2>5, WriteElapses
        DEF HandleOutputState, HandleSetMode, HandleSetPower, HandleSetResistance, NoWrite
      <3>2. terminal' = terminal /\ dev' = dev
        BY <2>5 DEF HandleOutputState, HandleSetMode, HandleSetPower, HandleSetResistance, taskVars
      <3>3. QED
        BY <3>1, <3>2, ElapseFresh
    <2>6. CASE HandleSetVoltage \/ HandleSetCurrent \/ HandleSetLowVoltageProtection
      <3>1. \E k \in Nat : Elapse(k)
        BY <2>6, WriteElapses
        DEF HandleSetVoltage, HandleSetCurrent, HandleSetLowVoltageProtection, NoWrite
      <3>2. terminal' = terminal
        BY <2>6 DEF HandleSetVoltage, HandleSetCurrent, HandleSetLowVoltageProtection
      <3>3. \A d \in Device : dev'[d].reading = dev[d].reading
        <4> DEFINE m == Head(queue)
        <4>1. CASE HandleSetVoltage
          <5>1. dev' = [dev EXCEPT ![m.channel].command_voltage = m.value]
            BY <4>1 DEF HandleSetVoltage
          <5>2. QED
            BY <2>0, <5>1 DEF TaskOK, DeviceRecord
        <4>2. CASE HandleSetCurrent
          <5>1. dev' = [dev EXCEPT ![m.channel].command_current = m.value]
            BY <4>2 DEF HandleSetCurrent
          <5>2. QED
            BY <2>0, <5>1 DEF TaskOK, DeviceRecord
        <4>3. CASE HandleSetLowVoltageProtection
          <5>1. dev' = [dev EXCEPT ![m.channel].lv_cutoff_threshold = m.value]
            BY <4>3 DEF HandleSetLowVoltageProtection
          <5>2. QED
            BY <2>0, <5>1 DEF TaskOK, DeviceRecord
        <4>4. QED
          BY <2>6, <4>1, <4>2, <4>3
      <3>4. QED
        BY <3>1, <3>2, <3>3, ElapseFresh
    <2>7. CASE HandleQuery \/ HandleUnknown
      BY <2>7, ElapseFresh DEF HandleQuery, HandleUnknown, NoWrite, taskVars
    <2>8. CASE Skip \/ PollAgain \/ ClientRequest \/ Stop \/ UNCHANGED vars
      BY <2>8, StillFresh
      DEF Skip, PollAgain, ClientRequest, Enqueue, Stop, vars, taskVars
    <2>9. CASE TerminalChange
      <3>1. PICK d \in Device, r \in Reading :
              /\ terminal' = [terminal EXCEPT ![d] = r]
              /\ since' = [since EXCEPT ![d][r] = 0]
        BY <2>9 DEF TerminalChange
      <3>2. dev' = dev /\ age' = age
        BY <2>9 DEF TerminalChange, taskVars
      <3> SUFFICES ASSUME NEW e \in Device
                   PROVE  /\ since'[e][terminal'[e]] = 0
                          /\ dev'[e].reading # Unread => since'[e][dev'[e].reading] <= age'[e]
        BY DEF FreshInv
      <3>3. CASE e = d
        <4>1. terminal'[e] = r /\ since'[e] = [since[e] EXCEPT ![r] = 0] /\ since'[e][r] = 0
          BY <2>0, <3>1, <3>3 DEF ModulesOK, ClockOK
        <4>2. age[e] \in Nat
          BY <2>0, Numbers DEF ClockOK
        <4>3. QED
          BY <3>2, <4>1, <4>2 DEF FreshInv
      <3>4. CASE e # d
        <4>1. terminal'[e] = terminal[e] /\ since'[e] = since[e]
          BY <2>0, <3>1, <3>4 DEF ModulesOK, ClockOK
        <4>2. QED
          BY <3>2, <4>1 DEF FreshInv
      <3>5. QED
        BY <3>3, <3>4
    <2>10. CASE Restart
      <3>1. /\ \A d \in Device : dev'[d].reading = Unread
            /\ since' = SinceBy(BootTicks) /\ terminal' = terminal
        BY <2>10 DEF Restart, BootDevice
      <3>2. \A d \in Device : since'[d][terminal'[d]] = 0
        BY <2>0, <3>1 DEF SinceBy, ModulesOK
      <3>3. QED
        BY <3>1, <3>2 DEF FreshInv
    <2>11. QED
      BY <2>1, <2>2, <2>3, <2>4, <2>5, <2>6, <2>7, <2>8, <2>9, <2>10 DEF Next, Task, Poll, Drain
  <1>3. TypeOK /\ FreshInv => FreshMeansRecent
    <2> SUFFICES ASSUME TypeOK, FreshInv, NEW d \in Device, ~Stale(d), dev[d].reading # Unread
                 PROVE  since[d][dev[d].reading] <= StaleTicks
      BY DEF FreshMeansRecent
    <2>1. ClockOK /\ TaskOK
      BY TypeParts
    <2>2. dev[d].reading \in Reading
      BY <2>1 DEF TaskOK, DeviceRecord
    <2>3. since[d][dev[d].reading] \in Nat /\ age[d] \in Nat
      BY <2>1, <2>2, Numbers DEF ClockOK
    <2>4. since[d][dev[d].reading] <= age[d] /\ age[d] <= StaleTicks
      BY <2>3, Numbers DEF FreshInv, Stale
    <2>5. QED
      BY <2>3, <2>4, Numbers
  <1>4. QED
    BY <1>1, <1>2, <1>3, DcLoadTyped, PTL DEF Spec

-----------------------------------------------------------------------------
\* What the voltages of the polled channel are compared as.
LEMMA PolledTyped ==
  ASSUME TypeOK
  PROVE  /\ dev[poll].lv_cutoff_threshold \in Nat
         /\ dev[poll].reading.voltage \in Nat
  <1>1. dev[poll] \in DeviceRecord
    BY TypeParts DEF TaskOK
  <1>2. \A r \in Reading \cup {Unread} : r.voltage \in Nat
    BY DcLoadAssumption DEF Unread
  <1>3. QED
    BY <1>1, <1>2 DEF DeviceRecord

\* The cutoff leaves the output off, or in doubt.
LEMMA CutoffActs ==
  ASSUME TypeOK, Cutoff
  PROVE  CutoffBeforeReport'
  <1>1. dev' = dev /\ poll' = poll
    BY DEF Cutoff
  <1>2. CASE Trips(poll)
    <2>1. poll \in Device /\ regs \in [Device -> Registers] /\ doubt \in [Device -> SUBSET Register]
      BY TypeParts DEF ModulesOK, TaskOK, DoubtOK
    <2>2. \/ regs' = [regs EXCEPT ![poll]["enable"] = FALSE]
          \/ doubt' = [doubt EXCEPT ![poll] = @ \cup {"enable"}]
      BY <1>2 DEF Cutoff, WriteRegister
    <2>3. ~regs'[poll].enable \/ "enable" \in doubt'[poll]
      BY <2>1, <2>2 DEF Registers
    <2>4. QED
      BY <1>1, <2>3 DEF CutoffBeforeReport
  <1>3. CASE ~Trips(poll)
    <2>1. \/ ~(dev[poll].is_enabled /\ Armed(poll))
          \/ dev[poll].reading.voltage >= dev[poll].lv_cutoff_threshold
      BY <1>3, PolledTyped DEF Trips
    <2>2. QED
      BY <1>1, <2>1 DEF CutoffBeforeReport, Armed
  <1>4. QED
    BY <1>2, <1>3

\* An under-voltage is acted on before it is published, whether it was read just
\* now or is left over from an earlier read: the output is off unless the write
\* that switches it off failed.
THEOREM DcLoadCutoffBeforeReport == Spec => []CutoffBeforeReport
  <1>1. Init => CutoffBeforeReport
    BY DEF Init, CutoffBeforeReport
  <1>2. TypeOK /\ CutoffBeforeReport /\ [Next]_vars => CutoffBeforeReport'
    <2> SUFFICES ASSUME TypeOK, CutoffBeforeReport, [Next]_vars PROVE CutoffBeforeReport'
      OBVIOUS
    <2>1. ASSUME pc' # "report" PROVE CutoffBeforeReport'
      BY <2>1 DEF CutoffBeforeReport
    <2>2. CASE ReadOk \/ ReadFail \/ Report \/ PollAgain \/ Stop \/ Restart
      BY <2>1, <2>2 DEF ReadOk, ReadFail, Report, PollAgain, Stop, Restart
    <2>3. CASE Drain /\ ~PollAgain
      BY <2>1, <2>3
      DEF Drain, HandleOutputState, HandleSetMode, HandleSetVoltage, HandleSetCurrent,
          HandleSetPower, HandleSetResistance, HandleSetLowVoltageProtection, HandleQuery,
          HandleUnknown, Skip, Take, Draining, taskVars
    <2>4. CASE ClientRequest \/ TerminalChange \/ UNCHANGED vars
      <3>1. pc' = pc /\ poll' = poll /\ dev' = dev /\ regs' = regs /\ doubt' = doubt
        BY <2>4 DEF ClientRequest, Enqueue, TerminalChange, vars, taskVars, historyVars
      <3>2. QED
        BY <3>1 DEF CutoffBeforeReport, Armed
    <2>5. QED
      BY <2>2, <2>3, <2>4, CutoffActs DEF Next, Task, Poll
  <1>3. QED
    BY <1>1, <1>2, DcLoadTyped, PTL DEF Spec

-----------------------------------------------------------------------------
(***************************************************************************)
(* Setpoints that wait.                                                    *)
(***************************************************************************)
\* The commands cmd for channel d that the task will handle.
Setting(d, cmd) == {m \in Message : Handled(m) /\ m.channel = d /\ m.cmd = cmd}

\* Follows says what Outcome returns.
LEMMA FollowsOutcome ==
  ASSUME queue \in Seq(Message), NEW d, NEW cmd, NEW x, NEW w,
         Follows(queue, Setting(d, cmd), x, w)
  PROVE  Outcome(d, cmd, x) = w
<1>1. \A k \in 1 .. Len(queue) : queue[k] \in Message
  OBVIOUS
<1>2. Pending(d, cmd) = {k \in 1 .. Len(queue) : queue[k] \in Setting(d, cmd)}
  BY <1>1 DEF Pending, Setting
<1>3. w = IF Pending(d, cmd) = {} THEN x
          ELSE queue[CHOOSE k \in Pending(d, cmd) : \A j \in Pending(d, cmd) : j <= k].value
  BY <1>2, FollowsNewest
<1> QED  BY <1>3 DEF Outcome

-----------------------------------------------------------------------------
(***************************************************************************)
(* What a step does to the queue and to the setpoints.                     *)
(***************************************************************************)
\* The cases of the switch, and the skipped messages.
Handling == Drain /\ queue # <<>>

LEMMA HandlingTakes ==
  ASSUME TypeOK, Handling
  PROVE  /\ queue \in Seq(Message) /\ queue # <<>>
         /\ wanted' = wanted /\ asked' = asked
         /\ \/ queue' = Tail(queue)
            \/ \E a : a.source = "CTRL" /\ queue' = Append(Tail(queue), a)
<1>1. queue \in Seq(Message) /\ queue # <<>>
  BY DEF TypeOK, Handling
<1>2. CASE HandleQuery
  <2>1. Answer(Head(queue)).source = "CTRL"
    BY DEF Answer
  <2>2. queue' = Offer(Tail(queue), Answer(Head(queue)))
    BY <1>2 DEF HandleQuery
  <2> QED  BY <1>1, <1>2, <2>1, <2>2 DEF HandleQuery, Offer
<1>3. CASE ~HandleQuery
  BY <1>1, <1>3
  DEF Handling, Drain, HandleOutputState, HandleSetMode, HandleSetVoltage, HandleSetCurrent,
      HandleSetPower, HandleSetResistance, HandleSetLowVoltageProtection, HandleUnknown, Skip,
      PollAgain, historyVars
<1> QED  BY <1>2, <1>3

LEMMA HandlingSets ==
  ASSUME TypeOK, Handling, NEW d \in Device
  PROVE  /\ dev'[d].command_voltage = IF Head(queue) \in Setting(d, "SET_VOLTAGE")
                                        THEN Head(queue).value ELSE dev[d].command_voltage
         /\ dev'[d].command_current = IF Head(queue) \in Setting(d, "SET_CURRENT")
                                        THEN Head(queue).value ELSE dev[d].command_current
<1> DEFINE m == Head(queue)
<1>1. dev \in [Device -> DeviceRecord] /\ m \in Message
  BY TypeParts, TakeTyped DEF TaskOK, Handling
<1>2. CASE HandleSetVoltage
  <2>1. /\ dev' = [dev EXCEPT ![m.channel].command_voltage = m.value]
        /\ Handled(m) /\ m.cmd = "SET_VOLTAGE"
    BY <1>2 DEF HandleSetVoltage, Take
  <2> QED  BY <1>1, <2>1 DEF Setting, DeviceRecord
<1>3. CASE HandleSetCurrent
  <2>1. /\ dev' = [dev EXCEPT ![m.channel].command_current = m.value]
        /\ Handled(m) /\ m.cmd = "SET_CURRENT"
    BY <1>3 DEF HandleSetCurrent, Take
  <2> QED  BY <1>1, <2>1 DEF Setting, DeviceRecord
<1>4. CASE HandleSetLowVoltageProtection
  <2>1. /\ dev' = [dev EXCEPT ![m.channel].lv_cutoff_threshold = m.value]
        /\ m.cmd = "SET_LOW_VOLTAGE_PROTECTION"
    BY <1>4 DEF HandleSetLowVoltageProtection, Take
  <2>2. m \notin Setting(d, "SET_VOLTAGE") /\ m \notin Setting(d, "SET_CURRENT")
    BY <2>1 DEF Setting
  <2> QED  BY <1>1, <2>1, <2>2 DEF DeviceRecord
<1>5. CASE ~HandleSetVoltage /\ ~HandleSetCurrent /\ ~HandleSetLowVoltageProtection
  <2>1. dev' = dev
    BY <1>5
    DEF Handling, Drain, HandleOutputState, HandleSetMode, HandleSetPower, HandleSetResistance,
        HandleQuery, HandleUnknown, Skip, PollAgain, taskVars
  <2>2. \/ ~Handled(m)
        \/ m.cmd \in {"OUTPUT_STATE", "SET_MODE", "SET_POWER", "SET_RESISTANCE"} \cup Answerable
        \/ m.cmd \notin Known
    BY <1>5
    DEF Handling, Drain, HandleOutputState, HandleSetMode, HandleSetPower, HandleSetResistance,
        HandleQuery, HandleUnknown, Skip, PollAgain, Take
  <2>3. m \notin Setting(d, "SET_VOLTAGE") /\ m \notin Setting(d, "SET_CURRENT")
    BY <2>2 DEF Setting, Known, Answerable
  <2> QED  BY <2>1, <2>3
<1> QED  BY <1>2, <1>3, <1>4, <1>5

\* The steps that leave queue, setpoints and history alone.
LEMMA QuietStep ==
  ASSUME TypeOK, [Next]_vars, ~Handling, ~Report, ~ClientRequest, ~Restart
  PROVE  /\ queue' = queue /\ wanted' = wanted /\ asked' = asked /\ replied' = replied
         /\ \A d \in Device : /\ dev'[d].command_voltage = dev[d].command_voltage
                              /\ dev'[d].command_current = dev[d].command_current
<1>1. dev \in [Device -> DeviceRecord]
  BY TypeParts DEF TaskOK
<1>2. CASE ReadOk
  <2>1. dev' = [dev EXCEPT ![poll].mode = regs[poll].mode, ![poll].is_enabled = regs[poll].enable,
                           ![poll].reading = terminal[poll]]
    BY <1>2 DEF ReadOk
  <2>2. \A d \in Device : /\ dev'[d].command_voltage = dev[d].command_voltage
                          /\ dev'[d].command_current = dev[d].command_current
    BY <1>1, <2>1 DEF DeviceRecord
  <2> QED  BY <1>2, <2>2 DEF ReadOk, historyVars
<1>3. CASE ReadFail \/ Cutoff \/ PollAgain \/ TerminalChange \/ Stop \/ UNCHANGED vars
  BY <1>3 DEF ReadFail, Cutoff, PollAgain, TerminalChange, Stop, vars, taskVars, historyVars
<1>4. Drain => PollAgain
  BY DEF Handling, Drain, HandleOutputState, HandleSetMode, HandleSetVoltage, HandleSetCurrent,
         HandleSetPower, HandleSetResistance, HandleSetLowVoltageProtection, HandleQuery,
         HandleUnknown, Skip, Take, Draining
<1> QED  BY <1>2, <1>3, <1>4 DEF Next, Task, Poll

\* The task's own report is not for it.
LEMMA ReportAppends ==
  ASSUME TypeOK, Report
  PROVE  /\ queue \in Seq(Message)
         /\ queue' = queue \/ \E a : a.source = "CTRL" /\ queue' = Append(queue, a)
         /\ dev' = dev /\ UNCHANGED historyVars
  BY DEF Report, Offer, NoWrite, TypeOK, historyVars

-----------------------------------------------------------------------------
\* Whatever waits in the queue, its newest setpoint is the one sent last.
ReadbackInv ==
  \A d \in Device :
    /\ Follows(queue, Setting(d, "SET_VOLTAGE"), dev[d].command_voltage, wanted[d].voltage)
    /\ Follows(queue, Setting(d, "SET_CURRENT"), dev[d].command_current, wanted[d].current)

\* A channel's setpoint through a case of the switch.
LEMMA HandlingFollows ==
  ASSUME TypeOK, Handling, NEW d \in Device, NEW cmd, NEW x, NEW w, Follows(queue, Setting(d, cmd), x, w),
         NEW y, y = IF Head(queue) \in Setting(d, cmd) THEN Head(queue).value ELSE x,
         NEW p, p = queue'
  PROVE  Follows(p, Setting(d, cmd), y, w)
<1>1. /\ queue \in Seq(Message) /\ queue # <<>>
      /\ \/ p = Tail(queue)
         \/ \E a : a.source = "CTRL" /\ p = Append(Tail(queue), a)
  BY HandlingTakes
<1>2. Follows(Tail(queue), Setting(d, cmd), y, w) /\ Tail(queue) \in Seq(Message)
  BY <1>1, FollowsTail, TailIndexed
<1>3. CASE p = Tail(queue)
  BY <1>2, <1>3
<1>4. ASSUME NEW a, a.source = "CTRL", p = Append(Tail(queue), a)
      PROVE  Follows(p, Setting(d, cmd), y, w)
  <2>1. a \notin Setting(d, cmd)
    BY <1>4 DEF Setting, Handled
  <2> QED  BY <1>2, <1>4, <2>1, FollowsAppendOther
<1> QED  BY <1>1, <1>3, <1>4

\* A client's request is the newest message of the queue, if there was room.
LEMMA RequestFollows ==
  ASSUME TypeOK, NEW r \in Request, NEW c \in Client, Enqueue(r, c), NEW d \in Device,
         Follows(queue, Setting(d, "SET_VOLTAGE"), dev[d].command_voltage, wanted[d].voltage),
         Follows(queue, Setting(d, "SET_CURRENT"), dev[d].command_current, wanted[d].current),
         NEW p, p = queue', NEW u, u = wanted'
  PROVE  /\ Follows(p, Setting(d, "SET_VOLTAGE"), dev[d].command_voltage, u[d].voltage)
         /\ Follows(p, Setting(d, "SET_CURRENT"), dev[d].command_current, u[d].current)
<1> DEFINE m == [source |-> "CLIENT", cmd |-> r.cmd, channel |-> r.channel,
                 value |-> r.value, reply |-> c]
<1>1. /\ queue \in Seq(Message) /\ Len(queue) \in Nat
      /\ wanted \in [Device -> [voltage : Nat, current : Nat]]
      /\ r.channel \in Nat
  <2>1. queue \in Seq(Message) /\ wanted \in [Device -> [voltage : Nat, current : Nat]]
    BY DEF TypeOK
  <2>2. Len(queue) \in Nat
    BY <2>1, LenProperties
  <2>3. r.channel \in Nat
    BY DcLoadAssumption
  <2> QED  BY <2>1, <2>2, <2>3
<1>2. CASE ~(Len(queue) < QueueLength)
  <2>1. p = queue /\ u = wanted
    BY <1>2 DEF Enqueue, Offer
  <2> QED  BY <2>1
<1>3. CASE Len(queue) < QueueLength
  <2>1. p = Append(queue, m)
    BY <1>3 DEF Enqueue, Offer
  <2>2. m.source = "CLIENT" /\ m.cmd = r.cmd /\ m.channel = r.channel /\ m.value = r.value
    OBVIOUS
  <2>3. Handled(m) <=> r.channel \in Device
    BY <1>1, <2>2, Numbers DEF Handled, Device
  <2>4. \A cmd : m \in Setting(d, cmd) <=> r.channel = d /\ r.cmd = cmd
    <3>1. m \in Message
      BY DcLoadAssumption DEF Message, Command
    <3> QED  BY <2>2, <2>3, <3>1 DEF Setting
  <2> HIDE DEF m
  <2>5. u = IF r.channel \in Device /\ r.cmd = "SET_VOLTAGE"
              THEN [wanted EXCEPT ![r.channel].voltage = r.value]
              ELSE IF r.channel \in Device /\ r.cmd = "SET_CURRENT"
                     THEN [wanted EXCEPT ![r.channel].current = r.value]
                     ELSE wanted
    <3>1. r.channel \in Device <=> r.channel < NumDevices
      BY <1>1, Numbers DEF Device
    <3> QED  BY <1>3, <3>1 DEF Enqueue
  <2>6. u[d].voltage = IF m \in Setting(d, "SET_VOLTAGE") THEN m.value ELSE wanted[d].voltage
    BY <1>1, <2>2, <2>4, <2>5
  <2>7. u[d].current = IF m \in Setting(d, "SET_CURRENT") THEN m.value ELSE wanted[d].current
    BY <1>1, <2>2, <2>4, <2>5
  <2>8. Follows(p, Setting(d, "SET_VOLTAGE"), dev[d].command_voltage, u[d].voltage)
    <3>1. CASE m \in Setting(d, "SET_VOLTAGE")
      <4>1. Follows(Append(queue, m), Setting(d, "SET_VOLTAGE"), dev[d].command_voltage, m.value)
        BY <1>1, <3>1, FollowsAppendSet
      <4>2. u[d].voltage = m.value
        BY <2>6, <3>1
      <4> QED  BY <2>1, <4>1, <4>2
    <3>2. CASE m \notin Setting(d, "SET_VOLTAGE")
      BY <1>1, <2>1, <2>6, <3>2, FollowsAppendOther
    <3> QED  BY <3>1, <3>2
  <2>9. Follows(p, Setting(d, "SET_CURRENT"), dev[d].command_current, u[d].current)
    <3>1. CASE m \in Setting(d, "SET_CURRENT")
      <4>1. Follows(Append(queue, m), Setting(d, "SET_CURRENT"), dev[d].command_current, m.value)
        BY <1>1, <3>1, FollowsAppendSet
      <4>2. u[d].current = m.value
        BY <2>7, <3>1
      <4> QED  BY <2>1, <4>1, <4>2
    <3>2. CASE m \notin Setting(d, "SET_CURRENT")
      BY <1>1, <2>1, <2>7, <3>2, FollowsAppendOther
    <3> QED  BY <3>1, <3>2
  <2> QED  BY <2>8, <2>9
<1> QED  BY <1>2, <1>3

\* After a reset nothing waits and nothing is set.
LEMMA BootFollows ==
  ASSUME NEW d, NEW cmd, NEW x
  PROVE  Follows(<<>>, Setting(d, cmd), x, x)
  BY DEF Follows

\* Every step keeps the readback invariant.
LEMMA ReadbackStep ==
  ASSUME TypeOK, ReadbackInv, [Next]_vars
  PROVE  ReadbackInv'
<1> SUFFICES ASSUME NEW d \in Device
             PROVE  /\ Follows(queue, Setting(d, "SET_VOLTAGE"), dev[d].command_voltage, wanted[d].voltage)'
                    /\ Follows(queue, Setting(d, "SET_CURRENT"), dev[d].command_current, wanted[d].current)'
  BY DEF ReadbackInv
<1>0. /\ Follows(queue, Setting(d, "SET_VOLTAGE"), dev[d].command_voltage, wanted[d].voltage)
      /\ Follows(queue, Setting(d, "SET_CURRENT"), dev[d].command_current, wanted[d].current)
  BY DEF ReadbackInv
<1>1. PICK p : p = queue'
  OBVIOUS
<1>2. PICK v : v = dev'[d].command_voltage
  OBVIOUS
<1>3. PICK i : i = dev'[d].command_current
  OBVIOUS
<1>4. PICK u : u = wanted'
  OBVIOUS
<1>5. SUFFICES /\ Follows(p, Setting(d, "SET_VOLTAGE"), v, u[d].voltage)
               /\ Follows(p, Setting(d, "SET_CURRENT"), i, u[d].current)
  BY <1>1, <1>2, <1>3, <1>4 DEF Follows
<1>6. CASE Handling
  <2>1. u = wanted
    BY <1>4, <1>6, HandlingTakes
  <2>2. /\ v = IF Head(queue) \in Setting(d, "SET_VOLTAGE")
                 THEN Head(queue).value ELSE dev[d].command_voltage
        /\ i = IF Head(queue) \in Setting(d, "SET_CURRENT")
                 THEN Head(queue).value ELSE dev[d].command_current
    BY <1>2, <1>3, <1>6, HandlingSets
  <2> QED  BY <1>0, <1>1, <1>6, <2>1, <2>2, HandlingFollows
<1>7. CASE Report
  <2>1. /\ queue \in Seq(Message) /\ u = wanted
        /\ v = dev[d].command_voltage /\ i = dev[d].command_current
        /\ p = queue \/ \E a : a.source = "CTRL" /\ p = Append(queue, a)
    BY <1>1, <1>2, <1>3, <1>4, <1>7, ReportAppends DEF historyVars
  <2>2. ASSUME NEW a, a.source = "CTRL", p = Append(queue, a)
        PROVE  /\ Follows(p, Setting(d, "SET_VOLTAGE"), v, u[d].voltage)
               /\ Follows(p, Setting(d, "SET_CURRENT"), i, u[d].current)
    <3>1. \A cmd : a \notin Setting(d, cmd)
      BY <2>2 DEF Setting, Handled
    <3> QED  BY <1>0, <2>1, <2>2, <3>1, FollowsAppendOther
  <2> QED  BY <1>0, <2>1, <2>2
<1>8. CASE ClientRequest
  <2>1. PICK r \in Request, c \in Client : Enqueue(r, c)
    BY <1>8 DEF ClientRequest
  <2>2. v = dev[d].command_voltage /\ i = dev[d].command_current
    BY <1>2, <1>3, <2>1 DEF Enqueue, taskVars
  <2> QED  BY <1>0, <1>1, <1>4, <2>1, <2>2, RequestFollows
<1>9. CASE Restart
  <2>1. p = <<>> /\ v = 0 /\ i = 0 /\ u[d].voltage = 0 /\ u[d].current = 0
    BY <1>1, <1>2, <1>3, <1>4, <1>9 DEF Restart, BootDevice
  <2> QED  BY <2>1, BootFollows
<1>10. CASE ~Handling /\ ~Report /\ ~ClientRequest /\ ~Restart
  <2>1. p = queue /\ u = wanted /\ v = dev[d].command_voltage /\ i = dev[d].command_current
    BY <1>1, <1>2, <1>3, <1>4, <1>10, QuietStep
  <2> QED  BY <1>0, <2>1
<1> QED  BY <1>6, <1>7, <1>8, <1>9, <1>10

\* A query answers the newest setpoint queued before it, whichever client sent
\* it and whether or not its Modbus write worked.
THEOREM DcLoadReadback == Spec => []ReadbackFollowsSet
<1>1. Init => ReadbackInv
  BY BootFollows DEF Init, ReadbackInv, BootDevice
<1>2. TypeOK /\ ReadbackInv /\ [Next]_vars => ReadbackInv'
  BY ReadbackStep
<1>3. TypeOK /\ ReadbackInv => ReadbackFollowsSet
  <2> SUFFICES ASSUME TypeOK, ReadbackInv, NEW d \in Device
               PROVE  /\ Outcome(d, "SET_VOLTAGE", dev[d].command_voltage) = wanted[d].voltage
                      /\ Outcome(d, "SET_CURRENT", dev[d].command_current) = wanted[d].current
    BY DEF ReadbackFollowsSet
  <2>1. queue \in Seq(Message)
    BY DEF TypeOK
  <2> QED  BY <2>1, FollowsOutcome DEF ReadbackInv
<1> QED  BY <1>1, <1>2, <1>3, DcLoadTyped, PTL DEF Spec

-----------------------------------------------------------------------------
(***************************************************************************)
(* The setpoint a module holds.                                            *)
(***************************************************************************)
\* A setpoint that the 16 bits of its register hold.
Fits(cmd, value) ==
  /\ cmd = "SET_VOLTAGE" => (value * 100) \div PerUnit < 65536
  /\ cmd = "SET_CURRENT" => (value * 1000) \div PerUnit < 65536

\* No client asks for more than the register can hold: 655.35 V or 65.535 A.
\* The display's limits are far below; the SCPI and web clients have none.
RequestsFit == \A r \in Request : Fits(r.cmd, r.value)

QueueFits == \A k \in 1 .. Len(queue) : Handled(queue[k]) => Fits(queue[k].cmd, queue[k].value)

ModuleInv == RequestsFit /\ QueueFits /\ SetpointInModule

\* What 16 bits hold is unchanged by them.
LEMMA Bits16 ==
  ASSUME NEW k \in Nat, k < 65536
  PROVE  /\ k % 65536 = k
         /\ k # 0 => (k - 1) % 65536 = k - 1
  OBVIOUS

\* Division of a number by the steps of a unit.
LEMMA Division ==
  ASSUME NEW a \in Nat, NEW n \in Nat \ {0}
  PROVE  /\ a \div n \in Nat
         /\ (a \div n) * n <= a /\ a < (a \div n) * n + n
         /\ a % n = 0 => a = (a \div n) * n
         /\ a % n # 0 => a # 0
  OBVIOUS

\* A register holds a value that fits, to the step.
LEMMA UnitsHold ==
  ASSUME NEW v \in Nat, NEW s \in {100, 1000}, (v * s) \div PerUnit < 65536, NEW u \in Units(v, s)
  PROVE  Holds(u, v, s)
<1> DEFINE a == v * s
           steps == a \div PerUnit
<1>1. a \in Nat /\ PerUnit \in Nat \ {0}
  BY Numbers
<1>2. v # 0 => a > 0
  OBVIOUS
<1> HIDE DEF a
<1>3. /\ steps \in Nat
      /\ steps * PerUnit <= a /\ a < steps * PerUnit + PerUnit
      /\ a % PerUnit = 0 => a = steps * PerUnit
  BY <1>1, Division
<1>4. v % PerUnit # 0 => v # 0
  BY <1>1, Division
<1>5. \/ u = steps % 65536
      \/ u = (steps - 1) % 65536 /\ a % PerUnit = 0 /\ v % PerUnit # 0
  BY DEF Units, a
<1>6. steps < 65536
  BY DEF a
<1> HIDE DEF steps
<1>7. CASE u = steps % 65536
  <2>1. u = steps
    BY <1>3, <1>6, <1>7, Bits16
  <2>2. u * PerUnit <= a /\ a <= u * PerUnit + PerUnit
    BY <1>1, <1>3, <2>1
  <2> QED  BY <2>2 DEF Holds, a
<1>8. CASE u = (steps - 1) % 65536 /\ a % PerUnit = 0 /\ v % PerUnit # 0
  <2>1. a > 0 /\ a = steps * PerUnit
    BY <1>2, <1>3, <1>4, <1>8
  <2>2. steps # 0
    BY <1>1, <2>1
  <2>3. (steps - 1) % 65536 = steps - 1
    BY <1>3, <1>6, <2>2, Bits16
  <2>4. u = steps - 1
    BY <1>8, <2>3
  <2>5. u * PerUnit = steps * PerUnit - PerUnit
    BY <1>1, <1>3, <2>4
  <2>6. steps * PerUnit \in Nat
    BY <1>1, <2>1
  <2>7. u * PerUnit <= a /\ a <= u * PerUnit + PerUnit
    BY <1>1, <2>1, <2>5, <2>6
  <2> QED  BY <2>7 DEF Holds, a
<1> QED  BY <1>5, <1>7, <1>8

LEMMA QueueFitsTail ==
  ASSUME NEW q \in Seq(Message), q # <<>>,
         \A k \in 1 .. Len(q) : Handled(q[k]) => Fits(q[k].cmd, q[k].value)
  PROVE  \A k \in 1 .. Len(Tail(q)) : Handled(Tail(q)[k]) => Fits(Tail(q)[k].cmd, Tail(q)[k].value)
<1> SUFFICES ASSUME NEW k \in 1 .. Len(Tail(q))
             PROVE  k + 1 \in 1 .. Len(q) /\ Tail(q)[k] = q[k + 1]
  OBVIOUS
<1> QED  BY TailIndexed

LEMMA QueueFitsAppend ==
  ASSUME NEW q \in Seq(Message), NEW m, Handled(m) => Fits(m.cmd, m.value),
         \A k \in 1 .. Len(q) : Handled(q[k]) => Fits(q[k].cmd, q[k].value)
  PROVE  \A k \in 1 .. Len(Append(q, m)) :
           Handled(Append(q, m)[k]) => Fits(Append(q, m)[k].cmd, Append(q, m)[k].value)
<1> SUFFICES ASSUME NEW k \in 1 .. Len(Append(q, m))
             PROVE  \/ k \in 1 .. Len(q) /\ Append(q, m)[k] = q[k]
                    \/ Append(q, m)[k] = m
  OBVIOUS
<1> QED  BY AppendIndexed

\* Every step keeps what waits within the registers.
LEMMA QueueFitsStep ==
  ASSUME TypeOK, RequestsFit, QueueFits, [Next]_vars
  PROVE  QueueFits'
<1>1. PICK p : p = queue'
  OBVIOUS
<1> SUFFICES \A k \in 1 .. Len(p) : Handled(p[k]) => Fits(p[k].cmd, p[k].value)
  BY <1>1 DEF QueueFits
<1>2. queue \in Seq(Message) /\ \A k \in 1 .. Len(queue) :
        Handled(queue[k]) => Fits(queue[k].cmd, queue[k].value)
  BY DEF TypeOK, QueueFits
<1>3. \A a : a.source = "CTRL" => ~Handled(a)
  BY DEF Handled
<1>4. CASE Handling
  <2>1. /\ queue # <<>>
        /\ \/ p = Tail(queue)
           \/ \E a : a.source = "CTRL" /\ p = Append(Tail(queue), a)
    BY <1>1, <1>4, HandlingTakes
  <2>2. /\ Tail(queue) \in Seq(Message)
        /\ \A k \in 1 .. Len(Tail(queue)) :
             Handled(Tail(queue)[k]) => Fits(Tail(queue)[k].cmd, Tail(queue)[k].value)
    BY <1>2, <2>1, TailIndexed, QueueFitsTail
  <2>3. CASE p = Tail(queue)
    BY <2>2, <2>3
  <2>4. ASSUME NEW a, a.source = "CTRL", p = Append(Tail(queue), a)
        PROVE  \A k \in 1 .. Len(p) : Handled(p[k]) => Fits(p[k].cmd, p[k].value)
    <3>1. ~Handled(a)
      BY <1>3, <2>4
    <3>2. \A k \in 1 .. Len(Append(Tail(queue), a)) :
             Handled(Append(Tail(queue), a)[k])
               => Fits(Append(Tail(queue), a)[k].cmd, Append(Tail(queue), a)[k].value)
      BY <2>2, <3>1, QueueFitsAppend
    <3> QED  BY <2>4, <3>2
  <2> QED  BY <2>1, <2>3, <2>4
<1>5. ASSUME NEW a, Handled(a) => Fits(a.cmd, a.value), p = Append(queue, a)
      PROVE  \A k \in 1 .. Len(p) : Handled(p[k]) => Fits(p[k].cmd, p[k].value)
  <2>1. \A k \in 1 .. Len(Append(queue, a)) :
          Handled(Append(queue, a)[k]) => Fits(Append(queue, a)[k].cmd, Append(queue, a)[k].value)
    BY <1>2, <1>5, QueueFitsAppend
  <2> QED  BY <1>5, <2>1
<1>6. CASE Report
  <2>1. p = queue \/ \E a : a.source = "CTRL" /\ p = Append(queue, a)
    BY <1>1, <1>6, ReportAppends
  <2> QED  BY <1>2, <1>3, <1>5, <2>1
<1>7. CASE ClientRequest
  <2>1. PICK r \in Request, c \in Client : Enqueue(r, c)
    BY <1>7 DEF ClientRequest
  <2>2. PICK m : m = [source |-> "CLIENT", cmd |-> r.cmd, channel |-> r.channel,
                      value |-> r.value, reply |-> c]
    OBVIOUS
  <2>3. Fits(m.cmd, m.value)
    BY <2>2 DEF RequestsFit
  <2>4. p = queue \/ p = Append(queue, m)
    BY <1>1, <2>1, <2>2 DEF Enqueue, Offer
  <2> QED  BY <1>2, <1>5, <2>3, <2>4
<1>8. CASE Restart
  BY <1>1, <1>8 DEF Restart
<1>9. CASE ~Handling /\ ~Report /\ ~ClientRequest /\ ~Restart
  BY <1>1, <1>2, <1>9, QuietStep
<1> QED  BY <1>4, <1>6, <1>7, <1>8, <1>9

\* What a register of a module holds is known, and it is the value x.
Agrees(d, reg, x, scale) == reg \in doubt[d] \/ Holds(regs[d][reg], x, scale)

\* The write of a register: it holds what was written or is in doubt, and the
\* other registers, of this module and the others, are as they were.
LEMMA WriteWritten ==
  ASSUME TypeOK, NEW d \in Device, NEW reg \in Register, NEW v, NEW n, WriteRegister(d, reg, v, n)
  PROVE  /\ reg \in doubt'[d] \/ regs'[d][reg] = v
         /\ \A e \in Device, other \in Register : e # d \/ other # reg =>
              /\ regs'[e][other] = regs[e][other]
              /\ other \in doubt'[e] <=> other \in doubt[e]
<1>1. regs \in [Device -> Registers] /\ doubt \in [Device -> SUBSET Register]
  BY TypeParts DEF ModulesOK, DoubtOK
<1>2. \A e \in Device : DOMAIN regs[e] = Register
  BY <1>1 DEF Registers, Register
<1> DEFINE written == [regs EXCEPT ![d][reg] = v]
<1>3. /\ written[d][reg] = v
      /\ \A e \in Device, other \in Register : e # d \/ other # reg =>
           written[e][other] = regs[e][other]
  BY <1>1, <1>2
<1>4. \/ regs' = written /\ doubt' = [doubt EXCEPT ![d] = @ \ {reg}]
      \/ regs' \in {regs, written} /\ doubt' = [doubt EXCEPT ![d] = @ \cup {reg}]
  BY DEF WriteRegister
<1> HIDE DEF written
<1>5. CASE regs' = written /\ doubt' = [doubt EXCEPT ![d] = @ \ {reg}]
  BY <1>1, <1>3, <1>5
<1>6. CASE regs' \in {regs, written} /\ doubt' = [doubt EXCEPT ![d] = @ \cup {reg}]
  BY <1>1, <1>3, <1>6
<1> QED  BY <1>4, <1>5, <1>6

\* The steps that do not touch a setpoint, in the task or in a module.
LEMMA OtherRegisters ==
  ASSUME TypeOK, [Next]_vars, ~HandleSetVoltage, ~HandleSetCurrent, ~Restart,
         NEW d \in Device
  PROVE  /\ \A reg \in {"voltage", "current"} : /\ regs'[d][reg] = regs[d][reg]
                                                /\ reg \in doubt'[d] <=> reg \in doubt[d]
         /\ dev'[d].command_voltage = dev[d].command_voltage
         /\ dev'[d].command_current = dev[d].command_current
<1> DEFINE m == Head(queue)
           Same == \A reg \in {"voltage", "current"} : /\ regs'[d][reg] = regs[d][reg]
                                                       /\ reg \in doubt'[d] <=> reg \in doubt[d]
<1>1. QueueOK /\ TaskOK
  BY TypeParts
<1>2. ASSUME NEW e \in Device, NEW reg \in {"enable", "mode", "power", "resistance"}, NEW v,
             NEW n, WriteRegister(e, reg, v, n)
      PROVE  Same
  BY <1>2, WriteWritten DEF Register
<1>3. Same
  <2>1. CASE Cutoff
    <3>1. poll \in Device
      BY <1>1 DEF TaskOK
    <3> QED  BY <1>2, <2>1, <3>1 DEF Cutoff, NoWrite
  <2>2. CASE HandleOutputState
    <3>1. m.channel \in Device
      BY <1>1, <2>2, HandledTyped DEF HandleOutputState
    <3> QED  BY <1>2, <2>2, <3>1 DEF HandleOutputState
  <2>3. CASE HandleSetMode
    <3>1. m.channel \in Device
      BY <1>1, <2>3, HandledTyped DEF HandleSetMode
    <3> QED  BY <1>2, <2>3, <3>1 DEF HandleSetMode, NoWrite
  <2>4. CASE HandleSetPower
    <3>1. m.channel \in Device
      BY <1>1, <2>4, HandledTyped DEF HandleSetPower
    <3> QED  BY <1>2, <2>4, <3>1 DEF HandleSetPower
  <2>5. CASE HandleSetResistance
    <3>1. m.channel \in Device
      BY <1>1, <2>5, HandledTyped DEF HandleSetResistance
    <3> QED  BY <1>2, <2>5, <3>1 DEF HandleSetResistance
  <2>6. CASE \/ ReadOk \/ ReadFail \/ Report \/ HandleSetLowVoltageProtection \/ HandleQuery
             \/ HandleUnknown \/ Skip \/ PollAgain \/ Stop \/ ClientRequest \/ TerminalChange
             \/ UNCHANGED vars
    <3>1. regs' = regs /\ doubt' = doubt
      BY <2>6
      DEF ReadOk, ReadFail, Report, HandleSetLowVoltageProtection, HandleQuery, HandleUnknown,
          Skip, PollAgain, Stop, ClientRequest, Enqueue, TerminalChange, NoWrite, vars, historyVars
    <3> QED  BY <3>1
  <2> QED  BY <2>1, <2>2, <2>3, <2>4, <2>5, <2>6 DEF Next, Task, Poll, Drain
<1>4. /\ dev'[d].command_voltage = dev[d].command_voltage
      /\ dev'[d].command_current = dev[d].command_current
  <2>1. CASE Handling
    <3>1. ~Handled(m) \/ m.cmd \notin {"SET_VOLTAGE", "SET_CURRENT"}
      BY <2>1
      DEF Handling, Drain, HandleOutputState, HandleSetMode, HandleSetPower, HandleSetResistance,
          HandleSetLowVoltageProtection, HandleQuery, HandleUnknown, Skip, PollAgain, Take,
          Known, Answerable
    <3> QED  BY <2>1, <3>1, HandlingSets DEF Setting
  <2>2. CASE Report \/ ClientRequest
    BY <2>2 DEF Report, ClientRequest, Enqueue, taskVars
  <2>3. CASE ~Handling /\ ~Report /\ ~ClientRequest
    BY <2>3, QuietStep
  <2> QED  BY <2>1, <2>2, <2>3
<1> QED  BY <1>3, <1>4

\* The oldest message, when a case of the switch takes it, fits its register.
LEMMA TakenFits ==
  ASSUME TypeOK, QueueFits, NEW cmds, Take(cmds)
  PROVE  /\ Head(queue).channel \in Device /\ Head(queue).value \in Nat
         /\ Fits(Head(queue).cmd, Head(queue).value) /\ Head(queue).cmd \in cmds
<1>1. queue \in Seq(Message) /\ queue # <<>> /\ Handled(Head(queue)) /\ Head(queue).cmd \in cmds
  BY DEF TypeOK, Take, Draining
<1>2. Head(queue) = queue[1] /\ 1 \in 1 .. Len(queue)
  BY <1>1, TailIndexed
<1>3. Head(queue).channel \in Device /\ Head(queue).value \in Nat
  BY TypeParts, HandledTyped
<1> QED  BY <1>1, <1>2, <1>3 DEF QueueFits

\* Every step keeps the modules in agreement with the task.
LEMMA SetpointStep ==
  ASSUME TypeOK, ModuleInv, [Next]_vars, NEW d \in Device
  PROVE  /\ Agrees(d, "voltage", dev[d].command_voltage, 100)'
         /\ Agrees(d, "current", dev[d].command_current, 1000)'
<1> DEFINE m == Head(queue)
<1>0. /\ dev \in [Device -> DeviceRecord] /\ QueueFits
      /\ Agrees(d, "voltage", dev[d].command_voltage, 100)
      /\ Agrees(d, "current", dev[d].command_current, 1000)
  BY TypeParts DEF TaskOK, ModuleInv, SetpointInModule, Agrees
<1>1. CASE ~HandleSetVoltage /\ ~HandleSetCurrent /\ ~Restart
  BY <1>0, <1>1, OtherRegisters DEF Agrees
<1>2. CASE HandleSetVoltage
  <2>1. /\ Take({"SET_VOLTAGE"})
        /\ dev' = [dev EXCEPT ![m.channel].command_voltage = m.value]
        /\ \E u \in Units(m.value, 100) : WriteRegister(m.channel, "voltage", u, 1)
    BY <1>2 DEF HandleSetVoltage
  <2>2. m.channel \in Device /\ m.value \in Nat /\ (m.value * 100) \div PerUnit < 65536
    BY <1>0, <2>1, TakenFits DEF Fits
  <2>3. PICK u \in Units(m.value, 100) : WriteRegister(m.channel, "voltage", u, 1)
    BY <2>1
  <2>4. Holds(u, m.value, 100)
    BY <2>2, UnitsHold
  <2>5. /\ "voltage" \in doubt'[m.channel] \/ regs'[m.channel]["voltage"] = u
        /\ \A e \in Device, other \in Register : e # m.channel \/ other # "voltage" =>
              /\ regs'[e][other] = regs[e][other]
              /\ other \in doubt'[e] <=> other \in doubt[e]
    BY <2>2, <2>3, WriteWritten DEF Register
  <2>6. /\ dev'[d].command_current = dev[d].command_current
        /\ dev'[d].command_voltage = IF d = m.channel THEN m.value ELSE dev[d].command_voltage
    BY <1>0, <2>1, <2>2 DEF DeviceRecord
  <2>7. Agrees(d, "current", dev[d].command_current, 1000)'
    BY <1>0, <2>5, <2>6 DEF Agrees, Register
  <2>8. CASE d = m.channel
    BY <2>4, <2>5, <2>6, <2>7, <2>8 DEF Agrees
  <2>9. CASE d # m.channel
    BY <1>0, <2>5, <2>6, <2>7, <2>9 DEF Agrees, Register
  <2> QED  BY <2>8, <2>9
<1>3. CASE HandleSetCurrent
  <2>1. /\ Take({"SET_CURRENT"})
        /\ dev' = [dev EXCEPT ![m.channel].command_current = m.value]
        /\ \E u \in Units(m.value, 1000) : WriteRegister(m.channel, "current", u, 1)
    BY <1>3 DEF HandleSetCurrent
  <2>2. m.channel \in Device /\ m.value \in Nat /\ (m.value * 1000) \div PerUnit < 65536
    BY <1>0, <2>1, TakenFits DEF Fits
  <2>3. PICK u \in Units(m.value, 1000) : WriteRegister(m.channel, "current", u, 1)
    BY <2>1
  <2>4. Holds(u, m.value, 1000)
    BY <2>2, UnitsHold
  <2>5. /\ "current" \in doubt'[m.channel] \/ regs'[m.channel]["current"] = u
        /\ \A e \in Device, other \in Register : e # m.channel \/ other # "current" =>
              /\ regs'[e][other] = regs[e][other]
              /\ other \in doubt'[e] <=> other \in doubt[e]
    BY <2>2, <2>3, WriteWritten DEF Register
  <2>6. /\ dev'[d].command_voltage = dev[d].command_voltage
        /\ dev'[d].command_current = IF d = m.channel THEN m.value ELSE dev[d].command_current
    BY <1>0, <2>1, <2>2 DEF DeviceRecord
  <2>7. Agrees(d, "voltage", dev[d].command_voltage, 100)'
    BY <1>0, <2>5, <2>6 DEF Agrees, Register
  <2>8. CASE d = m.channel
    BY <2>4, <2>5, <2>6, <2>7, <2>8 DEF Agrees
  <2>9. CASE d # m.channel
    BY <1>0, <2>5, <2>6, <2>7, <2>9 DEF Agrees, Register
  <2> QED  BY <2>8, <2>9
<1>4. CASE Restart
  BY <1>4 DEF Restart, Agrees, Register
<1> QED  BY <1>1, <1>2, <1>3, <1>4

\* The setpoint the task reports is the one in the module, to the step of the
\* register, unless the write of it failed or there was none since the reset, if
\* no client asks for more than a register can hold.
THEOREM DcLoadSetpoints == RequestsFit /\ Spec => []SetpointInModule
<1>1. RequestsFit /\ Init => ModuleInv
  BY DEF Init, ModuleInv, QueueFits, SetpointInModule, Register
<1>2. TypeOK /\ ModuleInv /\ [Next]_vars => ModuleInv'
  <2> SUFFICES ASSUME TypeOK, ModuleInv, [Next]_vars PROVE ModuleInv'
    OBVIOUS
  <2>1. SetpointInModule'
    BY SetpointStep DEF SetpointInModule, Agrees
  <2>2. RequestsFit' /\ QueueFits'
    BY QueueFitsStep DEF ModuleInv, RequestsFit, Fits
  <2> QED  BY <2>1, <2>2 DEF ModuleInv
<1>3. ModuleInv => SetpointInModule
  BY DEF ModuleInv
<1> QED  BY <1>1, <1>2, <1>3, DcLoadTyped, PTL DEF Spec

-----------------------------------------------------------------------------
(***************************************************************************)
(* Queries that wait.                                                      *)
(***************************************************************************)
\* m is a query of client c that the task will answer.
AskedBy(m, c) == Handled(m) /\ m.reply = c /\ m.cmd \in Answerable

QueriesIn(q, c) == {k \in 1 .. Len(q) : AskedBy(q[k], c)}

LEMMA QueriesFinite ==
  ASSUME NEW q \in Seq(Message), NEW c
  PROVE  IsFiniteSet(QueriesIn(q, c)) /\ Cardinality(QueriesIn(q, c)) \in Nat
<1>1. Len(q) \in Int /\ 1 \in Int
  BY LenProperties
<1>2. IsFiniteSet(1 .. Len(q))
  BY <1>1, FS_Interval
<1>3. QueriesIn(q, c) \in SUBSET (1 .. Len(q))
  BY DEF QueriesIn
<1>4. IsFiniteSet(QueriesIn(q, c))
  BY <1>2, <1>3, FS_Subset
<1> QED  BY <1>4, FS_CardinalityType

\* Taking the oldest message takes its query, and no other.
LEMMA QueriesTail ==
  ASSUME NEW q \in Seq(Message), q # <<>>, NEW c
  PROVE  Cardinality(QueriesIn(q, c)) =
           Cardinality(QueriesIn(Tail(q), c)) + (IF AskedBy(Head(q), c) THEN 1 ELSE 0)
<1> DEFINE S == QueriesIn(Tail(q), c)
           T == QueriesIn(q, c) \ {1}
           f == [k \in S |-> k + 1]
<1>1. /\ Len(q) \in Nat \ {0} /\ Head(q) = q[1] /\ Tail(q) \in Seq(Message)
      /\ Len(Tail(q)) = Len(q) - 1
      /\ \A k \in 1 .. Len(q) - 1 : Tail(q)[k] = q[k + 1]
  BY TailIndexed
<1>2. \A k \in S : k \in 1 .. Len(q) - 1 /\ k + 1 \in T
  <2> SUFFICES ASSUME NEW k \in S PROVE k \in 1 .. Len(q) - 1 /\ k + 1 \in T
    OBVIOUS
  <2>1. k \in 1 .. Len(q) - 1 /\ AskedBy(Tail(q)[k], c)
    BY <1>1 DEF QueriesIn
  <2>2. k + 1 \in 1 .. Len(q) /\ k + 1 # 1 /\ Tail(q)[k] = q[k + 1]
    BY <1>1, <2>1
  <2> QED  BY <2>1, <2>2 DEF QueriesIn
<1>3. \A n \in T : n - 1 \in S /\ (n - 1) + 1 = n
  <2> SUFFICES ASSUME NEW n \in T PROVE n - 1 \in S /\ (n - 1) + 1 = n
    OBVIOUS
  <2>1. n \in 1 .. Len(q) /\ n # 1 /\ AskedBy(q[n], c)
    BY DEF QueriesIn
  <2>2. n - 1 \in 1 .. Len(q) - 1 /\ (n - 1) + 1 = n
    BY <1>1, <2>1
  <2>3. Tail(q)[n - 1] = q[n]
    BY <1>1, <2>2
  <2> QED  BY <1>1, <2>1, <2>2, <2>3 DEF QueriesIn
<1> HIDE DEF S, T
<1>4. f \in Bijection(S, T)
  <2>1. f \in [S -> T]
    BY <1>2
  <2>2. \A a, b \in S : f[a] = f[b] => a = b
    BY <1>2
  <2>3. \A t \in T : \E a \in S : f[a] = t
    BY <1>3
  <2> QED  BY <2>1, <2>2, <2>3 DEF Bijection, Injection, Surjection, IsInjective
<1>5. Cardinality(T) = Cardinality(S)
  <2>1. IsFiniteSet(S)
    BY <1>1, QueriesFinite DEF S
  <2>2. ExistsBijection(S, T)
    BY <1>4 DEF ExistsBijection
  <2> QED  BY <2>1, <2>2, FS_Bijection
<1>6. Cardinality(T) = IF AskedBy(Head(q), c) THEN Cardinality(QueriesIn(q, c)) - 1
                                              ELSE Cardinality(QueriesIn(q, c))
  <2>1. IsFiniteSet(QueriesIn(q, c))
    BY QueriesFinite
  <2>2. 1 \in QueriesIn(q, c) <=> AskedBy(Head(q), c)
    BY <1>1 DEF QueriesIn
  <2>3. Cardinality(QueriesIn(q, c) \ {1}) = IF 1 \in QueriesIn(q, c)
                                              THEN Cardinality(QueriesIn(q, c)) - 1
                                              ELSE Cardinality(QueriesIn(q, c))
    BY <2>1, FS_RemoveElement
  <2> QED  BY <2>2, <2>3 DEF T
<1>7. Cardinality(QueriesIn(q, c)) \in Nat /\ Cardinality(QueriesIn(Tail(q), c)) \in Nat
  BY <1>1, QueriesFinite
<1> QED  BY <1>5, <1>6, <1>7 DEF S

\* A new message adds at most the query that it is.
LEMMA QueriesAppend ==
  ASSUME NEW q \in Seq(Message), NEW m, NEW c
  PROVE  Cardinality(QueriesIn(Append(q, m), c)) =
           Cardinality(QueriesIn(q, c)) + (IF AskedBy(m, c) THEN 1 ELSE 0)
<1> DEFINE p == Append(q, m)
           n == Len(q) + 1
<1>1. /\ Len(q) \in Nat /\ Len(p) = n /\ p[n] = m
      /\ \A k \in 1 .. Len(q) : p[k] = q[k]
  BY AppendIndexed
<1> HIDE DEF p
<1>2. n \notin QueriesIn(q, c)
  BY <1>1 DEF QueriesIn
<1>3. 1 .. n = (1 .. Len(q)) \cup {n}
  BY <1>1
<1>4. IsFiniteSet(QueriesIn(q, c)) /\ Cardinality(QueriesIn(q, c)) \in Nat
  BY QueriesFinite
<1>5. CASE AskedBy(m, c)
  <2>1. QueriesIn(p, c) = QueriesIn(q, c) \cup {n}
    BY <1>1, <1>3, <1>5 DEF QueriesIn
  <2> QED  BY <1>2, <1>4, <1>5, <2>1, FS_AddElement DEF p
<1>6. CASE ~AskedBy(m, c)
  <2>1. QueriesIn(p, c) = QueriesIn(q, c)
    BY <1>1, <1>3, <1>6 DEF QueriesIn
  <2> QED  BY <1>4, <1>6, <2>1 DEF p
<1> QED  BY <1>5, <1>6

\* A case of the switch counts at most one answer, to the client whose query it took.
LEMMA HandlingAnswers ==
  ASSUME TypeOK, Handling, NEW c \in Client
  PROVE  replied'[c] \in Nat
         /\ replied'[c] <= replied[c] + (IF AskedBy(Head(queue), c) THEN 1 ELSE 0)
<1>1. replied \in [Client -> Nat]
  BY DEF TypeOK
<1>2. CASE HandleQuery
  <2>1. /\ Handled(Head(queue)) /\ Head(queue).cmd \in Answerable
        /\ replied' = [replied EXCEPT ![Head(queue).reply] = @ + 1]
    BY <1>2 DEF HandleQuery, Take, Answer
  <2>2. CASE Head(queue).reply = c
    <3>1. AskedBy(Head(queue), c)
      BY <2>1, <2>2 DEF AskedBy
    <3> QED  BY <1>1, <2>1, <2>2, <3>1
  <2>3. CASE Head(queue).reply # c
    BY <1>1, <2>1, <2>3
  <2> QED  BY <2>2, <2>3
<1>3. CASE ~HandleQuery
  <2>1. replied' = replied
    BY <1>3
    DEF Handling, Drain, HandleOutputState, HandleSetMode, HandleSetVoltage, HandleSetCurrent,
        HandleSetPower, HandleSetResistance, HandleSetLowVoltageProtection, HandleUnknown, Skip,
        PollAgain, historyVars
  <2> QED  BY <1>1, <2>1
<1> QED  BY <1>2, <1>3

\* Every step keeps the account of queries and answers.
LEMMA AnswerStep ==
  ASSUME TypeOK, TypeOK', AnsweredOnce, [Next]_vars
  PROVE  AnsweredOnce'
<1> SUFFICES ASSUME NEW c \in Client
             PROVE  replied'[c] + Cardinality(QueriesIn(queue', c)) <= asked'[c]
  BY DEF AnsweredOnce, Waiting, QueriesIn, AskedBy
<1>1. PICK p : p = queue'
  OBVIOUS
<1>2. PICK a : a = asked'[c]
  OBVIOUS
<1>3. PICK b : b = replied'[c]
  OBVIOUS
<1> SUFFICES b + Cardinality(QueriesIn(p, c)) <= a
  BY <1>1, <1>2, <1>3
<1>4. /\ queue \in Seq(Message) /\ asked[c] \in Nat /\ replied[c] \in Nat
      /\ p \in Seq(Message) /\ a \in Nat /\ b \in Nat
  BY <1>1, <1>2, <1>3 DEF TypeOK
<1>5. /\ Cardinality(QueriesIn(queue, c)) \in Nat /\ Cardinality(QueriesIn(p, c)) \in Nat
      /\ replied[c] + Cardinality(QueriesIn(queue, c)) <= asked[c]
  BY <1>4, QueriesFinite DEF AnsweredOnce, Waiting, QueriesIn, AskedBy
<1>6. \A m : m.source = "CTRL" => ~AskedBy(m, c)
  BY DEF AskedBy, Handled
<1>7. CASE Handling
  <2>1. /\ queue # <<>> /\ a = asked[c]
        /\ \/ p = Tail(queue)
           \/ \E m : m.source = "CTRL" /\ p = Append(Tail(queue), m)
    BY <1>1, <1>2, <1>7, HandlingTakes
  <2>2. Cardinality(QueriesIn(p, c)) = Cardinality(QueriesIn(Tail(queue), c))
    <3>1. Tail(queue) \in Seq(Message)
      BY <1>4, <2>1, TailIndexed
    <3>2. Cardinality(QueriesIn(Tail(queue), c)) \in Nat
      BY <3>1, QueriesFinite
    <3>3. ASSUME NEW m, m.source = "CTRL", p = Append(Tail(queue), m)
          PROVE  Cardinality(QueriesIn(p, c)) = Cardinality(QueriesIn(Tail(queue), c))
      <4>1. ~AskedBy(m, c)
        BY <1>6, <3>3
      <4>2. Cardinality(QueriesIn(Append(Tail(queue), m), c)) =
              Cardinality(QueriesIn(Tail(queue), c)) + (IF AskedBy(m, c) THEN 1 ELSE 0)
        BY <3>1, QueriesAppend
      <4> QED  BY <3>2, <3>3, <4>1, <4>2
    <3> QED  BY <2>1, <3>3
  <2>3. Cardinality(QueriesIn(queue, c)) =
          Cardinality(QueriesIn(Tail(queue), c)) + (IF AskedBy(Head(queue), c) THEN 1 ELSE 0)
    BY <1>4, <2>1, QueriesTail
  <2>4. b <= replied[c] + (IF AskedBy(Head(queue), c) THEN 1 ELSE 0)
    BY <1>3, <1>7, HandlingAnswers
  <2> QED  BY <1>4, <1>5, <2>1, <2>2, <2>3, <2>4
<1>8. CASE Report
  <2>1. /\ a = asked[c] /\ b = replied[c]
        /\ p = queue \/ \E m : m.source = "CTRL" /\ p = Append(queue, m)
    BY <1>1, <1>2, <1>3, <1>8, ReportAppends DEF historyVars
  <2>2. ASSUME NEW m, m.source = "CTRL", p = Append(queue, m)
        PROVE  Cardinality(QueriesIn(p, c)) = Cardinality(QueriesIn(queue, c))
    <3>1. ~AskedBy(m, c)
      BY <1>6, <2>2
    <3>2. Cardinality(QueriesIn(Append(queue, m), c)) =
            Cardinality(QueriesIn(queue, c)) + (IF AskedBy(m, c) THEN 1 ELSE 0)
      BY <1>4, QueriesAppend
    <3> QED  BY <1>5, <2>2, <3>1, <3>2
  <2> QED  BY <1>5, <2>1, <2>2
<1>9. CASE ClientRequest
  <2>1. PICK r \in Request, e \in Client : Enqueue(r, e)
    BY <1>9 DEF ClientRequest
  <2>2. PICK m : m = [source |-> "CLIENT", cmd |-> r.cmd, channel |-> r.channel,
                      value |-> r.value, reply |-> e]
    OBVIOUS
  <2>3. b = replied[c]
    BY <1>3, <2>1 DEF Enqueue
  <2>4. asked \in [Client -> Nat]
    BY DEF TypeOK
  <2>5. CASE ~(Len(queue) < QueueLength)
    <3>1. p = queue /\ a = asked[c]
      BY <1>1, <1>2, <2>1, <2>5 DEF Enqueue, Offer
    <3> QED  BY <1>5, <2>3, <3>1
  <2>6. CASE Len(queue) < QueueLength
    <3>1. p = Append(queue, m)
      BY <1>1, <2>1, <2>2, <2>6 DEF Enqueue, Offer
    <3>2. Cardinality(QueriesIn(p, c)) =
            Cardinality(QueriesIn(queue, c)) + (IF AskedBy(m, c) THEN 1 ELSE 0)
      BY <1>4, <3>1, QueriesAppend
    <3>3. AskedBy(m, c) => e = c /\ r.channel < NumDevices /\ r.cmd \in Query \ Unserved
      BY <2>2 DEF AskedBy, Handled, Answerable, Query, Unserved
    <3>4. asked' = IF r.channel < NumDevices /\ r.cmd \in Query \ Unserved
                     THEN [asked EXCEPT ![e] = @ + 1] ELSE asked
      BY <2>1, <2>6 DEF Enqueue
    <3>5. a >= asked[c] /\ (AskedBy(m, c) => a = asked[c] + 1)
      BY <1>2, <1>4, <2>4, <3>3, <3>4
    <3> QED  BY <1>4, <1>5, <2>3, <3>2, <3>5
  <2> QED  BY <2>5, <2>6
<1>10. CASE Restart
  <2>1. p = <<>> /\ a = replied[c] /\ b = replied[c]
    BY <1>1, <1>2, <1>3, <1>10 DEF Restart
  <2>2. QueriesIn(p, c) = {}
    BY <2>1 DEF QueriesIn
  <2>3. Cardinality(QueriesIn(p, c)) = 0
    BY <2>2, FS_EmptySet
  <2>4. b + 0 = a
    BY <1>4, <2>1
  <2> QED  BY <1>4, <2>3, <2>4
<1>11. CASE ~Handling /\ ~Report /\ ~ClientRequest /\ ~Restart
  <2>1. p = queue /\ a = asked[c] /\ b = replied[c]
    BY <1>1, <1>2, <1>3, <1>11, QuietStep
  <2> QED  BY <1>5, <2>1
<1> QED  BY <1>7, <1>8, <1>9, <1>10, <1>11

\* No query is answered twice, and none to a client that did not ask.
THEOREM DcLoadAnsweredOnce == Spec => []AnsweredOnce
<1>1. Init => AnsweredOnce
  <2> SUFFICES ASSUME Init, NEW c \in Client
               PROVE  replied[c] + Cardinality(Waiting(c)) <= asked[c]
    BY DEF AnsweredOnce
  <2>1. Waiting(c) = {} /\ replied[c] = 0 /\ asked[c] = 0
    BY DEF Init, Waiting
  <2> QED  BY <2>1, FS_EmptySet
<1>2. TypeOK /\ TypeOK' /\ AnsweredOnce /\ [Next]_vars => AnsweredOnce'
  BY AnswerStep
<1> QED  BY <1>1, <1>2, DcLoadTyped, PTL DEF Spec
=============================================================================
