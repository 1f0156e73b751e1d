------------------------------ MODULE ScpiCodec ------------------------------
(***************************************************************************)
(* scpi_decode and scpi_encode of src/firmware/src/scpi.h: SCPI lines to   *)
(* bus messages and back.  Both are pure; the telnet server and the web    *)
(* server decode every line they receive with the first of them.           *)
(*                                                                         *)
(* A line is its header without the channel, the number the header or the  *)
(* (@n) suffix carries, and one argument: a word or a decimal number.      *)
(* Numbers have four decimals in a line (printf's %.4f) and are counted in *)
(* steps of 1/10000.  scanf's %f reads one into the nearest C float; the   *)
(* values of messages are counted in steps of 1/100000, so that what the   *)
(* float loses can be seen.                                                *)
(***************************************************************************)
EXTENDS Integers

CONSTANTS
  Decimal,   \* the numbers of lines, in 1/10000
  Float      \* the float each of them is read into, in 1/100000

\* Up to here, 1024.0000, floats lie closer than the fourth decimal.
FinelyRead == -10239999 .. 10239999

\* A float has 24 bits: below 1024 its neighbours are at most 2^-14 apart, so
\* that the nearest is less than 4/100000 away; nothing is said of the others.
ASSUME FloatAssumption ==
  /\ Decimal \subseteq Int /\ 0 \in Decimal
  /\ Float \in [Decimal -> Int]
  /\ Float[0] = 0
  /\ \A n \in Decimal \cap FinelyRead : Float[n] - 10 * n \in -4 .. 4

\* Headers of the commands that carry a number, and the command of each.
NumberCommand ==
  [SOUR_VOLT |-> "SET_VOLTAGE", SOUR_CURR |-> "SET_CURRENT", SOUR_POW |-> "SET_POWER",
   SOUR_RES |-> "SET_RESISTANCE", BATT_LVP |-> "SET_LOW_VOLTAGE_PROTECTION"]

\* Headers of the commands that switch something on or off with a word.
SwitchCommand ==
  [OUTP_STAT |-> "OUTPUT_STATE", MEAS_VOLT_CONT |-> "MEAS_VOLT_CONT",
   MEAS_CURR_CONT |-> "MEAS_CURR_CONT"]

\* Headers of the queries of one channel.
QueryCommand ==
  [SOUR_VOLT_Q |-> "SOUR_VOLT", SOUR_CURR_Q |-> "SOUR_CURR", SOUR_POW_Q |-> "SOUR_POW",
   SOUR_RES_Q |-> "SOUR_RES", SOUR_FUNC_Q |-> "SOUR_MODE",
   MEAS_VOLT_Q |-> "MEAS_VOLT", MEAS_CURR_Q |-> "MEAS_CURR"]

\* Headers of the queries of the instrument, which have no channel.
PlainCommand == [IDN_Q |-> "IDN", SYST_ERR_Q |-> "ERROR"]

\* The modes SOUR:FUNC knows, by name.
ModeNumber == [VOLT |-> 0, CURR |-> 1, POW |-> 2, RES |-> 3]

Word == {"ON", "OFF", "VOLT", "CURR", "POW", "RES", "UNKNOWN", "other", "none"}

Header ==
  DOMAIN NumberCommand \cup DOMAIN SwitchCommand \cup DOMAIN QueryCommand
    \cup DOMAIN PlainCommand \cup {"SOUR_FUNC", "other"}

\* A line as it arrives: the argument that its header does not use is
\* "none" or 0, as if it were not there.
Line == [header : Header, ch : Nat, word : Word, number : Decimal]

\* Lines that the device can carry: a channel it can tell from every other, the
\* argument of the header, and a number below 1024.
WellFormed(line) ==
  /\ line.ch \in 1 .. 256
  /\ \/ line.header \in DOMAIN SwitchCommand /\ line.word \in {"ON", "OFF"} /\ line.number = 0
     \/ line.header = "SOUR_FUNC" /\ line.word \in DOMAIN ModeNumber /\ line.number = 0
     \/ line.header \in DOMAIN QueryCommand /\ line.word = "none" /\ line.number = 0
     \/ /\ line.header \in DOMAIN NumberCommand /\ line.word = "none"
        /\ line.number \in FinelyRead

\* bus_msg_t, the part the codec fills; "none" is the result -1.
Msg == [cmd : STRING, channel : 0 .. 255, value : Int]

NoMsg == [cmd |-> "none", channel |-> 0, value |-> 0]

\* Mutant: the channel number of the line is taken as the index.
ChannelAsWritten(n) == n % 256

\* (uint8_t)(ch - 1u): the numbers 0 and 256 both give channel 255.
ChannelOf(n) == (n + 255) % 256

\* Four decimals of a value with five, rounded half away from zero.
FourDecimals(v) == IF v >= 0 THEN (v + 5) \div 10 ELSE -((5 - v) \div 10)

Decode(line) ==
  LET msg(cmd, value) == [cmd |-> cmd, channel |-> ChannelOf(line.ch), value |-> value]
      h == line.header
  IN  CASE h \in DOMAIN PlainCommand -> [NoMsg EXCEPT !.cmd = PlainCommand[h]]
        [] h \in DOMAIN SwitchCommand /\ line.word # "none" ->
             msg(SwitchCommand[h], IF line.word = "ON" THEN 100000 ELSE 0)
        [] h = "SOUR_FUNC" /\ line.word \in DOMAIN ModeNumber ->
             msg("SET_MODE", 100000 * ModeNumber[line.word])
        [] h \in DOMAIN QueryCommand -> msg(QueryCommand[h], 0)
        [] h \in DOMAIN NumberCommand /\ line.word = "none" ->
             msg(NumberCommand[h], Float[line.number])
        [] OTHER -> NoMsg

\* The header whose command is cmd, in one of the tables above.
HeaderOf(table, cmd) == CHOOSE h \in DOMAIN table : table[h] = cmd

InTable(table, cmd) == \E h \in DOMAIN table : table[h] = cmd

\* The name of a mode: a value is truncated towards zero, and one that is no
\* mode of SOUR:FUNC becomes a word that scpi_decode does not read.
ModeName(value) ==
  LET m == IF value >= 0 THEN value \div 100000 ELSE -((-value) \div 100000)
  IN  IF \E w \in DOMAIN ModeNumber : ModeNumber[w] = m
        THEN CHOOSE w \in DOMAIN ModeNumber : ModeNumber[w] = m
        ELSE "UNKNOWN"

LineOf(h, ch, word, number) == [header |-> h, ch |-> ch, word |-> word, number |-> number]

Encode(msg) ==
  LET ch == msg.channel + 1
      switch == IF msg.value # 0 THEN "ON" ELSE "OFF"
  IN  CASE InTable(PlainCommand, msg.cmd) ->
             LineOf(HeaderOf(PlainCommand, msg.cmd), 0, "none", 0)
        [] InTable(SwitchCommand, msg.cmd) ->
             LineOf(HeaderOf(SwitchCommand, msg.cmd), ch, switch, 0)
        [] msg.cmd = "SET_MODE" -> LineOf("SOUR_FUNC", ch, ModeName(msg.value), 0)
        [] InTable(QueryCommand, msg.cmd) ->
             LineOf(HeaderOf(QueryCommand, msg.cmd), ch, "none", 0)
        [] InTable(NumberCommand, msg.cmd) ->
             LineOf(HeaderOf(NumberCommand, msg.cmd), ch, "none", FourDecimals(msg.value))
        [] OTHER -> LineOf("other", 0, "none", 0)
=============================================================================
