------------------------------ MODULE MCDcLoad ------------------------------
(***************************************************************************)
(* Small instances of the controller task.  Each run fixes the requests    *)
(* its clients send; the modules start with an output that is off or on.   *)
(***************************************************************************)
EXTENDS DcLoad


\* A value in V, A, W or ohm with four decimals, in steps of 1/PerUnit = 1/10000.
Req(cmd, channel, value) == [cmd |-> cmd, channel |-> channel, value |-> value]

MCReading == {[voltage |-> 20000, current |-> 10000], [voltage |-> 50000, current |-> 10000]}

Registers(enable) ==
  [enable |-> enable, mode |-> 0, voltage |-> 300, current |-> 0, power |-> 0, resistance |-> 0]
MCPowerUp == {Registers(FALSE), Registers(TRUE)}
OnlyOff == {Registers(FALSE)}

\* Every case of the switch, a fraction the registers cannot hold (5.5555 V and
\* 0.5555 A), one that fills a step of the register exactly (0.29 V), a mode with
\* a fraction and an invalid one, a query the switch has no case for, and a
\* channel that is not there; the cutoff of 3 V lies between the two readings.
AllRequests ==
  {Req("OUTPUT_STATE", 1, 10000), Req("OUTPUT_STATE", 1, 0),
   Req("SET_LOW_VOLTAGE_PROTECTION", 1, 30000),
   Req("SET_VOLTAGE", 0, 55555), Req("SET_VOLTAGE", 0, 2900), Req("SET_CURRENT", 0, 5555),
   Req("SET_POWER", 0, 40000), Req("SET_RESISTANCE", 0, 60000),
   Req("SET_MODE", 0, 35000), Req("SET_MODE", 0, 50000),
   Req("SOUR_VOLT", 0, 0), Req("SOUR_POW", 0, 0), Req("OUTPUT_STATE", 2, 10000)}

\* Outputs, the cutoff and queries on the first channel.
LiveRequests ==
  {Req("OUTPUT_STATE", 0, 10000), Req("SET_LOW_VOLTAGE_PROTECTION", 0, 30000),
   Req("MEAS_VOLT", 0, 0), Req("SOUR_MODE", 0, 0), Req("SOUR_POW", 0, 0)}

\* Clients that never pause: a request for every one the task handles.
FloodRequests == {Req("SET_LOW_VOLTAGE_PROTECTION", 0, 30000), Req("SET_CURRENT", 0, 20000)}

FloodNext ==
  \/ Task
  \/ \E r \in Request, c \in Client : Enqueue(r, c) /\ UNCHANGED budget

FloodSpec == Init /\ [][FloodNext]_vars /\ WF_vars(Task)
=============================================================================
