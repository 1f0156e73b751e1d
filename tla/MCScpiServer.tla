---------------------------- MODULE MCScpiServer ----------------------------
(***************************************************************************)
(* Small instances of the telnet server: more connections than slots, and  *)
(* few enough socket numbers that they are reused.                         *)
(***************************************************************************)
EXTENDS ScpiServer, TLC

CONSTANTS c1, c2, c3

Command(cmd) == [cmd |-> cmd, quantity |-> "volt", channel |-> 0, on |-> FALSE]
Cont(quantity, on) == [cmd |-> "CONT", quantity |-> quantity, channel |-> 0, on |-> on]

\* Queries, subscriptions, the error latch, telnet's IAC.
AllLines ==
  {Cont("volt", TRUE), Cont("volt", FALSE), Cont("curr", TRUE),
   Command("QUERY"), Command("SYST:ERR?"), Command("IAC")}

\* Lines that are answered at once, not understood or for a channel that is not
\* there, and a subscription.
PlainLines == {Command("SYST:ERR?"), Command("OTHER"), Cont("volt", TRUE),
               [Cont("volt", TRUE) EXCEPT !.channel = 255]}

IacLines == {Command("QUERY"), Command("IAC")}
QueryOnly == {Command("QUERY")}

Symmetric == Permutations(Conn)
=============================================================================
