-------------------------------- MODULE MCWeb --------------------------------
(***************************************************************************)
(* A small instance of the web server: two sockets, so that numbers are    *)
(* used again and a third connection needs the place of another, and       *)
(* bodies that are published and rejected.                                 *)
(***************************************************************************)
EXTENDS WebServer

\* 700.0002, and the nearest float, 700.00018.
MCDecimal == {0, 7000002}
MCFloat == [n \in MCDecimal |-> IF n = 0 THEN 0 ELSE 70000018]

Body1(header, ch, word, number) ==
  [header |-> header, ch |-> ch, word |-> word, number |-> number]

\* A number for the last channel of 8 bits, and a line that cannot be read.
MCBody ==
  {Body1("SOUR_CURR", 256, "none", 7000002), Body1("SOUR_FUNC", 1, "other", 0)}
=============================================================================
