----------------------------- MODULE MCDisplay -----------------------------
(***************************************************************************)
(* One channel, the modes CV and CVCC, the number that disarms, above all  *)
(* limits of the numpad, and queues shorter than what a poll and a touch   *)
(* put in them.                                                            *)
(***************************************************************************)
EXTENDS Display

MCTyped == {1000}
=============================================================================
