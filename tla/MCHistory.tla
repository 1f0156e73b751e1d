----------------------------- MODULE MCHistory -----------------------------
(***************************************************************************)
(* Rings of two and three points, and gaps within a slot, of a slot, and   *)
(* longer than every ring.                                                 *)
(***************************************************************************)
EXTENDS History

MCDelay == {0, 1, 3, 9}
MCValue == {1, 2}
=============================================================================
