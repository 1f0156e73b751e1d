------------------------------ MODULE MCUpdate ------------------------------
(***************************************************************************)
(* Update with two slots, a queue of two messages and one unasked reset.   *)
(***************************************************************************)
EXTENDS Update

CONSTANTS s1, s2

MCSlot == {s1, s2}
=============================================================================
