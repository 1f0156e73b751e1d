------------------------------ MODULE MCAppBus ------------------------------
(***************************************************************************)
(* A small instance of the bus: two publishing tasks, more queues than the *)
(* array has slots, queues of one and two messages.                        *)
(***************************************************************************)
EXTENDS AppBus, TLC

CONSTANTS ctrl, wifi, gui, web, scpi

MCCapacity == [q \in Subscriber |-> IF q = gui THEN 2 ELSE 1]

MCSymmetry == Permutations(Publisher)
=============================================================================
