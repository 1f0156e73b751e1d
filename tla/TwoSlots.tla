------------------------------ MODULE TwoSlots ------------------------------
(***************************************************************************)
(* What the update promises whoever owns the device, as a history of the   *)
(* images in flash: an image runs for the first time on probation, only a  *)
(* confirmed image is replaced by an update, what is overwritten is never  *)
(* the image that runs, and one that is not confirmed is given up for      *)
(* one that is.                                                            *)
(***************************************************************************)
CONSTANT Slot

VARIABLES
  image,    \* per slot, "none", "pending" (on probation) or "valid"
  running   \* the slot the device runs from

vars == <<image, running>>

Init ==
  \E s \in Slot :
    /\ running = s
    /\ \/ image = [t \in Slot |-> IF t = s THEN "valid" ELSE "none"]
       \/ image = [t \in Slot |-> IF t = s THEN "pending" ELSE "valid"]

Confirm ==
  /\ image[running] = "pending"
  /\ image' = [image EXCEPT ![running] = "valid"]
  /\ UNCHANGED running

Erase(t) ==
  /\ image[running] = "valid"
  /\ image' = [image EXCEPT ![t] = "none"]
  /\ UNCHANGED running

\* The slot was erased before.
Install(t) ==
  /\ image[running] = "valid" /\ image[t] = "none"
  /\ image' = [image EXCEPT ![t] = "pending"]
  /\ running' = t

GiveUp(t) ==
  /\ image[running] = "pending" /\ image[t] = "valid"
  /\ image' = [image EXCEPT ![running] = "none"]
  /\ running' = t

Next ==
  \/ Confirm
  \/ \E t \in Slot \ {running} : Erase(t) \/ Install(t) \/ GiveUp(t)

Spec == Init /\ [][Next]_vars
=============================================================================
