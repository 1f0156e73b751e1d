----------------------------- MODULE BusService -----------------------------
(***************************************************************************)
(* What the users of app_bus.h may rely on: a subscriber receives, from    *)
(* each publisher, some of the messages that were published, each at most  *)
(* once and in the order of publication.  Messages may be lost; the order  *)
(* between two publishers is not fixed.                                    *)
(***************************************************************************)
EXTENDS Naturals

CONSTANTS Publisher, Subscriber, MaxMessages

VARIABLES
  issued,   \* per publisher, the number of messages it has published
  last      \* per subscriber and publisher, the newest message received

vars == <<issued, last>>

Init ==
  /\ issued = [p \in Publisher |-> 0]
  /\ last = [q \in Subscriber |-> [p \in Publisher |-> 0]]

Publish(p) ==
  /\ issued[p] < MaxMessages
  /\ issued' = [issued EXCEPT ![p] = @ + 1]
  /\ UNCHANGED last

Deliver(q, p) ==
  /\ \E n \in last[q][p] + 1 .. issued[p] : last' = [last EXCEPT ![q][p] = n]
  /\ UNCHANGED issued

Next ==
  \/ \E p \in Publisher : Publish(p)
  \/ \E q \in Subscriber, p \in Publisher : Deliver(q, p)

Spec == Init /\ [][Next]_vars
=============================================================================
