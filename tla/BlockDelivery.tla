--------------------------- MODULE BlockDelivery ---------------------------
(***************************************************************************)
(* What the block consumer promises to the synchronizers behind it: the    *)
(* blocks of a chain are delivered one after the other; a delivery that    *)
(* was not acknowledged may start over, from the last acknowledged block   *)
(* and never from before; only delivered blocks are acknowledged.          *)
(***************************************************************************)
EXTENDS Integers

VARIABLES
    acked,    \* the last acknowledged block, None before the first
    cursor    \* the last delivered block, None before the first delivery

None == -1

Init == acked = None /\ cursor = None

\* The first delivery may begin anywhere; it does again if it was not acknowledged.
Begin == acked = None /\ cursor = None /\ cursor' \in Nat /\ UNCHANGED acked

Deliver == cursor # None /\ cursor' = cursor + 1 /\ UNCHANGED acked

Acknowledge == cursor # None /\ acked' = cursor /\ UNCHANGED cursor

StartOver == cursor' = acked /\ UNCHANGED acked

\* another chain takes over, with numbers of its own
Reset == acked' = None /\ cursor' = None

Next == Begin \/ Deliver \/ Acknowledge \/ StartOver \/ Reset

Spec == Init /\ [][Next]_<< acked, cursor >>
=============================================================================
