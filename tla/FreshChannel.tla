---------------------------- MODULE FreshChannel ----------------------------
(***************************************************************************)
(* What src/ai/FrameQueue.hpp promises to the two ends of a queue: items    *)
(* arrive in order, each at most once, none older than the Capacity last    *)
(* ones offered, and the newest always arrives if the taker keeps asking.   *)
(* Items are known by their number in the order they were offered.         *)
(***************************************************************************)
EXTENDS Naturals

CONSTANT Capacity

VARIABLES
    offered,    \* number of the last item offered
    taken,      \* number of the last item taken; older ones are lost
    shut        \* nothing more is accepted

vars == <<offered, taken, shut>>

Init == offered = 0 /\ taken = 0 /\ shut = FALSE

Offer ==
    /\ ~shut
    /\ offered' = offered + 1
    /\ UNCHANGED <<taken, shut>>

Take ==
    /\ \E item \in (taken + 1) .. offered :
          /\ item + Capacity > offered
          /\ taken' = item
    /\ UNCHANGED <<offered, shut>>

Shut == shut' = TRUE /\ UNCHANGED <<offered, taken>>

Next == Offer \/ Take \/ Shut

Safety == Init /\ [][Next]_vars
Spec == Safety /\ WF_vars(Take)
=============================================================================
