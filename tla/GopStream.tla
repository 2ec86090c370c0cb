------------------------------ MODULE GopStream ------------------------------
(***************************************************************************)
(* What a consumer of a video source may rely on, whoever the source is    *)
(* (FrameSource.hpp): after it is opened it sees frames in increasing      *)
(* order, the first of them a key frame, and none once it is shut.  A      *)
(* consumer in Gapless misses no frame in between: it is the one whose     *)
(* decoder cannot survive a hole.                                          *)
(***************************************************************************)
EXTENDS Integers

CONSTANTS Consumers, Gapless, Frames, IsKey(_)

VARIABLES phase,  \* "new", "open" or "shut", for each consumer
          last    \* number of the last frame it saw, 0 before the first

gvars == <<phase, last>>

Init == /\ phase = [c \in Consumers |-> "new"]
        /\ last = [c \in Consumers |-> 0]

Open(c) == /\ phase[c] = "new"
           /\ phase' = [phase EXCEPT ![c] = "open"]
           /\ UNCHANGED last

See(c) == \E f \in Frames :
    /\ phase[c] = "open"
    /\ f > last[c]
    /\ last[c] = 0 => IsKey(f)
    /\ c \in Gapless /\ last[c] # 0 => f = last[c] + 1
    /\ last' = [last EXCEPT ![c] = f]
    /\ UNCHANGED phase

Shut(c) == /\ phase[c] # "shut"
           /\ phase' = [phase EXCEPT ![c] = "shut"]
           /\ UNCHANGED last

Next == \E c \in Consumers : Open(c) \/ See(c) \/ Shut(c)

Spec == Init /\ [][Next]_gvars
==============================================================================
