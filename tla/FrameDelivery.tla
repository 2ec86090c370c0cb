---------------------------- MODULE FrameDelivery ----------------------------
(***************************************************************************)
(* How encoded frames go from a camera to everybody who wants them: the    *)
(* shared source of a camera (CameraRtpSource), the H264 source made of it *)
(* (TranscodedRtpSource, itself a consumer of the first), the bridges that *)
(* push frames into the pipeline of a recording, a WebRTC viewer or the AI *)
(* (AppSrcBridge), and the Unix socket of a MoQ viewer (MoqFeedSession).   *)
(*                                                                         *)
(* A source copies the sinks to call under its lock and calls them outside *)
(* it, so a consumer may leave between the copy and the call.  Frames are  *)
(* numbered by the source that makes them; a frame takes FrameSize units   *)
(* of a socket that holds SocketRoom.                                      *)
(***************************************************************************)
EXTENDS Naturals, Sequences, SequencesExt

CONSTANTS
    Bridges, Wires,         \* the consumers of either kind
    Coder,                  \* the bridge of the transcoder
    CameraOnly,             \* those that take the camera's own frames (the
                            \* transcoder, a recording, the AI)
    Codec,                  \* of the camera: "h264" or "h265"
    Gop,                    \* frames from one key frame to the next
    FrameSize, SocketRoom,
    MaxFrames               \* bound: frames of a source

ASSUME DeliveryAssumption ==
    /\ Coder \in CameraOnly /\ CameraOnly \subseteq Bridges
    /\ Bridges \cap Wires = {}
    /\ Codec \in {"h264", "h265"}
    /\ Gop \in Nat \ {0}
    /\ FrameSize \in Nat \ {0} /\ SocketRoom \in Nat \ {0}
    /\ MaxFrames \in Nat

VARIABLES
    source,   \* state ("new", "up", "down"), made: frames so far, calling: the
              \* copied sinks deliver() has still to call
    sinks,    \* m_consumers of each source, and who of them needs a key frame
    of,       \* the source each consumer holds
    bridge,   \* where each bridge is in its life, and the frame it pushed last
    wire,     \* the socket of each MoQ session, see Unconnected
    wild      \* a sink was called on a bridge that is gone

vars == <<source, sinks, of, bridge, wire, wild>>

Sources == {"camera", "transcoded"}
Consumers == Bridges \cup Wires
IsKey(f) == f % Gop = 1 % Gop

Smaller(a, b) == IF a < b THEN a ELSE b

\* pending: the rest of a frame begun; full: units the peer has not read yet;
\* log: the frames begun, with the units of each the socket has taken.
Unconnected == [at |-> "new", fd |-> "none", alive |-> FALSE, peer |-> TRUE,
                pending |-> 0, full |-> 0, log |-> <<>>]

Init ==
    /\ source = [s \in Sources |-> [state |-> "new", made |-> 0, calling |-> {}]]
    /\ sinks = [s \in Sources |-> [all |-> {}, needKey |-> {}]]
    /\ of = [c \in Consumers |-> "none"]
    /\ bridge = [b \in Bridges |-> [at |-> "new", seen |-> 0]]
    /\ wire = [w \in Wires |-> Unconnected]
    /\ wild = FALSE

Holders(s) == {c \in Consumers : of[c] = s}

-----------------------------------------------------------------------------
(* The sources                                                              *)

AddSink(c, s) ==
    sinks' = [sinks EXCEPT ![s] = [all |-> @.all \cup {c},
                                   needKey |-> @.needKey \cup {c}]]

RemoveSink(c) ==
    sinks' = [sinks EXCEPT ![of[c]] = [all |-> @.all \ {c},
                                       needKey |-> @.needKey \ {c}]]

\* start() of either source, when the pipeline reaches PLAYING; the failures
\* leave a source nobody is given.
StartCamera ==
    /\ source["camera"].state = "new"
    /\ \E ok \in BOOLEAN :
          source' = [source EXCEPT !["camera"].state = IF ok THEN "up" ELSE "down"]
    /\ UNCHANGED <<sinks, of, bridge, wire, wild>>

\* The registry hands the transcoder a live camera; its bridge is attached
\* last, and the first half of attach() raises the flag.
StartTranscoder ==
    /\ source["transcoded"].state = "new"
    /\ Codec = "h265"
    /\ source["camera"].state = "up"
    /\ source' = [source EXCEPT !["transcoded"].state = "up"]
    /\ of' = [of EXCEPT ![Coder] = "camera"]
    /\ bridge' = [bridge EXCEPT ![Coder].at = "enabled"]
    /\ UNCHANGED <<sinks, wire, wild>>

TranscoderFails ==
    /\ source["transcoded"].state = "new"
    /\ source["camera"].state = "up"
    /\ source' = [source EXCEPT !["transcoded"].state = "down"]
    /\ UNCHANGED <<sinks, of, bridge, wire, wild>>

\* What the pipeline of a source may still put out: the transcoder needs an
\* access unit for every frame.
MayMake(s) ==
    /\ source[s].state = "up" /\ source[s].calling = {}
    /\ source[s].made < MaxFrames
    /\ s = "transcoded" => source[s].made < bridge[Coder].seen

\* deliver(), the locked part: who gets this frame, the key frame gate.
NoGate(s, f) == sinks[s].all
Gate(s, f) == IF IsKey(f) THEN sinks[s].all ELSE sinks[s].all \ sinks[s].needKey

CopySinks(s) ==
    LET f == source[s].made + 1 IN
    /\ MayMake(s)
    /\ source' = [source EXCEPT ![s].made = f, ![s].calling = Gate(s, f)]
    /\ sinks' = [sinks EXCEPT ![s].needKey = @ \ Gate(s, f)]
    /\ UNCHANGED <<of, bridge, wire, wild>>

Called(s, c) == source' = [source EXCEPT ![s].calling = @ \ {c}]

\* stop(), when the last holder has let go; set_state(NULL) waits for the
\* streaming thread.  The transcoder first detaches its own bridge.
Joined(s) == source[s].calling = {}

StopSource(s) ==
    /\ source[s].state = "up"
    /\ Holders(s) = {}
    /\ s = "transcoded" => bridge[Coder].at = "unhooked"
    /\ Joined(s)
    /\ source' = [source EXCEPT ![s].state = "down"]
    /\ UNCHANGED <<sinks, of, bridge, wire, wild>>

-----------------------------------------------------------------------------
(* AppSrcBridge                                                             *)

\* attach(): the flag goes up before the sink is known to the source.
Enable(b) == \E s \in Sources :
    /\ b \in CameraOnly => s = "camera"
    /\ b # Coder
    /\ bridge[b].at = "new"
    /\ source[s].state = "up"
    /\ bridge' = [bridge EXCEPT ![b].at = "enabled"]
    /\ of' = [of EXCEPT ![b] = s]
    /\ UNCHANGED <<source, sinks, wire, wild>>

Attach(b) ==
    /\ bridge[b].at = "enabled"
    /\ AddSink(b, of[b])
    /\ bridge' = [bridge EXCEPT ![b].at = "attached"]
    /\ UNCHANGED <<source, of, wire, wild>>

\* detach() lowers the flag under the mutex, removes the sink, forgets the
\* appsrc and the source; the owner then frees the bridge, the transcoder
\* after its pipeline.
LowerFlag(b) ==
    /\ bridge[b].at = "attached"
    /\ b = Coder => Holders("transcoded") = {}
    /\ bridge' = [bridge EXCEPT ![b].at = "lowered"]
    /\ UNCHANGED <<source, sinks, of, wire, wild>>

Unhook(b) ==
    /\ bridge[b].at = "lowered"
    /\ RemoveSink(b)
    /\ bridge' = [bridge EXCEPT ![b].at = "unhooked"]
    /\ UNCHANGED <<source, of, wire, wild>>

Free(b) ==
    /\ bridge[b].at = "unhooked"
    /\ b = Coder => source["transcoded"].state = "down"
    /\ bridge' = [bridge EXCEPT ![b].at = "freed"]
    /\ of' = [of EXCEPT ![b] = "none"]
    /\ UNCHANGED <<source, sinks, wire, wild>>

\* push(): one critical section of the mutex of the bridge.
Enabled(b) == bridge[b].at \in {"enabled", "attached"}

CallBridge(s, b) ==
    /\ b \in source[s].calling \cap Bridges
    /\ bridge[b].at # "freed"
    /\ Called(s, b)
    /\ bridge' = [bridge EXCEPT ![b].seen = IF Enabled(b) THEN source[s].made ELSE @]
    /\ UNCHANGED <<sinks, of, wire, wild>>

\* The sink captured the address of the bridge: what it finds there is
\* anything; that it finds a lowered flag is the only outcome followed.
CallFreedBridge(s, b) ==
    /\ b \in source[s].calling \cap Bridges
    /\ bridge[b].at = "freed"
    /\ Called(s, b)
    /\ wild' = TRUE
    /\ UNCHANGED <<sinks, of, bridge, wire>>

-----------------------------------------------------------------------------
(* MoqFeedSession                                                           *)

\* connect() sends the header in blocking mode and leaves the socket empty.
Connect(w) == \E s \in Sources :
    /\ wire[w].at = "new"
    /\ source[s].state = "up"
    /\ of' = [of EXCEPT ![w] = s]
    /\ wire' = [wire EXCEPT ![w].at = "connected", ![w].fd = "open",
                            ![w].alive = TRUE]
    /\ UNCHANGED <<source, sinks, bridge, wild>>

Feed(w) ==
    /\ wire[w].at = "connected"
    /\ AddSink(w, of[w])
    /\ wire' = [wire EXCEPT ![w].at = "feeding"]
    /\ UNCHANGED <<source, of, bridge, wild>>

\* stop(): the sink goes first, then the descriptor, under the lock of the wire.
StopFeeding(w) ==
    /\ wire[w].at = "feeding"
    /\ RemoveSink(w)
    /\ wire' = [wire EXCEPT ![w].at = "stopping"]
    /\ UNCHANGED <<source, of, bridge, wild>>

CloseWire(w) ==
    /\ wire[w].at = "stopping"
    /\ wire' = [wire EXCEPT ![w].at = "closed", ![w].fd = "closed",
                            ![w].alive = FALSE]
    /\ of' = [of EXCEPT ![w] = "none"]
    /\ UNCHANGED <<source, sinks, bridge, wild>>

\* The socket takes what it has room for.
Taken(x, size) == Smaller(size, SocketRoom - x.full)
Grow(log, n) == IF log = <<>> THEN log
                ELSE [log EXCEPT ![Len(log)].units = @ + n]

\* flushPending: the tail of the frame begun, as far as it goes.
Flushed(x) ==
    LET n == Taken(x, x.pending) IN
    [x EXCEPT !.pending = @ - n, !.full = @ + n, !.log = Grow(@, n)]

\* sendmsg of a new frame, the rest of it kept.
BegunAndCut(x, f) ==
    LET n == Taken(x, FrameSize) IN
    [x EXCEPT !.full = @ + n, !.log = Append(@, [frame |-> f, units |-> n])]
Begun(x, f) ==
    LET n == Taken(x, FrameSize) IN
    [x EXCEPT !.pending = FrameSize - n, !.full = @ + n,
              !.log = Append(@, [frame |-> f, units |-> n])]

\* push(): a peer that is gone ends the wire at the next write; a new frame is
\* begun only when the last one has left and there is room for some of it.
Pushed(x, f) ==
    LET y == Flushed(x) IN
    IF ~x.peer THEN [x EXCEPT !.alive = FALSE]
    ELSE IF y.pending = 0 /\ y.full < SocketRoom THEN Begun(y, f)
    ELSE y

StillWritable(x) == x.fd # "none"
Writable(x) == x.fd = "open" /\ x.alive

\* The code never waits for the peer.
WhenRoom(x) == Writable(x) /\ x.peer => x.full < SocketRoom
MayPush(x) == TRUE

CallWire(s, w) ==
    /\ w \in source[s].calling \cap Wires
    /\ MayPush(wire[w])
    /\ Called(s, w)
    /\ wire' = [wire EXCEPT ![w] = IF Writable(@) THEN Pushed(@, source[s].made)
                                   ELSE @]
    /\ UNCHANGED <<sinks, of, bridge, wild>>

PeerReads(w) == \E n \in 1..wire[w].full :
    /\ wire[w].peer /\ wire[w].fd = "open"
    /\ wire' = [wire EXCEPT ![w].full = @ - n]
    /\ UNCHANGED <<source, sinks, of, bridge, wild>>

PeerCloses(w) ==
    /\ wire[w].peer /\ wire[w].fd = "open"
    /\ wire' = [wire EXCEPT ![w].peer = FALSE]
    /\ UNCHANGED <<source, sinks, of, bridge, wild>>

-----------------------------------------------------------------------------
Call(s) ==
    \/ \E b \in Bridges : CallBridge(s, b) \/ CallFreedBridge(s, b)
    \/ \E w \in Wires : CallWire(s, w)

Next ==
    \/ StartCamera \/ StartTranscoder \/ TranscoderFails
    \/ \E s \in Sources : CopySinks(s) \/ Call(s) \/ StopSource(s)
    \/ \E b \in Bridges : Enable(b) \/ Attach(b) \/ LowerFlag(b) \/ Unhook(b) \/ Free(b)
    \/ \E w \in Wires : \/ Connect(w) \/ Feed(w) \/ StopFeeding(w) \/ CloseWire(w)
                        \/ PeerReads(w) \/ PeerCloses(w)

\* A streaming thread that has sinks to call calls them; nobody is obliged to
\* read a socket, to leave or to make another frame.
Fairness == \A s \in Sources : WF_vars(Call(s))

Spec == Init /\ [][Next]_vars /\ Fairness

-----------------------------------------------------------------------------
\* The types, and the fact that a frame is in one delivery at a time: only a
\* source that runs has sinks to call.
TypeOK ==
    /\ source \in [Sources -> [state : {"new", "up", "down"}, made : 0..MaxFrames,
                               calling : SUBSET Consumers]]
    /\ sinks \in [Sources -> [all : SUBSET Consumers, needKey : SUBSET Consumers]]
    /\ of \in [Consumers -> Sources \cup {"none"}]
    /\ \A b \in Bridges : /\ bridge[b].at \in {"new", "enabled", "attached", "lowered",
                                               "unhooked", "freed"}
                          /\ bridge[b].seen \in 0..MaxFrames
    /\ \A w \in Wires : /\ wire[w].pending \in 0..FrameSize
                        /\ wire[w].full \in 0..SocketRoom
    /\ \A s \in Sources : source[s].calling # {} => source[s].state = "up"
    /\ wild \in BOOLEAN

\* What the peer of a MoQ session reads is whole frames, one after the other:
\* all but the last are complete, and what the last lacks is pending.  (The
\* reader finds the next frame by the length of the one before.)
WholeFrames == \A w \in Wires :
    LET log == wire[w].log IN
    /\ \A i \in 1..Len(log) :
          log[i].units + (IF i = Len(log) THEN wire[w].pending ELSE 0) = FrameSize
    /\ log = <<>> => wire[w].pending = 0

\* stop() of a MoQ session and a push that was copied before it: nothing is
\* written to a descriptor that is closed, whose number may be somebody else's.
ClosedIsNotWritten ==
    [][\A w \in Wires : wire[w].fd = "closed" => wire'[w].log = wire[w].log]_vars

\* Whoever lets go of a source has left its list of sinks before: a source that
\* is destroyed, with everything it would call, has none registered.
StoppedIsQuiet == \A s \in Sources :
    source[s].state = "down" => sinks[s].all = {}

\* A viewer that never reads, or has gone, does not hold up the thread that
\* feeds the recording and every other viewer of the camera.
DeliveryEnds == \A s \in Sources :
    source[s].calling # {} ~> source[s].calling = {}

\* Every consumer sees what GopStream promises: a bridge, whose decoder cannot
\* do without any, every frame from the first key frame on.
Stream == INSTANCE GopStream WITH
    Gapless <- Bridges,
    Frames <- 1..MaxFrames,
    phase <- [c \in Consumers |->
        IF c \in Bridges
        THEN CASE bridge[c].at = "new" -> "new"
               [] bridge[c].at \in {"enabled", "attached"} -> "open"
               [] OTHER -> "shut"
        ELSE CASE wire[c].fd = "none" -> "new"
               [] wire[c].fd = "open" -> "open"
               [] OTHER -> "shut"],
    last <- [c \in Consumers |->
        IF c \in Bridges THEN bridge[c].seen
        ELSE IF wire[c].log = <<>> THEN 0 ELSE Last(wire[c].log).frame]

FramesArrive == Stream!Spec

\* A sink is called while the object it points to exists: detach() is called
\* safe because no push comes after it (AppSrcBridge.hpp:45).
NoCallAfterFree == ~wild

\* What a reader of the socket and a source that was destroyed rely on.
DeliveryIsSound == TypeOK /\ WholeFrames /\ StoppedIsQuiet
=============================================================================
