------------------------------ MODULE Playback ------------------------------
(***************************************************************************)
(* Watching a recording: the feeder thread of PlaybackSource, which finds   *)
(* the segment at a position, reads its file and pushes the frames; the     *)
(* HTTP threads that seek, pause, change the speed and stop it; the viewers *)
(* that come and go.                                                       *)
(*                                                                         *)
(* One unit of time is one frame.  The recording is a sequence of spans; a  *)
(* span is in the database once it is over.  The speed is left open: how    *)
(* long the feeder sleeps before it sends a frame, and whether it sends     *)
(* frames that are no key frames (below kKeyframeOnlyRate) or drops them.   *)
(* RecordingProofs extends this module beside RecordingSession, hence the   *)
(* names of the specification and its clock.                               *)
(***************************************************************************)
EXTENDS Naturals, Sequences, FiniteSets, FiniteSetsExt

CONSTANTS
    Viewers,
    Spans,       \* what the camera records: <<start, end>> in order
    Gop,         \* frames from one key frame to the next, from a span's start
    Window,      \* kWindowMs
    Shortest,    \* what m_maxSegmentMs is before any segment was seen
    Slack,       \* what edgeWindowMs adds to twice the longest segment seen
    Mute,        \* spans whose file can be launched and then yields nothing, not
                 \* even its end: the bus its error goes to is not watched
    MaxNow, MaxSeeks    \* bounds: time that passes, seeks asked for

ASSUME PlaybackAssumption ==
    /\ Spans \in Seq(Nat \X Nat)
    /\ \A i \in DOMAIN Spans : /\ Spans[i][1] < Spans[i][2]
                               /\ i > 1 => Spans[i - 1][2] <= Spans[i][1]
    /\ {Gop, Window, Shortest} \subseteq Nat \ {0}
    /\ {Slack, MaxNow, MaxSeeks} \subseteq Nat /\ Mute \subseteq DOMAIN Spans

VARIABLES
    clock,
    cmd,      \* what the HTTP threads ask, under m_cmdMutex: stopping, pending (a
              \* seek) with its target and seq (m_seekSeq), paused
    at,       \* where the feeder is: "loop", "jump", "gate" (both within a seek),
              \* "open", "pump", "send" (a frame in hand, pacing) or "done"
    taken,    \* the seek it is carrying out
    applied,  \* m_appliedSeekSeq
    pos,      \* m_positionMs, and the seek it is the place of
    window,   \* from, to and segs, the cached result of the loader
    longest,  \* m_maxSegmentMs
    met,      \* history: the spans longest has been measured on
    file,     \* the span whose file is open and its next frame; 0 for none
    ended, waiting,
    dry,      \* since when there is nothing to play: "no", "recent", "long"
    gate,     \* consumers: those that take frames and those that need a key
    seen      \* the seek of the last frame each viewer got, None before that

windowVars == <<window, longest, met>>
feederVars == <<at, taken, applied, pos, windowVars, file, ended, waiting, dry>>
playbackVars == <<clock, cmd, feederVars, gate, seen>>

From(i) == Spans[i][1]
To(i) == Spans[i][2]
Length(i) == To(i) - From(i)
Places == {t \in 0..MaxNow : t < MaxNow}     \* asked for; time goes on past them
IsKey(f) == f % Gop = 0
NoFile == [span |-> 0, next |-> 0]
None == MaxSeeks + 1

PlaybackInit ==
    /\ clock \in 0..MaxNow
    /\ \E t \in Places :
          /\ cmd = [stopping |-> FALSE, pending |-> FALSE, target |-> 0, seq |-> 0,
                    paused |-> FALSE]
          /\ pos = [ms |-> t, of |-> 0]
    /\ at = "loop" /\ taken = [seq |-> 0, target |-> 0] /\ applied = 0
    /\ window = [from |-> 0, to |-> 0, segs |-> {}]
    /\ longest = Shortest /\ met = {}
    /\ file = NoFile /\ ended = FALSE /\ waiting = FALSE /\ dry = "no"
    /\ gate = [all |-> {}, needKey |-> {}]
    /\ seen = [v \in Viewers |-> None]

-----------------------------------------------------------------------------
(* The commands and the viewers                                            *)

Command(c) ==
    /\ ~cmd.stopping
    /\ cmd' = c
    /\ UNCHANGED <<clock, feederVars, gate, seen>>

seek(t) ==
    /\ cmd.seq < MaxSeeks
    /\ Command([cmd EXCEPT !.target = t, !.pending = TRUE, !.seq = @ + 1])
setPaused(p) == Command([cmd EXCEPT !.paused = p])
stop == Command([cmd EXCEPT !.stopping = TRUE])

addSink(v) ==
    /\ v \notin gate.all /\ ~cmd.stopping
    /\ gate' = [all |-> gate.all \cup {v}, needKey |-> gate.needKey \cup {v}]
    /\ UNCHANGED <<clock, cmd, feederVars, seen>>

removeSink(v) ==
    /\ v \in gate.all
    /\ gate' = [all |-> gate.all \ {v}, needKey |-> gate.needKey \ {v}]
    /\ seen' = [seen EXCEPT ![v] = None]
    /\ UNCHANGED <<clock, cmd, feederVars>>

\* Time passes; while there is nothing to play, it adds up to kEndedGraceMs.
Elapse ==
    /\ \/ clock < MaxNow /\ clock' = clock + 1 /\ UNCHANGED dry
       \/ dry = "recent" /\ dry' = "long" /\ UNCHANGED clock
    /\ UNCHANGED <<cmd, at, taken, applied, pos, windowVars, file, ended, waiting,
                   gate, seen>>

-----------------------------------------------------------------------------
(* The feeder                                                              *)

Feeder(step) == at = step /\ UNCHANGED <<clock, cmd>>

\* The top of feederLoop: a command first.  The seek is taken under the lock
\* and carried out without it, its number published when it is done.
Taken == [seq |-> cmd.seq, target |-> cmd.target]
PublishEarly == taken' = Taken /\ applied' = cmd.seq
PublishLater == taken' = Taken /\ UNCHANGED applied

TakeSeek ==
    /\ at = "loop" /\ ~cmd.stopping /\ cmd.pending
    /\ cmd' = [cmd EXCEPT !.pending = FALSE, !.target = 0]
    /\ PublishLater
    /\ at' = "jump"
    /\ UNCHANGED <<clock, pos, windowVars, file, ended, waiting, dry, gate, seen>>

Jump ==
    /\ Feeder("jump")
    /\ file' = NoFile
    /\ pos' = [ms |-> taken.target, of |-> taken.seq]
    /\ ended' = FALSE /\ waiting' = FALSE /\ dry' = "no"
    /\ at' = "gate"
    /\ taken' = [taken EXCEPT !.target = 0]
    /\ UNCHANGED <<applied, windowVars, gate, seen>>

\* requireKeyframe(), then the number.
KeepGate == UNCHANGED gate
requireKeyframe == gate' = [gate EXCEPT !.needKey = gate.all]

Gate ==
    /\ Feeder("gate")
    /\ requireKeyframe
    /\ applied' = taken.seq
    /\ at' = "loop"
    /\ UNCHANGED <<taken, pos, windowVars, file, ended, waiting, dry, seen>>

\* Without a command, the next file or the next frame.
MayTurn == ~cmd.stopping /\ ~cmd.pending /\ ~cmd.paused

Turn ==
    /\ Feeder("loop") /\ MayTurn
    /\ at' = IF file = NoFile THEN "open" ELSE "pump"
    /\ UNCHANGED <<taken, applied, pos, windowVars, file, ended, waiting, dry, gate, seen>>

Leave ==
    /\ Feeder("loop") /\ cmd.stopping
    /\ file' = NoFile /\ at' = "done"
    /\ UNCHANGED <<taken, applied, pos, windowVars, ended, waiting, dry, gate, seen>>

\* The loader: complete segments that meet [from, to), earliest first.
Load(from, to) ==
    {i \in DOMAIN Spans : To(i) <= clock /\ To(i) > from /\ From(i) < to}
Around(from) == [from |-> from, to |-> from + Window, segs |-> Load(from, from + Window)]
Near(want) == LET from == IF want = 0 THEN 0 ELSE want - 1 IN
    [from |-> from, to |-> want + Window, segs |-> Load(from, want + Window)]

\* The window openNextFile looks in: the cached one when the position is well
\* inside it; then, if nothing there ends after the position, one more.
Reloads(want) == want < window.from \/ want + 1 >= window.to
Cached(want) == IF Reloads(want) THEN Near(want) ELSE window
Useful(w, want) == {i \in w.segs : To(i) > want}
Looked(want) ==
    LET w == Cached(want) IN
    IF Useful(w, want) = {} /\ w.to < clock + Window THEN Around(w.to) ELSE w

\* What loading the first of these windows, and it alone, teaches of how long
\* a segment may last.
Shown(want) == IF Reloads(want) THEN Near(want).segs ELSE {}
LongestHere(length, segs) == Max({Shortest} \cup {Length(i) : i \in segs})
LongestOf(length, segs) == Max({length} \cup {Length(i) : i \in segs})

\* Nothing to play: close to the live edge that is waiting, else the end.
Dry(place) ==
    LET edge == clock < place + 2 * longest' + Slack IN
    /\ waiting' = (edge \/ (waiting /\ dry # "long"))
    /\ ended' = (~edge /\ (ended \/ dry = "long"))
    /\ dry' = IF dry = "no" THEN "recent" ELSE dry
    /\ at' = "loop"

ClearFlags == ended' = FALSE /\ waiting' = FALSE /\ dry' = "no"

\* A position in a gap moves to the next segment.  The demultiplexer lands on
\* some frame at or before the offset it was asked for, key frame or not.
Open ==
    /\ Feeder("open")
    /\ LET want == pos.ms
           found == Useful(Looked(want), want) IN
       /\ window' = Looked(want)
       /\ longest' = LongestOf(longest, Shown(want)) /\ met' = met \cup Shown(want)
       /\ \/ found = {} /\ Dry(want) /\ UNCHANGED <<pos, file>>
          \/ /\ found # {}
             /\ LET i == Min(found)
                    place == IF From(i) > want THEN From(i) ELSE want IN
                \/ /\ \E f \in 0..(place - From(i)) : file' = [span |-> i, next |-> f]
                   /\ pos' = [pos EXCEPT !.ms = place]
                   /\ ClearFlags
                   /\ at' = "pump"
                \/ /\ pos' = [pos EXCEPT !.ms = To(i)]      \* it cannot be read
                   /\ Dry(To(i))
                   /\ UNCHANGED file
    /\ UNCHANGED <<taken, applied, gate, seen>>

\* pumpOneBuffer: the next frame, the end of the file, or neither within the
\* 200 ms it waits: the loop comes round again.
Pull ==
    /\ Feeder("pump") /\ file.span \notin Mute
    /\ file.next < Length(file.span)
    /\ ClearFlags
    /\ at' = "send"
    /\ UNCHANGED <<taken, applied, pos, windowVars, file, gate, seen>>

EndOfFile ==
    /\ Feeder("pump") /\ file.span \notin Mute
    /\ file.next = Length(file.span)
    /\ ClearFlags
    /\ pos' = [pos EXCEPT !.ms = To(file.span)]
    /\ file' = NoFile
    /\ at' = "loop"
    /\ UNCHANGED <<taken, applied, windowVars, gate, seen>>

NoSample ==
    /\ Feeder("pump")
    /\ ClearFlags
    /\ at' = "loop"
    /\ UNCHANGED <<taken, applied, pos, windowVars, file, gate, seen>>

\* pace() has slept until the frame is due, or a command has woken it.
Takers == IF IsKey(file.next) THEN gate.all ELSE gate.all \ gate.needKey
Send == \E takers \in IF IsKey(file.next) THEN {Takers} ELSE {Takers, {}} :
    /\ Feeder("send")
    /\ pos' = [pos EXCEPT !.ms = From(file.span) + file.next]
    /\ gate' = [gate EXCEPT !.needKey = @ \ takers]
    /\ seen' = [v \in Viewers |-> IF v \in takers THEN pos.of ELSE seen[v]]
    /\ file' = [file EXCEPT !.next = @ + 1]
    /\ at' = "loop"
    /\ UNCHANGED <<taken, applied, windowVars, ended, waiting, dry>>

-----------------------------------------------------------------------------
Read == Pull \/ EndOfFile
Feed == TakeSeek \/ Jump \/ Gate \/ Turn \/ Leave \/ Open \/ Read \/ NoSample \/ Send

PlaybackNext ==
    \/ Feed \/ Elapse
    \/ \E t \in Places : seek(t)
    \/ \E b \in BOOLEAN : setPaused(b)
    \/ stop
    \/ \E v \in Viewers : addSink(v) \/ removeSink(v)

\* The feeder is a thread that never blocks for long; a file that is not mute
\* delivers what comes next after some tries; and time passes.
PlaybackFairness ==
    /\ WF_playbackVars(Feed) /\ SF_playbackVars(Read) /\ WF_playbackVars(Elapse)

PlaybackSpec == PlaybackInit /\ [][PlaybackNext]_playbackVars /\ PlaybackFairness

-----------------------------------------------------------------------------
PlaybackTypeOK ==
    /\ clock \in 0..MaxNow /\ pos.ms \in Nat /\ pos.of \in 0..MaxSeeks
    /\ at \in {"loop", "jump", "gate", "open", "pump", "send", "done"}
    /\ applied <= taken.seq /\ taken.seq <= cmd.seq
    /\ file = NoFile \/ /\ file.span \in DOMAIN Spans
                        /\ file.next \in 0..Length(file.span)
    /\ longest \in Nat /\ met \subseteq DOMAIN Spans
    /\ at \in {"pump", "send"} => file # NoFile
    /\ gate.needKey \subseteq gate.all /\ gate.all \subseteq Viewers
    /\ dry \in {"no", "recent", "long"} /\ ended \in BOOLEAN /\ waiting \in BOOLEAN
    /\ at = "done" => file = NoFile

\* Whoever reads the number of a seek and then the position, as the provider of
\* a WebRTC session does, reads no place from before that seek: the timeline is
\* not pulled back to where it was (PlaybackSource.hpp:130).
PushedPlaceIsCurrent == [][applied' <= pos'.of /\ pos.of <= pos'.of]_playbackVars

\* Whenever the commands come, what a viewer first gets of the place it jumped
\* to is a key frame, and nothing of a place it has left comes after it.
JumpStartsWithKey ==
    [][\A v \in Viewers : seen'[v] \notin {seen[v], None} =>
          /\ IsKey(file.next)
          /\ seen[v] # None => seen'[v] > seen[v]]_playbackVars

\* The segment the camera is writing at a place.
BeingWritten(t) == {i \in DOMAIN Spans : From(i) <= t /\ t < To(i) /\ clock < To(i)}

\* The screen does not say that the recording is over while it plays, nor while
\* the camera writes the segment the viewer waits for, unless that is more than
\* twice as long as every segment a window has shown since playback began.
PlayingIsNotEnded ==
    /\ at = "send" => ~ended /\ ~waiting
    /\ ended => ~waiting
    /\ ended => \A i \in BeingWritten(pos.ms) :
          /\ Length(i) > 2 * Shortest + Slack
          /\ \A j \in met : Length(i) > 2 * Length(j) + Slack

\* The feeder's bookkeeping, and what the screen says of it.
FeederIsSound == PlaybackTypeOK /\ PlayingIsNotEnded

\* What is in the database after the position and starts less than two windows
\* from it is played to its end, past files that cannot be launched, unless the
\* viewer pauses, seeks or stops, or a mute file holds the feeder.
Ahead(i) == To(i) <= clock /\ To(i) > pos.ms /\ From(i) < pos.ms + 2 * Window
Commanded == cmd.paused \/ cmd.stopping \/ cmd.pending
PlaysToTheEnd ==
    \A i \in DOMAIN Spans :
        Ahead(i) ~> pos.ms >= To(i) \/ Commanded \/ file.span \in Mute

\* Where no more is to be played and the live edge is far, the screen says so.
AtTheEnd ==
    clock >= pos.ms + 2 * longest + Slack /\ \A i \in DOMAIN Spans : ~Ahead(i)
EndIsSaid == AtTheEnd ~> ended \/ ~AtTheEnd \/ Commanded

\* What is opened is the file of the position or the next one there is
\* (PlaybackSource.hpp:270).
OpensTheNextSegment ==
    [][\A j \in DOMAIN Spans : at = "open" /\ file' # NoFile /\ To(j) <= clock
          /\ To(j) > pos.ms => j >= file'.span]_playbackVars

\* stop() joins the feeder: wherever it is, it ends, its file closed.
StopReturns == cmd.stopping ~> at = "done"

=============================================================================
