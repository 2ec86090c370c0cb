----------------------------- MODULE MCPlayback -----------------------------
(* Recordings for Playback: two segments back to back and one after a gap   *)
(* that one window does not span, longer than twice what the code first     *)
(* takes a segment's length to be, and no longer than twice the first; and  *)
(* a camera that records all the time.  Then what comments of the source    *)
(* say that the code does not keep.                                         *)
EXTENDS Playback

MCSpans == <<<<0, 2>>, <<2, 3>>, <<5, 8>>>>
MCSteady == <<<<0, 1>>, <<1, 2>>, <<2, 3>>, <<3, 4>>, <<4, 5>>, <<5, 6>>>>

\* PlaybackSource.hpp:236: at the live edge it is never the end of the recording,
\* however long the segments of the camera are.
NeverEndedAtLiveEdge == ended => BeingWritten(pos.ms) = {}

\* PlaybackSource.hpp:351: a broken segment is passed over; one bad file must not
\* kill the whole playback.
BrokenFileIsPassed == file.span \in Mute ~> file = NoFile \/ Commanded
=============================================================================
