---------------------------- MODULE RecordedTime ----------------------------
(***************************************************************************)
(* Recorded segments addressed by wall clock and by byte: the playlist of a *)
(* camera (HlsPlaylist.hpp), the segment and the offset a thumbnail is      *)
(* taken from (PlaybackController::playbackThumbnail), and the part of a    *)
(* file that answers an HTTP Range (ByteRange.hpp and                       *)
(* CameraController::getRecordingFile).                                     *)
(*                                                                          *)
(* Times are in ticks, Second of them in a second (1000 in the code).  A    *)
(* segment is [start, duration, session], start in ticks or -1 when its     *)
(* text cannot be read, session 0 when it is not known.                     *)
(***************************************************************************)
EXTENDS Integers, Sequences, FiniteSets

CONSTANTS Second,              \* ticks of one second
          TailMargin,          \* 500 ms: how far before its end the last picture is
          WindowBack, WindowAhead  \* 180 s and 5 s: the rows a thumbnail looks at

ASSUME RecordedTimeAssumption ==
    /\ Second \in Nat \ {0} /\ TailMargin \in Nat \ {0}
    /\ WindowBack \in Nat /\ WindowAhead \in Nat \ {0}

NonNegative(i) == IF i > 0 THEN i ELSE 0

-----------------------------------------------------------------------------
(* The fraction of a second is dropped. *)
parseEpochSeconds(start) == IF start < 0 THEN -1 ELSE start \div Second

(* A break of the timeline between two neighbours of the playlist: another   *)
(* pipeline wrote the second one, or nothing was recorded in between.       *)
SessionChanged(prev, cur) ==
    prev.session # cur.session /\ (prev.session # 0 \/ cur.session # 0)

WallGap(prev, cur) ==
    /\ parseEpochSeconds(prev.start) >= 0
    /\ parseEpochSeconds(cur.start) >= 0
    /\ parseEpochSeconds(cur.start) - parseEpochSeconds(prev.start)
         > NonNegative(prev.duration) \div Second + 2

(* The longest of the durations, in seconds rounded up. *)
targetDurationSeconds(segments) ==
    LET seconds == {1} \cup {(NonNegative(segments[i].duration) + Second - 1) \div Second :
                                i \in DOMAIN segments}
    IN  CHOOSE t \in seconds : \A s \in seconds : s <= t

(* The playlist: one entry per segment and whether a break is marked before it. *)
buildVodPlaylist(segments) ==
    [target |-> targetDurationSeconds(segments),
     entries |-> [i \in DOMAIN segments |->
        [segment |-> segments[i],
         discontinuity |-> i > 1 /\ (\/ SessionChanged(segments[i - 1], segments[i])
                                     \/ WallGap(segments[i - 1], segments[i]))]]]

-----------------------------------------------------------------------------
(* The rows that can be read in [from, to), by start: complete ones in a     *)
(* transport stream whose time can be parsed (loadSegments; the table keeps *)
(* those that overlap the window), by their places.  A row is a segment     *)
(* with `complete'.                                                         *)
loadSegments(rows, from, to) ==
    {i \in DOMAIN rows : /\ rows[i].complete /\ rows[i].start >= 0
                         /\ rows[i].start < to /\ rows[i].start + rows[i].duration > from}

RowContains(r, at) == r.start <= at /\ r.start + r.duration > at

(* The first segment that contains the time, or else the last that began     *)
(* before it, of those that were loaded; 0 when there is none.              *)
ChosenRow(rows, loaded, at) ==
    LET containing == {i \in loaded : RowContains(rows[i], at)}
        before == {i \in loaded : rows[i].start <= at}
        latest == {i \in before : \A j \in before : rows[j].start <= rows[i].start}
        fits == IF containing # {} THEN containing ELSE latest
    IN  IF before = {} THEN 0 ELSE CHOOSE i \in fits : \A j \in fits : i <= j

(* Where in the segment the picture is taken. *)
ThumbnailOffset(r, at) ==
    IF at < r.start + r.duration THEN NonNegative(at - r.start)
    ELSE NonNegative(r.duration - TailMargin)

playbackThumbnail(rows, at) ==
    LET chosen == ChosenRow(rows, loadSegments(rows, at - WindowBack, at + WindowAhead), at)
    IN  IF chosen = 0 THEN [found |-> FALSE]
        ELSE [found |-> TRUE, row |-> rows[chosen], offset |-> ThumbnailOffset(rows[chosen], at)]

(* The query behind a seek: the complete row that contains the time, the last *)
(* of them to begin; 0 when there is none.                                  *)
seekRecordingSegment(rows, at) ==
    LET fits == {i \in DOMAIN rows : rows[i].complete /\ RowContains(rows[i], at)}
    IN  IF fits = {} THEN 0
        ELSE CHOOSE i \in fits : \A j \in fits : rows[j].start <= rows[i].start

-----------------------------------------------------------------------------
(* A Range header is [kind, from, to]: "whole" (missing, several ranges or    *)
(* unreadable), "suffix" (bytes=-to), "open" (bytes=from-) or "closed"      *)
(* (bytes=from-to).                                                         *)
NotPresent == [present |-> FALSE, satisfiable |-> FALSE, start |-> 0, end |-> 0]
Unsatisfiable == [NotPresent EXCEPT !.present = TRUE]

SuffixRange(n, fileSize) ==
    IF n <= 0 \/ fileSize <= 0 THEN Unsatisfiable
    ELSE [present |-> TRUE, satisfiable |-> TRUE,
          start |-> IF n >= fileSize THEN 0 ELSE fileSize - n, end |-> fileSize - 1]

UpTo(from, to, fileSize) ==
    [present |-> TRUE, start |-> from, end |-> to,
     satisfiable |-> fileSize > 0 /\ from < fileSize /\ from <= to]
FromRange(from, to, fileSize) ==
    LET end == IF to > fileSize - 1 THEN fileSize - 1 ELSE to
    IN  [present |-> TRUE, start |-> from, end |-> end,
         satisfiable |-> fileSize > 0 /\ from < fileSize /\ from <= end]

parseByteRange(header, fileSize) ==
    CASE header.kind = "whole"  -> NotPresent
      [] header.kind = "suffix" -> SuffixRange(header.to, fileSize)
      [] header.kind = "open"   -> FromRange(header.from, fileSize - 1, fileSize)
      [] header.kind = "closed" -> FromRange(header.from, header.to, fileSize)

(* The answer: status, and the first byte and the number of bytes it carries. *)
getRecordingFile(header, fileSize) ==
    LET range == parseByteRange(header, fileSize)
    IN  IF range.present /\ ~range.satisfiable THEN [status |-> 416, start |-> 0, length |-> 0]
        ELSE IF ~range.present THEN [status |-> 200, start |-> 0, length |-> fileSize]
        ELSE [status |-> 206, start |-> range.start, length |-> range.end - range.start + 1]
=============================================================================
