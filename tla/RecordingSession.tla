-------------------------- MODULE RecordingSession --------------------------
(***************************************************************************)
(* One recording session: src/service/CameraRecordingSession.hpp.          *)
(*                                                                         *)
(* splitmuxsink cuts the camera's video into segment files.  In mode       *)
(* "always" every segment is announced in the database when it opens and   *)
(* completed when it closes.  In mode "motion" a closed segment waits in   *)
(* m_pendingSegments until a motion or AI event within preMotionSeconds    *)
(* saves it (it gets a row) or it is too old (its file is deleted).        *)
(*                                                                         *)
(* Four threads meet at m_mutex: the GLib loop (fragment messages, errors), *)
(* the AI pipeline's appsink thread (motion cells), HTTP threads (AI       *)
(* events) and whoever stops the session.  A step is one critical section  *)
(* of m_mutex with the sink calls and file deletions that follow it: those *)
(* concern segments only that thread still holds.  Clock::now() read just  *)
(* before the lock is read in the section.                                 *)
(*                                                                         *)
(* Abstracted: paths (a segment is its number), the cells and the JPEG of   *)
(* an event, zone geometry (a frame either wakes a zone or not), seconds    *)
(* (a tick).                                                               *)
(***************************************************************************)
EXTENDS Integers, FiniteSets

CONSTANTS
    PreMotion,       \* preMotionSeconds, in ticks
    PostMotion,      \* postMotionSeconds, in ticks
    MaxTime,         \* bound on the clock
    MaxSegments      \* bound on the segments of a session

ASSUME WindowAssumption == PreMotion \in Nat /\ PostMotion \in Nat
ASSUME BoundAssumption  == MaxTime \in Nat \ {0} /\ MaxSegments \in Nat

Never == -1
Nobody == 0
Segments == 1..MaxSegments
Times    == 0..MaxTime

VARIABLES
    mode,          \* effectiveRecordingMode, never changed: "always", "motion"
    motionEnabled, \* m_camera.motionEnabled, never changed
    now,           \* the clock
    phase,         \* "new", "live" (m_pipeline set), "error" (between the two
                   \* halves of restartRecordOnlyAfterError), "over"
    fallback,      \* m_fallbackAttempted
    count,         \* segments opened so far; segment n is the n-th
    startedClock, endedClock,
    open,          \* keys of m_openSegments
    hadMotion,     \* segments whose hadMotion / snapshot.hasMotion is set
    closing,       \* segment between closeSegment and handleClosedMotionSegment
    pending,       \* m_pendingSegments; its order is that of the numbers
    motionActive,  \* m_motionActive
    lastZoneHit,   \* m_lastZoneHit
    postUntil,     \* m_postMotionUntil, Never when it is {}
    detector,      \* where noteMotionCells is: "idle", "hit", "expired"
    files,         \* segment files on disk
    rows,          \* status of each segment's database row
    marked,        \* rows with has_motion
    wanted,        \* history: segments an event asked to keep
    promised,      \* history: end of the postMotion window events opened
    overruled      \* history: segments handed over while a motion event began,
                   \* and nothing else woke the recording after it

configVars  == <<mode, motionEnabled>>
sessionVars == <<configVars, phase, fallback>>
segmentVars == <<count, startedClock, endedClock, open, hadMotion, closing,
                 pending>>
motionVars  == <<motionActive, lastZoneHit, postUntil, detector>>
storeVars   == <<files, rows, marked>>
historyVars == <<wanted, promised, overruled>>
vars == <<now, sessionVars, segmentVars, motionVars, storeVars, historyVars>>

Init ==
    /\ mode \in {"always", "motion"} /\ motionEnabled \in BOOLEAN
    /\ now = 0
    /\ phase = "new" /\ fallback = FALSE
    /\ count = 0
    /\ startedClock = [s \in Segments |-> 0]
    /\ endedClock = [s \in Segments |-> 0]
    /\ open = {} /\ hadMotion = {} /\ closing = Nobody /\ pending = {}
    /\ motionActive = FALSE /\ lastZoneHit = 0 /\ postUntil = Never
    /\ detector = "idle"
    /\ files = {} /\ rows = [s \in Segments |-> "none"] /\ marked = {}
    /\ wanted = {} /\ promised = Never /\ overruled = {}

-----------------------------------------------------------------------------
(* Helpers.                                                                *)

isMotionMode == mode = "motion"
canFallbackToRecordOnly == mode = "always" /\ motionEnabled /\ ~fallback

isPostMotionActive(t) == postUntil # Never /\ t <= postUntil

\* timeRangesOverlap(segment, [now - preMotion, now])
StartsInPreMotionWindow(s) ==
    startedClock[s] < now /\ now - PreMotion < startedClock[s]
InPreMotionWindow(s) ==
    startedClock[s] < now /\ now - PreMotion < endedClock[s]

\* retainPreMotionSegmentsLocked: what it saves from pending.
Retained == {s \in pending : InPreMotionWindow(s)}

\* drainExpiredPendingLocked: what stays of a queue.  It pops the front while
\* that is expired, so a fresh segment shields those behind it.
Undrained(queue) ==
    {s \in queue : \E f \in queue : f <= s /\ endedClock[f] >= now - PreMotion}

\* The queue after a section that retains some segments and drains the rest.
QueueForgetsNothing(kept, queue) ==
    /\ pending' = Undrained(queue)
    /\ files' = files \ (queue \ pending')
Queue(kept, queue) ==
    /\ pending' = Undrained(queue \ kept)
    /\ files' = files \ ((queue \ kept) \ pending')

\* emitSegments: the upsert completes the row and sets its has_motion.
Emit(kept) ==
    /\ rows' = [s \in Segments |-> IF s \in kept THEN "complete" ELSE rows[s]]
    /\ marked' = marked \cup kept

-----------------------------------------------------------------------------
(* The pipeline starts, fails, and stops.                                  *)

\* start(): the pipeline, in mode always once more without the motion branch;
\* a session that does not start is dropped by its caller.
Start ==
    /\ phase = "new"
    /\ \/ phase' = "live" /\ fallback' = FALSE
       \/ canFallbackToRecordOnly /\ phase' = "live" /\ fallback' = TRUE
       \/ phase' = "over" /\ fallback' = FALSE
    /\ UNCHANGED <<configVars, now, segmentVars, motionVars, storeVars, historyVars>>

ForgetSegments == open' = {} /\ pending' = {} /\ files' = files \ pending

\* stop(): by stopRecordingLockedFree or the destructor.  The bus watch goes
\* before the EOS, so the last fragment's closed message reaches nobody.
Stop ==
    /\ phase \in {"live", "error"}
    /\ phase' = "over"
    /\ ForgetSegments
    /\ motionActive' = FALSE /\ lastZoneHit' = 0 /\ postUntil' = Never
    /\ promised' = Never
    /\ UNCHANGED <<configVars, now, fallback, count, startedClock, endedClock,
                   hadMotion, closing, detector, rows, marked, wanted, overruled>>

\* restartRecordOnlyAfterError, on the loop thread: forget ...
PipelineError ==
    /\ phase = "live" /\ closing = Nobody
    /\ canFallbackToRecordOnly
    /\ phase' = "error" /\ fallback' = TRUE
    /\ ForgetSegments
    /\ motionActive' = FALSE /\ postUntil' = Never
    /\ promised' = Never
    /\ UNCHANGED <<configVars, now, count, startedClock, endedClock, hadMotion,
                   closing, lastZoneHit, detector, rows, marked, wanted,
                   overruled>>

\* ... and start again.  A session stopped in between is torn down by its
\* destructor when the handler returns, so it is left over.
RestartRecordOnly ==
    /\ phase = "error"
    /\ phase' \in {"live", "over"}
    /\ UNCHANGED <<configVars, now, fallback, segmentVars, motionVars, storeVars,
                   historyVars>>

-----------------------------------------------------------------------------
(* Fragment messages, on the loop thread.                                  *)

LoopFree == closing = Nobody

HasMotionNow == motionActive \/ isPostMotionActive(now)

\* splitmuxsink-fragment-opened.  With async-finalize the fragment before may
\* still be open.  Bound: MaxSegments.
OpenSegment ==
    /\ phase = "live" /\ LoopFree
    /\ count < MaxSegments /\ Cardinality(open) < 2
    /\ \A s \in open : startedClock[s] < now
    /\ count' = count + 1
    /\ open' = open \cup {count + 1}
    /\ startedClock' = [startedClock EXCEPT ![count + 1] = now]
    /\ hadMotion' = IF HasMotionNow THEN hadMotion \cup {count + 1}
                    ELSE hadMotion
    /\ files' = files \cup {count + 1}
    /\ rows' = IF isMotionMode THEN rows
               ELSE [rows EXCEPT ![count + 1] = "recording"]
    /\ wanted' = IF motionActive \/ now <= promised
                 THEN wanted \cup {count + 1} ELSE wanted
    /\ UNCHANGED <<now, sessionVars, endedClock, closing, pending, motionVars,
                   marked, promised, overruled>>

\* closeSegment: a segment that is not in m_openSegments is ignored.  Segments
\* close in their order, at least a tick apart.
HasMotionSinceClose(s) == HasMotionNow
HasMotionAtClose(s) == s \in hadMotion \/ HasMotionNow

CloseSegment(s) ==
    /\ phase = "live" /\ LoopFree
    /\ s \in open /\ \A other \in open : s <= other
    /\ startedClock[s] < now /\ \A other \in 1..(s - 1) : endedClock[other] < now
    /\ open' = open \ {s}
    /\ endedClock' = [endedClock EXCEPT ![s] = now]
    /\ hadMotion' = IF HasMotionAtClose(s) THEN hadMotion \cup {s}
                    ELSE hadMotion
    /\ IF isMotionMode
       THEN closing' = s /\ UNCHANGED <<rows, marked>>
       ELSE /\ closing' = closing
            /\ rows' = [rows EXCEPT ![s] = "complete"]
            /\ marked' = IF HasMotionAtClose(s) THEN marked \cup {s} ELSE marked
    /\ UNCHANGED <<now, sessionVars, count, startedClock, pending, motionVars,
                   files, historyVars>>

\* handleClosedMotionSegment, in a critical section of its own.
KeepsClosed(s) == s \in hadMotion \/ isPostMotionActive(endedClock[s])

HandleClosedMotionSegment ==
    /\ closing # Nobody
    /\ closing' = Nobody
    /\ LET kept == IF KeepsClosed(closing) THEN {closing} ELSE {}
       IN  /\ Emit(kept)
           /\ Queue(kept, pending \cup {closing})
    /\ UNCHANGED <<now, sessionVars, count, startedClock, endedClock, open,
                   hadMotion, motionVars, historyVars>>

-----------------------------------------------------------------------------
(* Events.                                                                 *)

\* What an event is to keep: in mode motion every segment, wherever it is by
\* now, that shows a moment of the preMotion ticks before it; what is just being
\* closed; what is still being written.
ShowsPreMotion(s) ==
    \E t \in startedClock[s]..(endedClock[s] - 1) : now - PreMotion <= t /\ t < now
Closed == (1..count) \ (open \cup {closing})
EventWants == {s \in Closed : isMotionMode /\ ShowsPreMotion(s)}
                  \cup open \cup ({closing} \ {Nobody})

\* The section both kinds of event share.
KeepAround ==
    /\ Emit(Retained)
    /\ Queue(Retained, pending)
    /\ hadMotion' = hadMotion \cup open \cup Retained
    /\ wanted' = wanted \cup EventWants
    /\ promised' = now + PostMotion

LaterOf(t, u) == IF u > t THEN u ELSE t

\* noteAiEvent: an HTTP thread that found m_recording set.
noteAiEvent ==
    /\ phase \in {"live", "error"}
    /\ isMotionMode
    /\ KeepAround
    /\ postUntil' = LaterOf(postUntil, now + PostMotion)
    /\ overruled' = overruled \ {closing}
    /\ UNCHANGED <<now, sessionVars, count, startedClock, endedClock, open,
                   closing, motionActive, lastZoneHit, detector>>

\* A detector's cells count in mode motion whatever the camera says of
\* detection: one of an earlier configuration may still deliver them.
TakesCells == isMotionMode \/ motionEnabled

\* noteMotionCells, a frame that wakes a zone: first the cells ...
NoteHit ==
    /\ TakesCells
    /\ phase \in {"live", "error"} /\ detector = "idle"
    /\ detector' = "hit"
    /\ lastZoneHit' = now
    /\ UNCHANGED <<now, sessionVars, segmentVars, motionActive, postUntil,
                   storeVars, historyVars>>

\* ... then startOrUpdateMotionEvent.
StartOrUpdateMotionEvent ==
    /\ detector = "hit"
    /\ detector' = "idle"
    /\ motionActive' = TRUE
    /\ postUntil' = Never
    /\ overruled' = overruled \cup ({closing} \ (hadMotion \cup {Nobody}))
    /\ KeepAround
    /\ UNCHANGED <<now, sessionVars, count, startedClock, endedClock, open,
                   closing, lastZoneHit>>

\* A frame that wakes none, when the zones have been quiet long enough ...
NoteQuiet ==
    /\ TakesCells
    /\ phase \in {"live", "error"} /\ detector = "idle"
    /\ motionActive /\ now - lastZoneHit >= PostMotion
    /\ detector' = "expired"
    /\ UNCHANGED <<now, sessionVars, segmentVars, motionActive, lastZoneHit,
                   postUntil, storeVars, historyVars>>

\* ... then finishMotionEvent, which finds no event if the session was stopped
\* or restarted in between.
FinishMotionEvent ==
    /\ detector = "expired"
    /\ detector' = "idle"
    /\ IF motionActive
       THEN /\ motionActive' = FALSE
            /\ postUntil' = now + PostMotion
            /\ Queue({}, pending)
            /\ promised' = now + PostMotion
            /\ overruled' = overruled \ {closing}
       ELSE UNCHANGED <<motionActive, postUntil, pending, files, promised, overruled>>
    /\ UNCHANGED <<now, sessionVars, count, startedClock, endedClock, open,
                   hadMotion, closing, lastZoneHit, rows, marked, wanted>>

\* Bound: MaxTime.
Tick ==
    /\ now < MaxTime
    /\ now' = now + 1
    /\ UNCHANGED <<sessionVars, segmentVars, motionVars, storeVars, historyVars>>

-----------------------------------------------------------------------------
LoopStep ==
    \/ PipelineError \/ RestartRecordOnly
    \/ OpenSegment \/ \E s \in Segments : CloseSegment(s)
    \/ HandleClosedMotionSegment

DetectorStep ==
    NoteHit \/ StartOrUpdateMotionEvent \/ NoteQuiet \/ FinishMotionEvent

Next == Start \/ Stop \/ LoopStep \/ DetectorStep \/ noteAiEvent \/ Tick

Spec == Init /\ [][Next]_vars

-----------------------------------------------------------------------------
(* Properties.                                                             *)

TypeOK ==
    /\ mode \in {"always", "motion"} /\ motionEnabled \in BOOLEAN
    /\ now \in Times
    /\ phase \in {"new", "live", "error", "over"} /\ fallback \in BOOLEAN
    /\ count \in 0..MaxSegments
    /\ startedClock \in [Segments -> Times] /\ endedClock \in [Segments -> Times]
    /\ open \subseteq 1..count /\ hadMotion \subseteq 1..count
    /\ closing \in 0..count /\ pending \subseteq 1..count
    /\ motionActive \in BOOLEAN
    /\ lastZoneHit \in Times
    /\ postUntil \in {Never} \cup 0..(MaxTime + PostMotion)
    /\ detector \in {"idle", "hit", "expired"}
    /\ files \subseteq 1..count
    /\ rows \in [Segments -> {"none", "recording", "complete"}]
    /\ marked \subseteq 1..count
    /\ overruled \subseteq 1..count

\* A segment the database lists is on disk: whichever thread takes a segment
\* out of the session decides its fate alone, so no file is deleted after its
\* row was written.
RowsHaveFiles == \A s \in Segments : rows[s] # "none" => s \in files

\* A segment is in one place at a time: open, between the two halves of its
\* closing, or pending; and a pending one has no row yet, so that an event and
\* a drain never both act on it.
OnePlace ==
    /\ open \cap pending = {} /\ closing \notin open \cup pending
    /\ \A s \in pending : rows[s] = "none"

\* The queue of waiting segments is as deep as preMotionSeconds and no deeper,
\* however late the loop handles a fragment (a segment lasts a tick at least).
PendingBounded == Cardinality(pending) <= PreMotion + 1

\* README.md:137: while the session lasts, footage of the preMotion seconds
\* before an event, of the moment itself and of the postMotion seconds after it
\* is never deleted, whether motion or an AI result woke the recording, and with
\* detection on or off.  One loss is possible and no other: of a segment between
\* closeSegment and handleClosedMotionSegment while a motion event began.
Owed == wanted \ overruled
EventFootageKept == phase # "over" => Owed \subseteq files

\* README.md:109: mode "motion" lists only segments of an event or its windows.
OnlyEventFootageListed ==
    isMotionMode => \A s \in Segments : rows[s] # "none" => s \in wanted

\* README.md:110: a completed row says whether its segment has motion.
MotionIsMarked ==
    \A s \in Segments : rows[s] = "complete" => (s \in wanted <=> s \in marked)

\* A listed row can be believed: it is of an event, and says of which kind.
RowsSayWhatTheyShow == OnlyEventFootageListed /\ MotionIsMarked

\* What holds of the session's bookkeeping at every moment: types, the agreement
\* of rows with files, one owner for each segment, a bounded queue.
SegmentsAccountedFor == TypeOK /\ RowsHaveFiles /\ OnePlace /\ PendingBounded
=============================================================================
