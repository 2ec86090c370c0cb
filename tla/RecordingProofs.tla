-------------------------- MODULE RecordingProofs --------------------------
(* Recordings, made and watched.  The bookkeeping of a recording session,     *)
(* what it keeps and what it lists of an event (RecordingSession), for every  *)
(* length of the windows around an event and any number of segments; the     *)
(* feeder of a playback (Playback), for every recording, GOP and window and   *)
(* any number of viewers.                                                   *)
EXTENDS RecordingSession, Playback, FiniteSetTheorems, WellFoundedInduction, TLAPS

-----------------------------------------------------------------------------
(* Why it holds.  What the session holds is on disk (HeldIsOnDisk) and, but    *)
(* for the open segments of mode always, not in the table yet (HeldUnlisted), *)
(* so whoever takes a segment over decides its fate alone.  Segments wait in *)
(* the order they were closed (HeldInOrder), at different times (ClosedApart), *)
(* so a queue whose front is fresh holds no more than preMotion ticks can.   *)
Held == pending \cup ({closing} \ {Nobody})

HeldIsOnDisk == open \cup Held \subseteq files
HeldUnlisted ==
    /\ \A s \in Held : rows[s] = "none"
    /\ isMotionMode => \A s \in open : rows[s] = "none"
    /\ ~isMotionMode => Held = {}
HeldInOrder == \A s \in Held, t \in open : s < t
ClosedApart ==
    /\ \A s \in Segments : endedClock[s] <= now
    /\ \A s, t \in Held : s < t => endedClock[s] < endedClock[t]
    /\ closing # Nobody => \A s \in pending : s < closing

IInv ==
    /\ TypeOK /\ RowsHaveFiles /\ OnePlace /\ PendingBounded
    /\ HeldIsOnDisk /\ HeldUnlisted /\ HeldInOrder /\ ClosedApart

(* The initial states satisfy it. *)
LEMMA InitIInv == Init => IInv
<1> SUFFICES ASSUME Init PROVE IInv
  OBVIOUS
<1>1. TypeOK
  <2>1. 0 \in Times /\ 0 \in 0..MaxSegments
    BY BoundAssumption DEF Times
  <2>2. startedClock \in [Segments -> Times] /\ endedClock \in [Segments -> Times]
    BY <2>1 DEF Init
  <2>3. rows \in [Segments -> {"none", "recording", "complete"}]
    BY DEF Init
  <2>4. closing \in 0..count
    BY DEF Init, Nobody
  <2> QED
    BY <2>1, <2>2, <2>3, <2>4 DEF Init, TypeOK
<1>2. Cardinality({}) = 0
  BY FS_EmptySet
<1>3. PendingBounded
  BY <1>2, WindowAssumption DEF Init, PendingBounded
<1> QED
  BY <1>1, <1>3 DEF Init, IInv, RowsHaveFiles, OnePlace, HeldIsOnDisk, HeldUnlisted,
                    HeldInOrder, ClosedApart, Held, Nobody, isMotionMode, Segments, Times

(* The types that most steps need. *)
LEMMA Types ==
  ASSUME TypeOK
  PROVE  /\ count \in Nat /\ count <= MaxSegments /\ now \in Nat /\ closing \in Nat
         /\ PreMotion \in Nat /\ PostMotion \in Nat /\ MaxTime \in Nat /\ MaxSegments \in Nat
         /\ \A s \in Segments : endedClock[s] \in Nat /\ startedClock[s] \in Nat
         /\ 1..count \subseteq Segments /\ Segments \subseteq Nat /\ 0 \notin Segments
         /\ open \subseteq Segments /\ pending \subseteq Segments /\ Held \subseteq 1..count
         /\ open \subseteq 1..count /\ files \subseteq 1..count
  BY WindowAssumption, BoundAssumption DEF TypeOK, Times, Segments, Held, Nobody

(* What drains leaves a queue whose front is fresh; closed at different       *)
(* times, its segments are no more than the ticks since then.               *)
LEMMA UndrainedIsBounded ==
  ASSUME NEW queue \in SUBSET Segments, now \in Nat, PreMotion \in Nat,
         Segments \subseteq Nat,
         \A s \in Segments : endedClock[s] \in Nat /\ endedClock[s] <= now,
         \A s, t \in queue : s < t => endedClock[s] < endedClock[t]
  PROVE  Undrained(queue) \subseteq queue /\ Cardinality(Undrained(queue)) <= PreMotion + 1
<1> DEFINE left == Undrained(queue)
           recent == (now - PreMotion) .. now
           f == [s \in left |-> endedClock[s]]
<1>1. left \subseteq queue
  BY DEF Undrained
<1>2. ASSUME NEW s \in left PROVE endedClock[s] \in recent
  <2>1. PICK front \in queue : front <= s /\ endedClock[front] >= now - PreMotion
    BY <1>2 DEF Undrained
  <2>2. s \in queue /\ s \in Nat /\ front \in Nat /\ endedClock[s] \in Nat
        /\ endedClock[front] \in Nat /\ endedClock[s] <= now
    BY <1>1, <2>1
  <2>3. endedClock[front] <= endedClock[s]
    <3>1. CASE front = s
      BY <2>2, <3>1
    <3>2. CASE front < s
      BY <2>1, <2>2, <3>2
    <3> QED
      BY <2>1, <2>2, <3>1, <3>2
  <2> QED
    BY <2>1, <2>2, <2>3
<1>3. ASSUME NEW s \in left, NEW t \in left, endedClock[s] = endedClock[t] PROVE s = t
  <2>1. s \in queue /\ t \in queue /\ s \in Nat /\ t \in Nat
    BY <1>1
  <2>2. endedClock[s] \in Nat /\ endedClock[t] \in Nat
    BY <2>1
  <2> QED
    BY <1>3, <2>1, <2>2
<1>4. f \in Injection(left, recent)
  <2>1. f \in [left -> recent]
    BY <1>2
  <2>2. IsInjective(f)
    BY <1>3 DEF IsInjective
  <2> QED
    BY <2>1, <2>2 DEF Injection
<1>5. IsFiniteSet(recent) /\ Cardinality(recent) = PreMotion + 1
  <2>1. now - PreMotion \in Int /\ now \in Int
    OBVIOUS
  <2>2. now - PreMotion <= now /\ now - (now - PreMotion) + 1 = PreMotion + 1
    OBVIOUS
  <2> QED
    BY <2>1, <2>2, FS_Interval
<1> HIDE DEF left, recent, f
<1>6. Cardinality(left) <= PreMotion + 1
  BY <1>4, <1>5, FS_Injection
<1> QED
  BY <1>1, <1>6 DEF left

(* A queue that only loses segments stays bounded. *)
LEMMA FewerStayBounded ==
  ASSUME TypeOK, PendingBounded, NEW fewer \in SUBSET pending
  PROVE  Cardinality(fewer) <= PreMotion + 1
<1>1. count \in Nat /\ pending \subseteq 1..count
  BY Types DEF TypeOK
<1>2. IsFiniteSet(1..count)
  BY <1>1, FS_Interval
<1>3. IsFiniteSet(pending)
  BY <1>1, <1>2, FS_Subset
<1>4. Cardinality(fewer) <= Cardinality(pending) /\ IsFiniteSet(fewer)
  BY <1>3, FS_Subset
<1>5. Cardinality(fewer) \in Nat /\ Cardinality(pending) \in Nat
  BY <1>3, <1>4, FS_CardinalityType
<1> QED
  BY <1>4, <1>5, WindowAssumption DEF PendingBounded

Bookkeeping ==
    /\ RowsHaveFiles /\ OnePlace /\ PendingBounded
    /\ HeldIsOnDisk /\ HeldUnlisted /\ HeldInOrder /\ ClosedApart

(* What a section does to the queue: it keeps the files of what it retains   *)
(* and of what still waits, and deletes those of drained segments alone.     *)
LEMMA QueueFacts ==
  ASSUME IInv, NEW queue \in SUBSET Held, NEW kept \in SUBSET queue,
         Queue(kept, queue)
  PROVE  /\ pending' \subseteq queue \ kept /\ Cardinality(pending') <= PreMotion + 1
         /\ files' \subseteq files /\ files \ queue \subseteq files'
         /\ kept \subseteq files' /\ pending' \subseteq files'
<1>1. queue \subseteq Segments /\ now \in Nat /\ PreMotion \in Nat /\ Segments \subseteq Nat
      /\ \A s \in Segments : endedClock[s] \in Nat
  BY Types DEF IInv
<1>2. \A s \in Segments : endedClock[s] <= now
  BY DEF IInv, ClosedApart
<1>3. \A s, t \in queue \ kept : s < t => endedClock[s] < endedClock[t]
  BY DEF IInv, ClosedApart
<1>4. pending' = Undrained(queue \ kept) /\ files' = files \ ((queue \ kept) \ pending')
  BY DEF Queue
<1>5. pending' \subseteq queue \ kept /\ Cardinality(pending') <= PreMotion + 1
  <2> DEFINE left == queue \ kept
  <2>1. left \in SUBSET Segments
    BY <1>1
  <2>2. \A s, t \in left : s < t => endedClock[s] < endedClock[t]
    BY <1>3
  <2>3. \A s \in Segments : endedClock[s] \in Nat /\ endedClock[s] <= now
    BY <1>1, <1>2
  <2> HIDE DEF left
  <2>4. Undrained(left) \subseteq left /\ Cardinality(Undrained(left)) <= PreMotion + 1
    BY <1>1, <2>1, <2>2, <2>3, UndrainedIsBounded
  <2> QED
    BY <1>4, <2>4 DEF left
<1>6. queue \subseteq files
  BY DEF IInv, HeldIsOnDisk
<1> QED
  BY <1>4, <1>5, <1>6

(* A section that takes segments over from the queue, or the closing one. *)
LEMMA TakenOver ==
  ASSUME IInv, NEW queue \in SUBSET Held, NEW kept \in SUBSET queue,
         Queue(kept, queue),
         \A s \in Segments : rows'[s] = IF s \in kept THEN "complete" ELSE rows[s],
         \/ closing' = closing /\ queue = pending
         \/ closing' = Nobody,
         UNCHANGED <<mode, now, endedClock, open>>
  PROVE  Bookkeeping' /\ pending' \subseteq 1..count /\ files' \subseteq 1..count
<1>1. /\ pending' \subseteq queue \ kept /\ Cardinality(pending') <= PreMotion + 1
      /\ files' \subseteq files /\ files \ queue \subseteq files'
      /\ kept \subseteq files' /\ pending' \subseteq files'
  BY QueueFacts
<1>2. /\ open \subseteq Segments /\ Held \subseteq 1..count /\ Held \subseteq Segments
      /\ files \subseteq 1..count /\ 0 \notin Segments
  BY Types DEF IInv
<1>3. open \cap Held = {} /\ closing \notin pending /\ closing \notin open
  BY DEF IInv, OnePlace, Held
<1>4. Held' \subseteq Held \ kept
  BY <1>1, <1>3 DEF Held
<1>5. RowsHaveFiles'
  <2> SUFFICES ASSUME NEW s \in Segments, rows'[s] # "none" PROVE s \in files'
    BY DEF RowsHaveFiles
  <2>1. CASE s \in kept
    BY <1>1, <2>1
  <2>2. CASE s \notin kept
    <3>1. rows[s] # "none"
      BY <2>2
    <3>2. s \in files /\ s \notin Held
      BY <3>1 DEF IInv, RowsHaveFiles, HeldUnlisted
    <3> QED
      BY <3>2, <1>1
  <2> QED
    BY <2>1, <2>2
<1>6. \A s \in Held' : rows'[s] = "none"
  BY <1>2, <1>4 DEF IInv, HeldUnlisted
<1>7. OnePlace'
  <2>1. open' \cap pending' = {}
    BY <1>1, <1>3
  <2>2. closing' \notin open' \cup pending'
    BY <1>1, <1>2, <1>3 DEF Nobody
  <2>3. \A s \in pending' : rows'[s] = "none"
    BY <1>6 DEF Held
  <2> QED
    BY <2>1, <2>2, <2>3 DEF OnePlace
<1>8. PendingBounded'
  BY <1>1 DEF PendingBounded
<1>9. HeldIsOnDisk'
  <2>1. open \subseteq files'
    BY <1>1, <1>3 DEF IInv, HeldIsOnDisk
  <2>2. closing' # Nobody => closing' \in files'
    <3> SUFFICES ASSUME closing' # Nobody PROVE closing' \in files'
      OBVIOUS
    <3>1. closing' = closing /\ queue = pending
      OBVIOUS
    <3>2. closing \in files
      BY <3>1 DEF IInv, HeldIsOnDisk, Held
    <3> QED
      BY <3>1, <3>2, <1>1, <1>3
  <2> QED
    BY <1>1, <2>1, <2>2 DEF HeldIsOnDisk, Held
<1>10. HeldUnlisted'
  <2>1. isMotionMode' = isMotionMode
    BY DEF isMotionMode
  <2>2. isMotionMode => \A s \in open' : rows'[s] = "none"
    BY <1>2, <1>3 DEF IInv, HeldUnlisted
  <2>3. ~isMotionMode => Held' = {}
    BY <1>4 DEF IInv, HeldUnlisted
  <2> QED
    BY <1>6, <2>1, <2>2, <2>3 DEF HeldUnlisted
<1>11. HeldInOrder'
  BY <1>4 DEF IInv, HeldInOrder
<1>12. ClosedApart'
  <2>1. closing' # Nobody => \A s \in pending' : s < closing'
    BY <1>1 DEF IInv, ClosedApart
  <2> QED
    BY <1>4, <2>1 DEF IInv, ClosedApart
<1> QED
  BY <1>1, <1>2, <1>5, <1>7, <1>8, <1>9, <1>10, <1>11, <1>12 DEF Bookkeeping

(* A section that touches no segment; the clock may have gone on. *)
LEMMA Untouched ==
  ASSUME IInv, now' \in Nat, now <= now',
         UNCHANGED <<mode, endedClock, open, closing, pending, files, rows>>
  PROVE  Bookkeeping'
<1>1. now \in Nat /\ \A s \in Segments : endedClock[s] \in Nat
  BY Types DEF IInv
<1>2. Held' = Held /\ isMotionMode' = isMotionMode
  BY DEF Held, isMotionMode
<1>3. RowsHaveFiles' /\ OnePlace' /\ PendingBounded'
  BY DEF IInv, RowsHaveFiles, OnePlace, PendingBounded
<1>4. HeldIsOnDisk' /\ HeldUnlisted' /\ HeldInOrder'
  BY <1>2 DEF IInv, HeldIsOnDisk, HeldUnlisted, HeldInOrder
<1>5. ClosedApart'
  <2>1. \A s \in Segments : endedClock[s] <= now'
    BY <1>1 DEF IInv, ClosedApart
  <2> QED
    BY <1>2, <2>1 DEF IInv, ClosedApart
<1> QED
  BY <1>3, <1>4, <1>5 DEF Bookkeeping

(* A session that stops, or starts again, forgets what it held. *)
LEMMA Forgotten ==
  ASSUME IInv, ForgetSegments, UNCHANGED <<mode, now, endedClock, closing, rows>>
  PROVE  Bookkeeping' /\ open' \subseteq 1..count /\ pending' \subseteq 1..count
         /\ files' \subseteq 1..count
<1>1. open' = {} /\ pending' = {} /\ files' = files \ pending
  BY DEF ForgetSegments
<1>2. files \subseteq 1..count /\ PreMotion \in Nat
  BY Types DEF IInv
<1>3. Held' \subseteq Held /\ isMotionMode' = isMotionMode
  BY <1>1 DEF Held, isMotionMode
<1>4. RowsHaveFiles'
  BY <1>1 DEF IInv, RowsHaveFiles, OnePlace
<1>5. OnePlace'
  BY <1>1 DEF OnePlace
<1>6. PendingBounded'
  <2>1. Cardinality({}) = 0
    BY FS_EmptySet
  <2> QED
    BY <1>1, <1>2, <2>1 DEF PendingBounded
<1>7. HeldIsOnDisk'
  BY <1>1 DEF IInv, HeldIsOnDisk, Held, OnePlace
<1>8. HeldUnlisted'
  BY <1>1, <1>3 DEF IInv, HeldUnlisted
<1>9. HeldInOrder' /\ ClosedApart'
  BY <1>1, <1>3 DEF IInv, HeldInOrder, ClosedApart
<1> QED
  BY <1>1, <1>2, <1>4, <1>5, <1>6, <1>7, <1>8, <1>9 DEF Bookkeeping

-----------------------------------------------------------------------------
(* One lemma for each step of a thread.                                    *)

(* The pipeline starts, the detector begins, a tick passes: nothing moves. *)
LEMMA StartKeeps == ASSUME IInv, Start PROVE IInv'
<1>1. now \in Nat
  BY Types DEF IInv
<1>2. Bookkeeping'
  BY <1>1, Untouched DEF Start, configVars, segmentVars, storeVars
<1>3. TypeOK'
  BY DEF IInv, TypeOK, Start, configVars, segmentVars, motionVars, storeVars, historyVars
<1> QED
  BY <1>2, <1>3 DEF IInv, Bookkeeping

LEMMA RestartKeeps == ASSUME IInv, RestartRecordOnly PROVE IInv'
<1>1. now \in Nat
  BY Types DEF IInv
<1>2. Bookkeeping'
  BY <1>1, Untouched DEF RestartRecordOnly, configVars, segmentVars, storeVars
<1>3. TypeOK'
  BY DEF IInv, TypeOK, RestartRecordOnly, configVars, segmentVars, motionVars, storeVars,
                historyVars
<1> QED
  BY <1>2, <1>3 DEF IInv, Bookkeeping

LEMMA DetectorBeginKeeps == ASSUME IInv, NoteHit \/ NoteQuiet PROVE IInv'
<1>1. now \in Nat
  BY Types DEF IInv
<1>2. UNCHANGED <<now, sessionVars, segmentVars, motionActive, postUntil, storeVars,
                  overruled>>
      /\ lastZoneHit' \in Times /\ detector' \in {"idle", "hit", "expired"}
  BY DEF NoteHit, NoteQuiet, IInv, TypeOK, historyVars
<1>3. Bookkeeping'
  BY <1>1, <1>2, Untouched DEF sessionVars, configVars, segmentVars, storeVars
<1>4. TypeOK'
  BY <1>2 DEF IInv, TypeOK, sessionVars, configVars, segmentVars, storeVars
<1> QED
  BY <1>3, <1>4 DEF IInv, Bookkeeping

LEMMA TickKeeps == ASSUME IInv, Tick PROVE IInv'
<1>1. now \in Nat /\ MaxTime \in Nat
  BY Types DEF IInv
<1>2. now' \in Times /\ now' \in Nat /\ now <= now'
  BY <1>1 DEF Tick, Times
<1>3. Bookkeeping'
  BY <1>2, Untouched DEF Tick, sessionVars, configVars, segmentVars, storeVars
<1>4. TypeOK'
  BY <1>2 DEF IInv, TypeOK, Tick, sessionVars, configVars, segmentVars, motionVars,
     storeVars, historyVars
<1> QED
  BY <1>3, <1>4 DEF IInv, Bookkeeping

(* A session is taken down. *)
LEMMA StopKeeps == ASSUME IInv, Stop \/ PipelineError PROVE IInv'
<1>1. /\ ForgetSegments
      /\ UNCHANGED <<configVars, now, count, startedClock, endedClock, hadMotion,
                     closing, detector, rows, marked, overruled>>
      /\ phase' \in {"new", "live", "error", "over"} /\ fallback' \in BOOLEAN
      /\ motionActive' \in BOOLEAN /\ lastZoneHit' \in {0, lastZoneHit} /\ postUntil' = Never
  BY DEF Stop, PipelineError, IInv, TypeOK
<1>2. Bookkeeping' /\ open' \subseteq 1..count /\ pending' \subseteq 1..count
      /\ files' \subseteq 1..count
  BY <1>1, Forgotten DEF configVars
<1>3. 0 \in Times
  BY BoundAssumption DEF Times
<1>4. TypeOK'
  BY <1>1, <1>2, <1>3 DEF IInv, TypeOK, configVars
<1> QED
  BY <1>2, <1>4 DEF IInv, Bookkeeping

(* A segment opens. *)
LEMMA OpenKeeps == ASSUME IInv, OpenSegment PROVE IInv'
<1> DEFINE new == count + 1
<1>1. /\ count \in Nat /\ MaxSegments \in Nat /\ new \in Segments /\ new \in Nat
      /\ new \notin 1..count /\ 1..count \subseteq 1..new /\ new # 0
      /\ 0..count \subseteq 0..new /\ new \in 1..new /\ new \in 0..MaxSegments
  BY Types DEF IInv, OpenSegment, Segments
<1>2. /\ count' = new /\ open' = open \cup {new} /\ files' = files \cup {new}
      /\ startedClock' = [startedClock EXCEPT ![new] = now]
      /\ hadMotion' \subseteq hadMotion \cup {new}
      /\ rows' = IF isMotionMode THEN rows ELSE [rows EXCEPT ![new] = "recording"]
      /\ UNCHANGED <<now, mode, motionEnabled, phase, fallback, endedClock, closing,
                     pending, motionVars, marked, overruled>>
  BY DEF OpenSegment, sessionVars, configVars
<1>3. /\ open \subseteq 1..count /\ Held \subseteq 1..count /\ files \subseteq 1..count
      /\ Held \subseteq Segments /\ Segments \subseteq Nat
  BY Types DEF IInv
<1>4. Held' = Held /\ isMotionMode' = isMotionMode
  BY <1>2 DEF Held, isMotionMode
<1>5. rows \in [Segments -> {"none", "recording", "complete"}]
  BY DEF IInv, TypeOK
<1> HIDE DEF new
<1>6. \A s \in Segments : rows'[s] = IF s = new /\ ~isMotionMode THEN "recording" ELSE rows[s]
  BY <1>1, <1>2, <1>5
<1>7. TypeOK'
  <2>1. startedClock' \in [Segments -> Times]
    BY <1>1, <1>2 DEF IInv, TypeOK
  <2>2. rows' \in [Segments -> {"none", "recording", "complete"}]
    BY <1>1, <1>2, <1>5
  <2>3. open' \subseteq 1..new /\ hadMotion' \subseteq 1..new /\ files' \subseteq 1..new
        /\ closing' \in 0..new /\ pending' \subseteq 1..new /\ marked' \subseteq 1..new
        /\ overruled' \subseteq 1..new
    BY <1>1, <1>2 DEF IInv, TypeOK
  <2> QED
    BY <1>1, <1>2, <2>1, <2>2, <2>3 DEF IInv, TypeOK, motionVars
<1>8. RowsHaveFiles'
  BY <1>2, <1>6 DEF IInv, RowsHaveFiles
<1>9. rows[new] = "none" /\ new \notin Held
  BY <1>1, <1>3, <1>5 DEF IInv, RowsHaveFiles
<1>10. \A s \in Held : rows'[s] = "none"
  BY <1>3, <1>6, <1>9 DEF IInv, HeldUnlisted
<1>11. OnePlace'
  <2>1. new \notin pending /\ closing # new
    BY <1>1, <1>9 DEF Held, Nobody
  <2>2. \A s \in pending' : rows'[s] = "none"
    BY <1>2, <1>10 DEF Held
  <2> QED
    BY <1>2, <2>1, <2>2 DEF IInv, OnePlace
<1>12. PendingBounded' /\ HeldIsOnDisk'
  BY <1>2, <1>4 DEF IInv, PendingBounded, HeldIsOnDisk
<1>13. HeldUnlisted'
  <2>1. isMotionMode => \A s \in open' : rows'[s] = "none"
    BY <1>2, <1>9 DEF IInv, HeldUnlisted
  <2> QED
    BY <1>4, <1>10, <2>1 DEF IInv, HeldUnlisted
<1>14. HeldInOrder'
  <2>1. \A s \in Held : s < new
    BY <1>1, <1>3 DEF new
  <2> QED
    BY <1>2, <1>4, <2>1 DEF IInv, HeldInOrder
<1>15. ClosedApart'
  BY <1>2, <1>4 DEF IInv, ClosedApart
<1> QED
  BY <1>7, <1>8, <1>11, <1>12, <1>13, <1>14, <1>15 DEF IInv

(* A segment closes. *)
LEMMA CloseKeeps == ASSUME IInv, NEW s \in Segments, CloseSegment(s) PROVE IInv'
<1>1. /\ s \in open /\ \A other \in open : s <= other
      /\ \A other \in 1..(s - 1) : endedClock[other] < now
      /\ closing = Nobody
      /\ open' = open \ {s} /\ endedClock' = [endedClock EXCEPT ![s] = now]
      /\ hadMotion' \subseteq hadMotion \cup {s}
      /\ closing' = IF isMotionMode THEN s ELSE closing
      /\ rows' = IF isMotionMode THEN rows ELSE [rows EXCEPT ![s] = "complete"]
      /\ marked' \subseteq marked \cup {s}
      /\ UNCHANGED <<now, mode, motionEnabled, phase, fallback, count, startedClock,
                     pending, motionVars, files, overruled>>
  BY DEF CloseSegment, LoopFree, sessionVars, configVars, historyVars
<1>2. /\ now \in Nat /\ open \subseteq Segments /\ pending \subseteq Segments
      /\ Segments \subseteq Nat /\ 0 \notin Segments /\ open \subseteq 1..count
      /\ count \in Nat /\ \A o \in Segments : endedClock[o] \in Nat
  BY Types DEF IInv
<1>3. /\ rows \in [Segments -> {"none", "recording", "complete"}]
      /\ endedClock \in [Segments -> Times] /\ now \in Times
  BY DEF IInv, TypeOK
<1>4. /\ \A o \in Segments : rows'[o] = IF o = s /\ ~isMotionMode THEN "complete" ELSE rows[o]
      /\ \A o \in Segments : endedClock'[o] = IF o = s THEN now ELSE endedClock[o]
      /\ isMotionMode' = isMotionMode
  BY <1>1, <1>3 DEF isMotionMode
<1>5. Held = pending /\ Held' = pending \cup (IF isMotionMode THEN {s} ELSE {})
  BY <1>1, <1>2 DEF Held, Nobody
<1>6. s \notin pending /\ s \in Nat /\ (~isMotionMode => pending = {})
  BY <1>1, <1>2, <1>5 DEF IInv, OnePlace, HeldUnlisted
<1>7. \A o \in pending : o < s /\ endedClock[o] < now
  <2> SUFFICES ASSUME NEW o \in pending PROVE o < s /\ endedClock[o] < now
    OBVIOUS
  <2>1. o < s
    BY <1>1, <1>5 DEF IInv, HeldInOrder
  <2>2. o \in Segments /\ o \in 1..(s - 1)
    BY <1>2, <1>6, <2>1 DEF Segments
  <2> QED
    BY <1>1, <2>1, <2>2
<1>8. TypeOK'
  <2>1. rows' \in [Segments -> {"none", "recording", "complete"}]
    BY <1>1, <1>3
  <2>2. endedClock' \in [Segments -> Times]
    BY <1>1, <1>3
  <2>3. s \in 1..count /\ s \in 0..count
    BY <1>1, <1>2
  <2>4. open' \subseteq 1..count /\ hadMotion' \subseteq 1..count /\ closing' \in 0..count
        /\ marked' \subseteq 1..count
    BY <1>1, <2>3 DEF IInv, TypeOK
  <2> QED
    BY <1>1, <2>1, <2>2, <2>4 DEF IInv, TypeOK, motionVars
<1>9. RowsHaveFiles' /\ HeldIsOnDisk'
  <2>1. s \in files
    BY <1>1 DEF IInv, HeldIsOnDisk
  <2> QED
    BY <1>1, <1>4, <1>5, <2>1 DEF IInv, RowsHaveFiles, HeldIsOnDisk
<1>10. HeldUnlisted'
  <2>1. isMotionMode => rows[s] = "none"
    BY <1>1 DEF IInv, HeldUnlisted
  <2>2. \A o \in Held' : rows'[o] = "none"
    BY <1>2, <1>4, <1>5, <1>6, <2>1 DEF IInv, HeldUnlisted
  <2>3. isMotionMode => \A o \in open' : rows'[o] = "none"
    BY <1>1 DEF IInv, HeldUnlisted
  <2> QED
    BY <1>4, <1>5, <1>6, <2>2, <2>3 DEF HeldUnlisted
<1>11. OnePlace'
  <2>1. open' \cap pending' = {}
    BY <1>1 DEF IInv, OnePlace
  <2>2. closing' \notin open' \cup pending'
    BY <1>1, <1>2, <1>6 DEF Nobody
  <2>3. \A o \in pending' : rows'[o] = "none"
    BY <1>1, <1>10 DEF HeldUnlisted, Held
  <2> QED
    BY <2>1, <2>2, <2>3 DEF OnePlace
<1>12. PendingBounded'
  BY <1>1 DEF IInv, PendingBounded
<1>13. HeldInOrder'
  <2>1. \A o \in open' : s < o
    BY <1>1, <1>2, <1>6
  <2>2. \A o \in pending, t \in open' : o < t
    BY <1>1, <1>5 DEF IInv, HeldInOrder
  <2> QED
    BY <1>5, <2>1, <2>2 DEF HeldInOrder
<1>14. ClosedApart'
  <2>1. \A o \in Segments : endedClock'[o] <= now'
    BY <1>1, <1>2, <1>4 DEF IInv, ClosedApart
  <2>2. \A o, t \in Held' : o < t => endedClock'[o] < endedClock'[t]
    <3> SUFFICES ASSUME NEW o \in Held', NEW t \in Held', o < t
                 PROVE  endedClock'[o] < endedClock'[t]
      OBVIOUS
    <3>1. o \in Segments /\ t \in Segments /\ o \in Nat /\ t \in Nat
      BY <1>2, <1>5
    <3>2. CASE t = s
      <4>1. o \in pending /\ o # s
        BY <1>5, <1>6, <3>2
      <4> QED
        BY <1>4, <1>7, <3>1, <3>2, <4>1
    <3>3. CASE t # s
      <4>1. t \in pending /\ t < s
        BY <1>5, <1>7, <3>3
      <4>2. o # s /\ o \in pending
        BY <1>5, <1>6, <3>1, <4>1
      <4> QED
        BY <1>4, <1>5, <3>1, <3>3, <4>1, <4>2 DEF IInv, ClosedApart
    <3> QED
      BY <3>2, <3>3
  <2>3. closing' # Nobody => \A o \in pending' : o < closing'
    BY <1>1, <1>7
  <2> QED
    BY <2>1, <2>2, <2>3 DEF ClosedApart
<1> QED
  BY <1>8, <1>9, <1>10, <1>11, <1>12, <1>13, <1>14 DEF IInv

(* The loop thread decides about the segment it closed. *)
LEMMA HandleKeeps == ASSUME IInv, HandleClosedMotionSegment PROVE IInv'
<1> DEFINE kept == IF KeepsClosed(closing) THEN {closing} ELSE {}
           queue == pending \cup {closing}
<1>1. /\ closing # Nobody /\ closing' = Nobody /\ Emit(kept) /\ Queue(kept, queue)
      /\ UNCHANGED <<now, mode, motionEnabled, phase, fallback, count, startedClock,
                     endedClock, open, hadMotion, motionVars, overruled>>
  BY DEF HandleClosedMotionSegment, sessionVars, configVars, historyVars
<1>2. queue = Held /\ kept \in SUBSET queue
  BY <1>1 DEF Held
<1> HIDE DEF kept, queue
<1>3. /\ \A s \in Segments : rows'[s] = IF s \in kept THEN "complete" ELSE rows[s]
      /\ rows' = [s \in Segments |-> IF s \in kept THEN "complete" ELSE rows[s]]
      /\ marked' = marked \cup kept
  BY <1>1 DEF Emit
<1>4. Bookkeeping' /\ pending' \subseteq 1..count /\ files' \subseteq 1..count
  BY <1>1, <1>2, <1>3, TakenOver
<1>5. TypeOK'
  <2>1. rows' \in [Segments -> {"none", "recording", "complete"}]
    BY <1>3 DEF IInv, TypeOK
  <2>2. kept \subseteq 1..count /\ count \in Nat
    BY <1>2, Types DEF IInv
  <2>3. closing' \in 0..count
    BY <1>1, <2>2 DEF Nobody
  <2>4. marked' \subseteq 1..count
    BY <1>3, <2>2 DEF IInv, TypeOK
  <2> QED
    BY <1>1, <1>4, <2>1, <2>3, <2>4 DEF IInv, TypeOK, motionVars
<1> QED
  BY <1>4, <1>5 DEF IInv, Bookkeeping

(* An event takes what its window covers. *)
LEMMA KeepAroundKeeps ==
  ASSUME IInv, KeepAround,
         UNCHANGED <<now, sessionVars, count, startedClock, endedClock, open, closing>>,
         motionActive' \in BOOLEAN, lastZoneHit' \in Times,
         postUntil' \in {Never} \cup 0..(MaxTime + PostMotion),
         detector' \in {"idle", "hit", "expired"}, overruled' \subseteq 1..count
  PROVE  IInv'
<1>1. /\ Emit(Retained) /\ Queue(Retained, pending)
      /\ hadMotion' = hadMotion \cup open \cup Retained
  BY DEF KeepAround
<1>2. pending \in SUBSET Held /\ Retained \in SUBSET pending
  BY DEF Held, Retained
<1>3. /\ \A s \in Segments : rows'[s] = IF s \in Retained THEN "complete" ELSE rows[s]
      /\ rows' = [s \in Segments |-> IF s \in Retained THEN "complete" ELSE rows[s]]
      /\ marked' = marked \cup Retained
  BY <1>1 DEF Emit
<1>4. Bookkeeping' /\ pending' \subseteq 1..count /\ files' \subseteq 1..count
  BY <1>1, <1>2, <1>3, TakenOver DEF sessionVars, configVars
<1>5. TypeOK'
  <2>1. rows' \in [Segments -> {"none", "recording", "complete"}]
    BY <1>3 DEF IInv, TypeOK
  <2>2. marked' \subseteq 1..count /\ hadMotion' \subseteq 1..count
    BY <1>1, <1>2, <1>3 DEF IInv, TypeOK
  <2> QED
    BY <1>4, <2>1, <2>2 DEF IInv, TypeOK, sessionVars, configVars
<1> QED
  BY <1>4, <1>5 DEF IInv, Bookkeeping

LEMMA EventKeeps == ASSUME IInv, noteAiEvent \/ StartOrUpdateMotionEvent PROVE IInv'
<1>1. /\ KeepAround
      /\ UNCHANGED <<now, sessionVars, count, startedClock, endedClock, open, closing,
                     lastZoneHit>>
      /\ overruled' \subseteq overruled \cup ({closing} \ {Nobody})
      /\ \/ UNCHANGED <<motionActive, detector>>
            /\ postUntil' = LaterOf(postUntil, now + PostMotion)
         \/ motionActive' = TRUE /\ detector' = "idle" /\ postUntil' = Never
  BY DEF noteAiEvent, StartOrUpdateMotionEvent
<1>2. now + PostMotion \in 0..(MaxTime + PostMotion)
  BY Types DEF IInv, TypeOK, Times
<1>3. LaterOf(postUntil, now + PostMotion) \in {Never} \cup 0..(MaxTime + PostMotion)
  BY <1>2 DEF LaterOf, IInv, TypeOK
<1>4. /\ motionActive' \in BOOLEAN /\ lastZoneHit' \in Times
      /\ detector' \in {"idle", "hit", "expired"}
      /\ postUntil' \in {Never} \cup 0..(MaxTime + PostMotion)
  BY <1>1, <1>3 DEF IInv, TypeOK
<1>5. overruled' \subseteq 1..count
  BY <1>1 DEF IInv, TypeOK, Nobody
<1> QED
  BY <1>1, <1>4, <1>5, KeepAroundKeeps

(* The event ends, or the session it belonged to has. *)
LEMMA FinishKeeps == ASSUME IInv, FinishMotionEvent PROVE IInv'
<1>1. /\ detector' = "idle"
      /\ UNCHANGED <<now, mode, motionEnabled, phase, fallback, count, startedClock,
                     endedClock, open, hadMotion, closing, lastZoneHit, rows, marked>>
      /\ \/ motionActive' = FALSE /\ postUntil' = now + PostMotion /\ Queue({}, pending)
         \/ UNCHANGED <<motionActive, postUntil, pending, files>>
      /\ overruled' \subseteq overruled
  BY DEF FinishMotionEvent, sessionVars, configVars
<1>2. now \in Nat /\ now + PostMotion \in 0..(MaxTime + PostMotion)
  BY Types DEF IInv, TypeOK, Times
<1>3. Bookkeeping' /\ pending' \subseteq 1..count /\ files' \subseteq 1..count
  <2>1. CASE Queue({}, pending)
    <3>1. pending \in SUBSET Held
      BY DEF Held
    <3> QED
      BY <1>1, <2>1, <3>1, TakenOver
  <2>2. CASE UNCHANGED <<pending, files>>
    <3>1. Bookkeeping'
      BY <1>1, <1>2, <2>2, Untouched
    <3> QED
      BY <2>2, <3>1 DEF IInv, TypeOK
  <2> QED
    BY <1>1, <2>1, <2>2
<1>4. TypeOK'
  BY <1>1, <1>2, <1>3 DEF IInv, TypeOK
<1> QED
  BY <1>3, <1>4 DEF IInv, Bookkeeping

-----------------------------------------------------------------------------
(* Every step keeps the invariant. *)
LEMMA StepKeeps == IInv /\ [Next]_vars => IInv'
<1> SUFFICES ASSUME IInv, [Next]_vars PROVE IInv'
  OBVIOUS
<1>1. CASE Start
  BY <1>1, StartKeeps
<1>2. CASE Stop \/ PipelineError
  BY <1>2, StopKeeps
<1>3. CASE RestartRecordOnly
  BY <1>3, RestartKeeps
<1>4. CASE OpenSegment
  BY <1>4, OpenKeeps
<1>5. CASE \E s \in Segments : CloseSegment(s)
  BY <1>5, CloseKeeps
<1>6. CASE HandleClosedMotionSegment
  BY <1>6, HandleKeeps
<1>7. CASE NoteHit \/ NoteQuiet
  BY <1>7, DetectorBeginKeeps
<1>8. CASE noteAiEvent \/ StartOrUpdateMotionEvent
  BY <1>8, EventKeeps
<1>9. CASE FinishMotionEvent
  BY <1>9, FinishKeeps
<1>10. CASE Tick
  BY <1>10, TickKeeps
<1>11. CASE UNCHANGED vars
  <2>1. now \in Nat
    BY Types DEF IInv
  <2>2. Bookkeeping'
    BY <1>11, <2>1, Untouched DEF vars, sessionVars, configVars, segmentVars, storeVars
  <2>3. TypeOK'
    BY <1>11 DEF vars, sessionVars, configVars, segmentVars, motionVars, storeVars,
                 historyVars, IInv, TypeOK
  <2> QED
    BY <2>2, <2>3 DEF IInv, Bookkeeping
<1> QED
  BY <1>1, <1>2, <1>3, <1>4, <1>5, <1>6, <1>7, <1>8, <1>9, <1>10, <1>11
     DEF Next, LoopStep, DetectorStep

(* Whatever the order of fragment messages, events, errors and stops, the     *)
(* session accounts for its segments: a listed segment is on disk, a segment *)
(* is in one place, and the queue is no deeper than preMotionSeconds         *)
(* (CameraRecordingSession.hpp, every section of m_mutex).                   *)
THEOREM SegmentsAreAccountedFor == Spec => []SegmentsAccountedFor
<1>1. IInv => SegmentsAccountedFor
  BY DEF IInv, SegmentsAccountedFor
<1> QED
  BY InitIInv, StepKeeps, <1>1, PTL DEF Spec

-----------------------------------------------------------------------------
(* Why rows say what they show.  The window an event opened and the one the   *)
(* session goes by are the same once the event is over (Promises), so what is *)
(* written or being closed while the session sees motion was asked for        *)
(* (OpenWanted, ClosingWanted), and motion is noted of those segments alone   *)
(* (HadMotionWanted).  A segment lasts (HeldLasted), so one that retaining    *)
(* finds in the window shows a moment of it.                                *)
Promises ==
    /\ promised \in Int /\ postUntil <= promised /\ promised <= now + PostMotion
    /\ motionActive \/ promised = postUntil
OpenWanted == HasMotionNow => open \subseteq wanted
ClosingWanted ==
    closing # Nobody /\ (motionActive \/ isPostMotionActive(endedClock[closing]))
        => closing \in wanted
HadMotionWanted ==
    /\ wanted \subseteq 1..count /\ marked \subseteq wanted
    /\ hadMotion \subseteq wanted /\ open \cap wanted \subseteq hadMotion
HeldLasted == \A s \in Held : startedClock[s] < endedClock[s]
OpenIncomplete == \A s \in open : rows[s] # "complete"
ListedIsWanted ==
    isMotionMode => \A s \in Segments : rows[s] # "none" => s \in wanted \cap marked

WInv ==
    /\ Promises /\ OpenWanted /\ ClosingWanted
    /\ HadMotionWanted /\ HeldLasted /\ OpenIncomplete
    /\ ListedIsWanted /\ MotionIsMarked

LEMMA InitWInv == Init => WInv
<1> SUFFICES ASSUME Init PROVE WInv
  OBVIOUS
<1>1. Promises
  BY WindowAssumption DEF Init, Promises, Never
<1>2. OpenWanted /\ ClosingWanted
  BY DEF Init, OpenWanted, ClosingWanted
<1>3. HadMotionWanted /\ OpenIncomplete /\ HeldLasted
  BY DEF Init, HadMotionWanted, OpenIncomplete, HeldLasted, Held
<1>4. ListedIsWanted /\ MotionIsMarked
  BY DEF Init, ListedIsWanted, MotionIsMarked
<1> QED
  BY <1>1, <1>2, <1>3, <1>4 DEF WInv

(* The types of the windows. *)
LEMMA WindowTypes ==
  ASSUME IInv
  PROVE  /\ postUntil \in Int /\ now \in Nat /\ PreMotion \in Nat /\ PostMotion \in Nat
         /\ Never < now /\ Never \in Int
         /\ \A s \in Segments : endedClock[s] \in Nat /\ startedClock[s] \in Nat
                                /\ endedClock[s] <= now
         /\ closing # Nobody => closing \in Held /\ closing \in Segments
<1>1. /\ now \in Nat /\ PreMotion \in Nat /\ PostMotion \in Nat /\ MaxTime \in Nat
      /\ Held \subseteq 1..count /\ 1..count \subseteq Segments
      /\ \A s \in Segments : endedClock[s] \in Nat /\ startedClock[s] \in Nat
  BY Types DEF IInv
<1>2. postUntil \in Int /\ Never < now /\ Never \in Int
  <2>1. postUntil \in {Never} \cup 0..(MaxTime + PostMotion)
    BY DEF IInv, TypeOK
  <2>2. Never = -1
    BY DEF Never
  <2> QED
    BY <1>1, <2>1, <2>2
<1>3. closing # Nobody => closing \in Held
  BY DEF Held
<1>4. \A s \in Segments : endedClock[s] <= now
  BY DEF IInv, ClosedApart
<1> QED
  BY <1>1, <1>2, <1>3, <1>4

LEMMA LaterStill ==
  ASSUME NEW p \in Int, NEW m \in Nat, NEW n \in Nat, NEW k \in Nat, p <= m + k, m <= n
  PROVE  p <= n + k
<1>1. m + k <= n + k
  OBVIOUS
<1> QED
  BY <1>1

LEMMA EarlierStill ==
  ASSUME NEW p \in Int, NEW m \in Nat, NEW n \in Nat, NEW k \in Nat, p < m - k, m <= n
  PROVE  p < n - k
<1>1. m - k <= n - k
  OBVIOUS
<1> QED
  BY <1>1

(* A section that touches no segment and no window; the clock may go on. *)
LEMMA UntouchedW ==
  ASSUME IInv, WInv, now' \in Nat, now <= now',
         UNCHANGED <<mode, count, startedClock, endedClock, open, hadMotion, closing,
                     pending, motionActive, postUntil, rows, marked, wanted, promised>>
  PROVE  WInv'
<1>1. postUntil \in Int /\ now \in Nat /\ PostMotion \in Nat
  BY WindowTypes
<1>2. Held' = Held /\ isMotionMode' = isMotionMode
  BY DEF Held, isMotionMode
<1>3. Promises'
  <2>1. /\ promised \in Int /\ postUntil <= promised /\ promised <= now + PostMotion
        /\ motionActive \/ promised = postUntil
    BY DEF WInv, Promises
  <2>2. promised <= now' + PostMotion
    <3>1. now' \in Nat /\ now <= now' /\ promised \in Int /\ promised <= now + PostMotion
      BY <2>1
    <3> QED
      BY <1>1, <3>1, LaterStill
  <2> QED
    BY <2>1, <2>2 DEF Promises
<1>4. OpenWanted'
  BY <1>1 DEF WInv, OpenWanted, HasMotionNow, isPostMotionActive
<1>5. ClosingWanted'
  BY DEF WInv, ClosingWanted, isPostMotionActive
<1>6. HadMotionWanted' /\ OpenIncomplete' /\ HeldLasted'
  BY <1>2 DEF WInv, HadMotionWanted, OpenIncomplete, HeldLasted
<1>7. ListedIsWanted' /\ MotionIsMarked'
  BY <1>2 DEF WInv, ListedIsWanted, MotionIsMarked
<1> QED
  BY <1>3, <1>4, <1>5, <1>6, <1>7 DEF WInv

(* A session is taken down. *)
LEMMA StopKeepsW == ASSUME IInv, WInv, Stop \/ PipelineError PROVE WInv'
<1>1. /\ open' = {} /\ pending' = {} /\ motionActive' = FALSE
      /\ postUntil' = Never /\ promised' = Never
      /\ UNCHANGED <<mode, now, count, startedClock, endedClock, hadMotion, closing,
                     rows, marked, wanted>>
  BY DEF Stop, PipelineError, ForgetSegments, configVars
<1>2. Never < now /\ now \in Nat /\ PostMotion \in Nat /\ Never \in Int
  BY WindowTypes
<1>3. Held' \subseteq Held /\ isMotionMode' = isMotionMode
  BY <1>1 DEF Held, isMotionMode
<1>4. Promises'
  BY <1>1, <1>2 DEF Promises
<1>5. OpenWanted' /\ ClosingWanted'
  BY <1>1 DEF OpenWanted, ClosingWanted, isPostMotionActive
<1>6. HadMotionWanted' /\ OpenIncomplete' /\ HeldLasted'
  BY <1>1, <1>3 DEF WInv, HadMotionWanted, OpenIncomplete, HeldLasted
<1>7. ListedIsWanted' /\ MotionIsMarked'
  BY <1>1, <1>3 DEF WInv, ListedIsWanted, MotionIsMarked
<1> QED
  BY <1>4, <1>5, <1>6, <1>7 DEF WInv

(* A segment opens; that it shows motion is noted when it was asked for. *)
LEMMA OpenKeepsW == ASSUME IInv, WInv, OpenSegment PROVE WInv'
<1> DEFINE new == count + 1
           asked == motionActive \/ now <= promised
<1>1. /\ count' = new /\ open' = open \cup {new}
      /\ startedClock' = [startedClock EXCEPT ![new] = now]
      /\ hadMotion' = IF HasMotionNow THEN hadMotion \cup {new} ELSE hadMotion
      /\ rows' = IF isMotionMode THEN rows ELSE [rows EXCEPT ![new] = "recording"]
      /\ wanted' = IF asked THEN wanted \cup {new} ELSE wanted
      /\ UNCHANGED <<mode, now, endedClock, closing, pending, motionActive, postUntil,
                     marked, promised>>
  BY DEF OpenSegment, sessionVars, configVars, motionVars
<1>2. /\ count \in Nat /\ new \in Segments /\ new \notin 1..count
      /\ 1..count \subseteq 1..new /\ new \in 1..new
      /\ open \subseteq 1..count /\ Held \subseteq 1..count /\ files \subseteq 1..count
  BY Types DEF IInv, OpenSegment, Segments
<1>3. postUntil \in Int /\ now \in Nat /\ Never < now /\ Never \in Int
  BY WindowTypes
<1>4. Held' = Held /\ isMotionMode' = isMotionMode
  BY <1>1 DEF Held, isMotionMode
<1>5. HasMotionNow <=> asked
  BY <1>3 DEF WInv, Promises, HasMotionNow, isPostMotionActive
<1>6. HasMotionNow' <=> HasMotionNow
  BY <1>1 DEF HasMotionNow, isPostMotionActive
<1> HIDE DEF new, asked
<1>7. rows \in [Segments -> {"none", "recording", "complete"}]
      /\ startedClock \in [Segments -> Times]
  BY DEF IInv, TypeOK
<1>8. /\ \A s \in Segments : rows'[s] = IF s = new /\ ~isMotionMode THEN "recording" ELSE rows[s]
      /\ \A s \in Segments : s # new => startedClock'[s] = startedClock[s]
      /\ rows[new] = "none"
  <2>1. rows[new] = "none"
    BY <1>2, <1>7 DEF IInv, RowsHaveFiles
  <2> QED
    BY <1>1, <1>2, <1>7, <2>1
<1>9. Promises'
  BY <1>1 DEF WInv, Promises
<1>10. OpenWanted'
  BY <1>1, <1>5, <1>6 DEF WInv, OpenWanted
<1>11. ClosingWanted'
  BY <1>1 DEF WInv, ClosingWanted, isPostMotionActive
<1>12. HadMotionWanted'
  <2>1. /\ wanted \subseteq 1..count /\ marked \subseteq wanted
        /\ hadMotion \subseteq wanted /\ open \cap wanted \subseteq hadMotion
    BY DEF WInv, HadMotionWanted
  <2>2. wanted' \subseteq 1..count'
    BY <1>1, <1>2, <2>1
  <2>3. hadMotion' \subseteq wanted'
    BY <1>1, <1>5, <2>1
  <2>4. open' \cap wanted' \subseteq hadMotion'
    BY <1>1, <1>2, <1>5, <2>1
  <2> QED
    BY <1>1, <2>1, <2>2, <2>3, <2>4 DEF HadMotionWanted
<1>13. HeldLasted'
  <2> SUFFICES ASSUME NEW s \in Held PROVE startedClock'[s] < endedClock[s]
    BY <1>1, <1>4 DEF HeldLasted
  <2>1. s # new /\ s \in Segments
    BY <1>2, Types DEF IInv
  <2> QED
    BY <1>8, <2>1 DEF WInv, HeldLasted
<1>14. OpenIncomplete'
  <2>1. open \subseteq Segments
    BY Types DEF IInv
  <2> QED
    BY <1>1, <1>2, <1>8, <2>1 DEF WInv, OpenIncomplete
<1>15. ListedIsWanted'
  BY <1>1, <1>4 DEF WInv, ListedIsWanted
<1>16. MotionIsMarked'
  <2> SUFFICES ASSUME NEW s \in Segments, rows'[s] = "complete"
               PROVE  s \in wanted' <=> s \in marked
    BY <1>1 DEF MotionIsMarked
  <2>1. s # new /\ rows[s] = "complete"
    BY <1>8
  <2> QED
    BY <1>1, <2>1 DEF WInv, MotionIsMarked
<1> QED
  BY <1>9, <1>10, <1>11, <1>12, <1>13, <1>14, <1>15, <1>16 DEF WInv

(* A segment closes: at that moment the session sees motion only if an event *)
(* asked for what is open.                                                 *)
LEMMA CloseKeepsW == ASSUME IInv, WInv, NEW s \in Segments, CloseSegment(s) PROVE WInv'
<1>1. /\ s \in open /\ closing = Nobody /\ startedClock[s] < now
      /\ open' = open \ {s} /\ endedClock' = [endedClock EXCEPT ![s] = now]
      /\ hadMotion' = IF HasMotionAtClose(s) THEN hadMotion \cup {s} ELSE hadMotion
      /\ closing' = IF isMotionMode THEN s ELSE closing
      /\ rows' = IF isMotionMode THEN rows ELSE [rows EXCEPT ![s] = "complete"]
      /\ marked' = IF ~isMotionMode /\ HasMotionAtClose(s) THEN marked \cup {s} ELSE marked
      /\ UNCHANGED <<now, mode, count, startedClock, pending, motionActive, postUntil,
                     wanted, promised>>
  BY DEF CloseSegment, LoopFree, sessionVars, configVars, motionVars, historyVars
<1>2. /\ open \subseteq Segments /\ pending \subseteq Segments /\ 0 \notin Segments
      /\ rows \in [Segments -> {"none", "recording", "complete"}]
      /\ endedClock \in [Segments -> Times]
  BY Types DEF IInv, TypeOK
<1>3. /\ \A o \in Segments : rows'[o] = IF o = s /\ ~isMotionMode THEN "complete" ELSE rows[o]
      /\ \A o \in Segments : endedClock'[o] = IF o = s THEN now ELSE endedClock[o]
      /\ isMotionMode' = isMotionMode
  BY <1>1, <1>2 DEF isMotionMode
<1>4. /\ wanted \subseteq 1..count /\ marked \subseteq wanted
      /\ hadMotion \subseteq wanted /\ open \cap wanted \subseteq hadMotion
      /\ HasMotionNow => open \subseteq wanted
  BY DEF WInv, HadMotionWanted, OpenWanted
<1>5. HasMotionAtClose(s) <=> s \in wanted
  BY <1>1, <1>4 DEF HasMotionAtClose
<1>6. HasMotionNow' <=> HasMotionNow
  BY <1>1 DEF HasMotionNow, isPostMotionActive
<1>7. Promises'
  BY <1>1 DEF WInv, Promises
<1>8. OpenWanted'
  BY <1>1, <1>4, <1>6 DEF OpenWanted
<1>9. ClosingWanted'
  <2> SUFFICES ASSUME closing' # Nobody,
                      motionActive' \/ isPostMotionActive(endedClock[closing])'
               PROVE  closing' \in wanted'
    BY DEF ClosingWanted
  <2>1. closing' = s /\ endedClock'[s] = now
    BY <1>1, <1>3
  <2>2. HasMotionNow
    BY <1>1, <2>1 DEF HasMotionNow, isPostMotionActive
  <2> QED
    BY <1>1, <1>4, <2>1, <2>2
<1>10. HadMotionWanted'
  BY <1>1, <1>4, <1>5 DEF HadMotionWanted
<1>11. HeldLasted'
  <2> SUFFICES ASSUME NEW o \in Held' PROVE startedClock[o] < endedClock'[o]
    BY <1>1 DEF HeldLasted
  <2>1. CASE o = s
    BY <1>1, <1>3, <2>1
  <2>2. CASE o # s
    <3>1. o \in Held /\ o \in Segments
      BY <1>1, <1>2, <2>2 DEF Held
    <3> QED
      BY <1>3, <2>2, <3>1 DEF WInv, HeldLasted
  <2> QED
    BY <2>1, <2>2
<1>12. OpenIncomplete'
  BY <1>1, <1>2, <1>3 DEF WInv, OpenIncomplete
<1>13. ListedIsWanted'
  BY <1>1, <1>3 DEF WInv, ListedIsWanted
<1>14. MotionIsMarked'
  <2> SUFFICES ASSUME NEW o \in Segments, rows'[o] = "complete"
               PROVE  o \in wanted <=> o \in marked'
    BY <1>1 DEF MotionIsMarked
  <2>1. CASE rows[o] = "complete"
    <3>1. o # s
      BY <1>1, <2>1 DEF WInv, OpenIncomplete
    <3> QED
      BY <1>1, <2>1, <3>1 DEF WInv, MotionIsMarked
  <2>2. CASE rows[o] # "complete"
    <3>1. o = s /\ ~isMotionMode
      BY <1>3, <2>2
    <3> QED
      BY <1>1, <1>4, <1>5, <3>1
  <2> QED
    BY <2>1, <2>2
<1> QED
  BY <1>7, <1>8, <1>9, <1>10, <1>11, <1>12, <1>13, <1>14 DEF WInv

(* The loop thread keeps the segment it closed only if it was asked for. *)
LEMMA HandleKeepsW == ASSUME IInv, WInv, HandleClosedMotionSegment PROVE WInv'
<1> DEFINE kept == IF KeepsClosed(closing) THEN {closing} ELSE {}
<1>1. /\ closing # Nobody /\ closing' = Nobody
      /\ \A s \in Segments : rows'[s] = IF s \in kept THEN "complete" ELSE rows[s]
      /\ marked' = marked \cup kept
      /\ UNCHANGED <<now, mode, count, startedClock, endedClock, open, hadMotion,
                     motionActive, postUntil, wanted, promised>>
  BY DEF HandleClosedMotionSegment, Emit, sessionVars, configVars, motionVars, historyVars
<1>2. pending' \subseteq Held
  <2>1. Undrained((pending \cup {closing}) \ kept) \subseteq pending \cup {closing}
    BY DEF Undrained
  <2> QED
    BY <1>1, <2>1 DEF HandleClosedMotionSegment, Queue, Held
<1>3. closing \in Held /\ closing \in Segments /\ closing \notin open
  BY <1>1, WindowTypes DEF IInv, OnePlace
<1>4. isMotionMode /\ isMotionMode' = isMotionMode
  BY <1>1, <1>3 DEF isMotionMode, IInv, HeldUnlisted
<1>5. KeepsClosed(closing) => closing \in wanted
  BY <1>1 DEF KeepsClosed, WInv, HadMotionWanted, ClosingWanted
<1>6. kept \subseteq wanted /\ kept \subseteq {closing}
  BY <1>5
<1>7. Held' \subseteq Held
  BY <1>1, <1>2 DEF Held
<1> HIDE DEF kept
<1>8. Promises'
  BY <1>1 DEF WInv, Promises
<1>9. OpenWanted' /\ ClosingWanted'
  BY <1>1 DEF WInv, OpenWanted, ClosingWanted, HasMotionNow, isPostMotionActive
<1>10. HadMotionWanted'
  BY <1>1, <1>6 DEF WInv, HadMotionWanted
<1>11. HeldLasted'
  BY <1>1, <1>7 DEF WInv, HeldLasted
<1>12. OpenIncomplete'
  <2>1. open \subseteq Segments
    BY Types DEF IInv
  <2> QED
    BY <1>1, <1>3, <1>6, <2>1 DEF WInv, OpenIncomplete
<1>13. ListedIsWanted'
  <2> SUFFICES ASSUME NEW s \in Segments, rows'[s] # "none" PROVE s \in wanted' \cap marked'
    BY DEF ListedIsWanted
  <2>1. CASE s \in kept
    BY <1>1, <1>6, <2>1
  <2>2. CASE s \notin kept
    BY <1>1, <1>4, <2>2 DEF WInv, ListedIsWanted
  <2> QED
    BY <2>1, <2>2
<1>14. MotionIsMarked'
  BY <1>4, <1>13 DEF ListedIsWanted, MotionIsMarked
<1> QED
  BY <1>8, <1>9, <1>10, <1>11, <1>12, <1>13, <1>14 DEF WInv

(* What retaining finds in the window shows a moment of it, so the event      *)
(* wants it.                                                               *)
LEMMA RetainedIsWanted == ASSUME IInv, WInv PROVE Retained \subseteq EventWants
<1> SUFFICES ASSUME NEW s \in Retained PROVE s \in EventWants
  OBVIOUS
<1>1. s \in pending /\ s \in Held /\ startedClock[s] < now /\ now - PreMotion < endedClock[s]
  BY DEF Retained, InPreMotionWindow, Held
<1>2. /\ s \in Segments /\ s \in 1..count /\ s \notin open /\ s # closing
      /\ startedClock[s] \in Nat /\ endedClock[s] \in Nat /\ endedClock[s] <= now
      /\ now \in Nat /\ PreMotion \in Nat
  BY <1>1, Types, WindowTypes DEF IInv, OnePlace
<1>3. startedClock[s] < endedClock[s]
  BY <1>1 DEF WInv, HeldLasted
<1>4. ShowsPreMotion(s)
  <2>1. /\ endedClock[s] - 1 \in startedClock[s]..(endedClock[s] - 1)
        /\ now - PreMotion <= endedClock[s] - 1 /\ endedClock[s] - 1 < now
    BY <1>1, <1>2, <1>3
  <2> QED
    BY <2>1 DEF ShowsPreMotion
<1>5. isMotionMode
  BY <1>1 DEF IInv, HeldUnlisted
<1> QED
  BY <1>2, <1>4, <1>5 DEF EventWants, Closed

(* An event of either kind. *)
LEMMA EventKeepsW == ASSUME IInv, WInv, noteAiEvent \/ StartOrUpdateMotionEvent PROVE WInv'
<1>1. /\ \A s \in Segments : rows'[s] = IF s \in Retained THEN "complete" ELSE rows[s]
      /\ marked' = marked \cup Retained
      /\ hadMotion' = hadMotion \cup open \cup Retained
      /\ wanted' = wanted \cup EventWants
      /\ promised' = now + PostMotion
      /\ \/ /\ motionActive' = motionActive /\ isMotionMode
            /\ postUntil' = LaterOf(postUntil, now + PostMotion)
         \/ motionActive' = TRUE /\ postUntil' = Never
      /\ UNCHANGED <<now, mode, count, startedClock, endedClock, open, closing>>
  BY DEF noteAiEvent, StartOrUpdateMotionEvent, KeepAround, Emit, sessionVars, configVars
<1>2. pending' \subseteq pending
  BY DEF noteAiEvent, StartOrUpdateMotionEvent, KeepAround, Queue, Undrained
<1>3. /\ postUntil \in Int /\ now \in Nat /\ PostMotion \in Nat /\ Never \in Int
      /\ Never < now
  BY WindowTypes
<1>4. /\ open \subseteq 1..count /\ Held \subseteq 1..count /\ open \subseteq Segments
  BY Types DEF IInv
<1>5. Retained \subseteq EventWants
  BY RetainedIsWanted
<1>6. open \subseteq wanted' /\ (closing # Nobody => closing \in wanted')
  BY <1>1 DEF EventWants
<1>7. EventWants \subseteq 1..count
  BY <1>4 DEF EventWants, Closed, Held
<1>8. Retained \cap open = {} /\ Retained \subseteq pending /\ (~isMotionMode => Retained = {})
  BY DEF Retained, IInv, OnePlace, HeldUnlisted, Held
<1>9. Held' \subseteq Held /\ isMotionMode' = isMotionMode
  BY <1>1, <1>2 DEF Held, isMotionMode
<1>10. Promises'
  <2>1. postUntil <= now + PostMotion
    BY <1>3 DEF WInv, Promises
  <2>2. LaterOf(postUntil, now + PostMotion) = now + PostMotion
    BY <1>3, <2>1 DEF LaterOf
  <2>3. now + PostMotion \in Int /\ Never <= now + PostMotion
    BY <1>3
  <2> QED
    BY <1>1, <2>2, <2>3 DEF Promises
<1>11. OpenWanted' /\ ClosingWanted'
  BY <1>1, <1>6 DEF OpenWanted, ClosingWanted
<1>12. HadMotionWanted'
  BY <1>1, <1>5, <1>6, <1>7 DEF WInv, HadMotionWanted
<1>13. HeldLasted'
  BY <1>1, <1>9 DEF WInv, HeldLasted
<1>14. OpenIncomplete'
  BY <1>1, <1>4, <1>8 DEF WInv, OpenIncomplete
<1>15. ListedIsWanted'
  <2> SUFFICES ASSUME isMotionMode, NEW s \in Segments, rows'[s] # "none"
               PROVE  s \in wanted' \cap marked'
    BY <1>9 DEF ListedIsWanted
  <2>1. CASE s \in Retained
    BY <1>1, <1>5, <2>1
  <2>2. CASE s \notin Retained
    BY <1>1, <2>2 DEF WInv, ListedIsWanted
  <2> QED
    BY <2>1, <2>2
<1>16. MotionIsMarked'
  <2>1. CASE isMotionMode
    BY <1>9, <1>15, <2>1 DEF ListedIsWanted, MotionIsMarked
  <2>2. CASE ~isMotionMode
    <3> SUFFICES ASSUME NEW s \in Segments, rows'[s] = "complete"
                 PROVE  s \in wanted' <=> s \in marked'
      BY DEF MotionIsMarked
    <3>1. rows[s] = "complete" /\ marked' = marked /\ s \notin open
      BY <1>1, <1>8, <2>2 DEF WInv, OpenIncomplete
    <3>2. EventWants \subseteq open
      BY <2>2 DEF EventWants, IInv, HeldUnlisted, Held
    <3> QED
      BY <1>1, <3>1, <3>2 DEF WInv, MotionIsMarked
  <2> QED
    BY <2>1, <2>2
<1> QED
  BY <1>10, <1>11, <1>12, <1>13, <1>14, <1>15, <1>16 DEF WInv

(* The event ends: its window starts. *)
LEMMA FinishKeepsW == ASSUME IInv, WInv, FinishMotionEvent PROVE WInv'
<1>1. UNCHANGED <<now, mode, count, startedClock, endedClock, open, hadMotion, closing,
                  rows, marked, wanted>>
  BY DEF FinishMotionEvent, sessionVars, configVars
<1>2. now \in Nat /\ PostMotion \in Nat
  BY WindowTypes
<1>3. CASE ~motionActive
  <2>1. UNCHANGED <<motionActive, postUntil, pending, promised>>
    BY <1>3 DEF FinishMotionEvent
  <2> QED
    BY <1>1, <1>2, <2>1, UntouchedW
<1>4. CASE motionActive
  <2>1. /\ motionActive' = FALSE /\ postUntil' = now + PostMotion
        /\ promised' = now + PostMotion /\ pending' \subseteq pending
    BY <1>4 DEF FinishMotionEvent, Queue, Undrained
  <2>2. Held' \subseteq Held /\ isMotionMode' = isMotionMode
    BY <1>1, <2>1 DEF Held, isMotionMode
  <2>3. Promises'
    BY <1>1, <1>2, <2>1 DEF Promises
  <2>4. OpenWanted' /\ ClosingWanted'
    BY <1>1, <1>4 DEF WInv, OpenWanted, ClosingWanted, HasMotionNow
  <2>5. HadMotionWanted' /\ OpenIncomplete' /\ HeldLasted'
    BY <1>1, <2>2 DEF WInv, HadMotionWanted, OpenIncomplete, HeldLasted
  <2>6. ListedIsWanted' /\ MotionIsMarked'
    BY <1>1, <2>2 DEF WInv, ListedIsWanted, MotionIsMarked
  <2> QED
    BY <2>3, <2>4, <2>5, <2>6 DEF WInv
<1> QED
  BY <1>3, <1>4

LEMMA StepKeepsW == IInv /\ WInv /\ [Next]_vars => WInv'
<1> SUFFICES ASSUME IInv, WInv, [Next]_vars PROVE WInv'
  OBVIOUS
<1>1. now \in Nat
  BY WindowTypes
<1>2. CASE Start \/ RestartRecordOnly \/ NoteHit \/ NoteQuiet \/ UNCHANGED vars
  <2>1. UNCHANGED <<mode, now, count, startedClock, endedClock, open, hadMotion, closing,
                    pending, motionActive, postUntil, rows, marked, wanted, promised>>
    BY <1>2 DEF Start, RestartRecordOnly, NoteHit, NoteQuiet, vars, sessionVars,
                configVars, segmentVars, motionVars, storeVars, historyVars
  <2> QED
    BY <1>1, <2>1, UntouchedW
<1>3. CASE Tick
  <2>1. /\ now' \in Nat /\ now <= now'
        /\ UNCHANGED <<mode, count, startedClock, endedClock, open, hadMotion, closing,
                       pending, motionActive, postUntil, rows, marked, wanted, promised>>
    BY <1>1, <1>3 DEF Tick, sessionVars, configVars, segmentVars, motionVars, storeVars,
                      historyVars
  <2> QED
    BY <2>1, UntouchedW
<1>4. CASE Stop \/ PipelineError
  BY <1>4, StopKeepsW
<1>5. CASE OpenSegment
  BY <1>5, OpenKeepsW
<1>6. CASE \E s \in Segments : CloseSegment(s)
  BY <1>6, CloseKeepsW
<1>7. CASE HandleClosedMotionSegment
  BY <1>7, HandleKeepsW
<1>8. CASE noteAiEvent \/ StartOrUpdateMotionEvent
  BY <1>8, EventKeepsW
<1>9. CASE FinishMotionEvent
  BY <1>9, FinishKeepsW
<1> QED
  BY <1>2, <1>3, <1>4, <1>5, <1>6, <1>7, <1>8, <1>9 DEF Next, LoopStep, DetectorStep

(* Mode "motion" lists only segments of an event or its windows, and a       *)
(* completed row says whether its segment has motion (README.md:109-110;     *)
(* closeSegment, handleClosedMotionSegment, retainPreMotionSegmentsLocked).  *)
THEOREM RowsCanBeBelieved == Spec => []RowsSayWhatTheyShow
<1>1. WInv => RowsSayWhatTheyShow
  BY DEF WInv, ListedIsWanted, RowsSayWhatTheyShow, OnlyEventFootageListed
<1> QED
  BY InitIInv, InitWInv, StepKeeps, StepKeepsW, <1>1, PTL DEF Spec

-----------------------------------------------------------------------------
(* Why footage of events is kept.  What the session owes never waits: it was  *)
(* retained, or will be when it is closed.  A segment is only deleted when it *)
(* is older than preMotionSeconds, and remains so, so no later event asks for *)
(* it (GoneIsOld).                                                          *)
GoneIsOld ==
    \A s \in (1..count) \ (open \cup Held) :
        s \in files \/ endedClock[s] < now - PreMotion
Footage ==
    /\ Owed \cap pending = {} /\ Owed \subseteq files
    /\ closing # Nobody /\ closing \in Owed => KeepsClosed(closing)
    /\ GoneIsOld

AInv == phase # "over" => Footage

LEMMA InitAInv == Init => AInv
  BY DEF Init, AInv, Footage, GoneIsOld, Owed

(* A queue gives up, of what is not retained, what is too old alone. *)
LEMMA DrainedIsOld ==
  ASSUME IInv, NEW queue \in SUBSET Held, NEW kept \in SUBSET queue, Queue(kept, queue)
  PROVE  \A s \in queue \ kept : s \in pending' \/ endedClock[s] < now - PreMotion
<1> SUFFICES ASSUME NEW s \in queue \ kept, s \notin pending'
             PROVE  endedClock[s] < now - PreMotion
  OBVIOUS
<1>1. /\ s \in Nat /\ endedClock[s] \in Nat /\ now \in Nat /\ PreMotion \in Nat
  BY Types DEF IInv
<1>2. s \notin Undrained(queue \ kept)
  BY DEF Queue
<1>3. ~(endedClock[s] >= now - PreMotion)
  BY <1>1, <1>2 DEF Undrained
<1> QED
  BY <1>1, <1>3

(* A section that moves no segment. *)
LEMMA UntouchedA ==
  ASSUME IInv, Footage, now' \in Nat, now <= now',
         UNCHANGED <<count, endedClock, open, hadMotion, closing, pending, postUntil,
                     files, wanted, overruled>>
  PROVE  Footage'
<1>1. Held' = Held
  BY DEF Held
<1>2. KeepsClosed(closing)' <=> KeepsClosed(closing)
  BY DEF KeepsClosed, isPostMotionActive
<1>3. GoneIsOld'
  <2> SUFFICES ASSUME NEW s \in (1..count) \ (open \cup Held), s \notin files
               PROVE  endedClock[s] < now' - PreMotion
    BY <1>1 DEF GoneIsOld
  <2>1. endedClock[s] < now - PreMotion
    BY DEF Footage, GoneIsOld
  <2>2. s \in Segments /\ endedClock[s] \in Nat /\ now \in Nat /\ PreMotion \in Nat
    BY Types DEF IInv
  <2> QED
    BY <2>1, <2>2, EarlierStill
<1> QED
  BY <1>2, <1>3 DEF Footage, Owed

LEMMA OpenKeepsA == ASSUME IInv, WInv, Footage, OpenSegment PROVE Footage'
<1> DEFINE new == count + 1
<1>1. /\ count' = new /\ open' = open \cup {new} /\ files' = files \cup {new}
      /\ hadMotion \subseteq hadMotion' /\ wanted' \subseteq wanted \cup {new}
      /\ UNCHANGED <<now, endedClock, closing, pending, postUntil, overruled>>
  BY DEF OpenSegment, motionVars
<1>2. /\ count \in Nat /\ new \notin 1..count /\ new # 0
      /\ 1..new = (1..count) \cup {new} /\ Held \subseteq 1..count
  BY Types DEF IInv
<1>3. Held' = Held
  BY <1>1 DEF Held
<1> HIDE DEF new
<1>4. new \notin pending /\ new # closing
  BY <1>2 DEF Held, Nobody
<1>5. GoneIsOld'
  BY <1>1, <1>2, <1>3 DEF Footage, GoneIsOld
<1>6. KeepsClosed(closing) => KeepsClosed(closing)'
  BY <1>1 DEF KeepsClosed, isPostMotionActive
<1>7. Owed' \subseteq Owed \cup {new}
  BY <1>1 DEF Owed
<1> QED
  BY <1>1, <1>4, <1>5, <1>6, <1>7 DEF Footage

LEMMA CloseKeepsA ==
  ASSUME IInv, WInv, Footage, NEW s \in Segments, CloseSegment(s)
  PROVE  Footage'
<1>1. /\ s \in open /\ closing = Nobody /\ open' = open \ {s}
      /\ endedClock' = [endedClock EXCEPT ![s] = now]
      /\ hadMotion \subseteq hadMotion' /\ closing' = IF isMotionMode THEN s ELSE closing
      /\ UNCHANGED <<now, count, pending, files, wanted, overruled>>
  BY DEF CloseSegment, LoopFree, historyVars
<1>2. s \in files /\ endedClock \in [Segments -> Times] /\ 1..count \subseteq Segments
  BY <1>1, Types DEF IInv, HeldIsOnDisk, TypeOK
<1>3. closing' # Nobody /\ closing' \in Owed' => KeepsClosed(closing)'
  <2>1. open \cap Owed' \subseteq hadMotion
    BY <1>1 DEF WInv, HadMotionWanted, Owed
  <2> QED
    BY <1>1, <2>1 DEF KeepsClosed
<1>4. GoneIsOld'
  <2> SUFFICES ASSUME NEW o \in (1..count) \ (open' \cup Held'), o \notin files
               PROVE  endedClock'[o] < now - PreMotion
    BY <1>1 DEF GoneIsOld
  <2>1. o # s /\ o \in (1..count) \ (open \cup Held)
    BY <1>1, <1>2 DEF Held
  <2>2. endedClock'[o] = endedClock[o]
    BY <1>1, <1>2, <2>1
  <2> QED
    BY <2>1, <2>2 DEF Footage, GoneIsOld
<1> QED
  BY <1>1, <1>3, <1>4 DEF Footage, Owed

(* A section that takes segments over deletes nothing that is owed. *)
LEMMA TakenOverA ==
  ASSUME IInv, GoneIsOld, NEW owed \in SUBSET files,
         NEW queue \in SUBSET Held, NEW kept \in SUBSET queue, Queue(kept, queue),
         pending \subseteq queue, owed \cap (queue \ kept) = {},
         \/ closing' = closing /\ queue = pending
         \/ closing' = Nobody /\ queue = Held,
         UNCHANGED <<now, count, endedClock, open>>
  PROVE  GoneIsOld' /\ owed \cap pending' = {} /\ owed \subseteq files'
<1>1. /\ pending' \subseteq queue \ kept /\ files \ queue \subseteq files'
      /\ kept \subseteq files' /\ pending' \subseteq files'
  BY QueueFacts
<1>2. \A s \in queue \ kept : s \in pending' \/ endedClock[s] < now - PreMotion
  BY DrainedIsOld
<1>3. GoneIsOld'
  <2> SUFFICES ASSUME NEW s \in (1..count) \ (open \cup Held'), s \notin files'
               PROVE  endedClock[s] < now - PreMotion
    BY DEF GoneIsOld
  <2>1. CASE s \in queue
    <3>1. s \notin pending' /\ s \notin kept
      BY <1>1
    <3> QED
      BY <1>2, <2>1, <3>1
  <2>2. CASE s \notin queue
    <3>1. s \notin files /\ s \notin Held
      BY <1>1, <2>2 DEF Held
    <3> QED
      BY <3>1 DEF GoneIsOld
  <2> QED
    BY <2>1, <2>2
<1> QED
  BY <1>1, <1>3

LEMMA HandleKeepsA == ASSUME IInv, Footage, HandleClosedMotionSegment PROVE Footage'
<1> DEFINE kept == IF KeepsClosed(closing) THEN {closing} ELSE {}
           queue == pending \cup {closing}
<1>1. /\ closing # Nobody /\ closing' = Nobody /\ Queue(kept, queue)
      /\ UNCHANGED <<now, count, endedClock, open, wanted, overruled>>
  BY DEF HandleClosedMotionSegment, historyVars
<1>2. queue = Held /\ kept \in SUBSET queue /\ pending \subseteq queue
  BY <1>1 DEF Held
<1>3. Owed \cap (queue \ kept) = {} /\ Owed' = Owed
  BY <1>1 DEF Footage, Owed
<1>4. GoneIsOld /\ Owed \subseteq files
  BY DEF Footage
<1> HIDE DEF kept, queue
<1>5. GoneIsOld' /\ Owed \cap pending' = {} /\ Owed \subseteq files'
  BY <1>1, <1>2, <1>3, <1>4, TakenOverA
<1> QED
  BY <1>1, <1>3, <1>5 DEF Footage

(* A segment being closed is kept by an event that leaves a window open, or   *)
(* by the motion it has seen.                                               *)
LEMMA WindowKeepsClosing ==
  ASSUME IInv, WInv, closing # Nobody, closing' = closing, endedClock' = endedClock,
         postUntil' \in Int, now + PostMotion <= postUntil'
  PROVE  KeepsClosed(closing)'
<1>1. /\ endedClock[closing] \in Nat /\ endedClock[closing] <= now
      /\ now \in Nat /\ PostMotion \in Nat /\ Never < now
  BY WindowTypes
<1>2. postUntil' # Never /\ endedClock[closing] <= postUntil'
  BY <1>1 DEF Never
<1> QED
  BY <1>2 DEF KeepsClosed, isPostMotionActive

(* What an event asks for is still there: retained, being written or closed,  *)
(* or in the table.                                                        *)
LEMMA KeepAroundKeepsA ==
  ASSUME IInv, WInv, Footage, KeepAround,
         UNCHANGED <<now, count, endedClock, open, closing>>,
         overruled \ {closing} \subseteq overruled',
         closing # Nobody /\ closing \notin overruled' => KeepsClosed(closing)'
  PROVE  Footage'
<1>1. Queue(Retained, pending) /\ wanted' = wanted \cup EventWants
  BY DEF KeepAround
<1>2. pending \in SUBSET Held /\ Retained \in SUBSET pending
  BY DEF Held, Retained
<1>3. GoneIsOld /\ Owed \subseteq files /\ Owed \cap (pending \ Retained) = {}
  BY DEF Footage
<1>4. GoneIsOld' /\ Owed \cap pending' = {} /\ Owed \subseteq files'
  BY <1>1, <1>2, <1>3, TakenOverA
<1>5. /\ pending' \subseteq pending \ Retained /\ files \ pending \subseteq files'
      /\ Retained \subseteq files'
  BY <1>1, <1>2, QueueFacts
<1>6. open \cap pending = {} /\ closing \notin pending
      /\ open \cup ({closing} \ {Nobody}) \subseteq files
  BY DEF IInv, OnePlace, HeldIsOnDisk, Held
<1>7. ASSUME NEW s \in Closed, ShowsPreMotion(s)
      PROVE  now - PreMotion < endedClock[s] /\ startedClock[s] < now
  <2>1. s \in Segments
    BY <1>7, Types DEF IInv, Closed
  <2>2. /\ startedClock[s] \in Nat /\ endedClock[s] \in Nat
        /\ now \in Nat /\ PreMotion \in Nat
    BY <2>1, WindowTypes
  <2>3. PICK t \in startedClock[s]..(endedClock[s] - 1) : now - PreMotion <= t /\ t < now
    BY <1>7 DEF ShowsPreMotion
  <2> QED
    BY <2>2, <2>3
<1>8. EventWants \cap pending \subseteq Retained
  <2> SUFFICES ASSUME NEW s \in EventWants, s \in pending PROVE s \in Retained
    OBVIOUS
  <2>1. s \in Closed /\ ShowsPreMotion(s)
    BY <1>6 DEF EventWants
  <2> QED
    BY <1>7, <2>1 DEF Retained, InPreMotionWindow
<1>9. EventWants \subseteq files'
  <2> SUFFICES ASSUME NEW s \in EventWants PROVE s \in files'
    OBVIOUS
  <2>1. CASE s \in pending
    BY <1>5, <1>8, <2>1
  <2>2. CASE s \in open \cup ({closing} \ {Nobody})
    BY <1>5, <1>6, <2>2
  <2>3. CASE s \notin pending /\ s \notin open \cup ({closing} \ {Nobody})
    <3>1. s \in Closed /\ ShowsPreMotion(s)
      BY <2>3 DEF EventWants
    <3>2. s \in (1..count) \ (open \cup Held)
      BY <2>3, <3>1 DEF Closed, Held
    <3>3. s \in files \/ endedClock[s] < now - PreMotion
      BY <3>2 DEF Footage, GoneIsOld
    <3>4. s \in Segments /\ endedClock[s] \in Nat /\ now \in Nat /\ PreMotion \in Nat
      BY <3>2, Types DEF IInv
    <3>5. ~(endedClock[s] < now - PreMotion)
      BY <1>7, <3>1, <3>4
    <3> QED
      BY <1>5, <2>3, <3>3, <3>5
  <2> QED
    BY <2>1, <2>2, <2>3
<1>10. Owed' \subseteq Owed \cup EventWants \cup ({closing} \ {Nobody})
  <2>1. Nobody \notin wanted
    BY DEF WInv, HadMotionWanted, Nobody
  <2> QED
    BY <1>1, <2>1 DEF Owed
<1>11. Owed' \cap pending' = {}
  BY <1>4, <1>5, <1>6, <1>8, <1>10
<1>12. Owed' \subseteq files'
  BY <1>4, <1>5, <1>6, <1>9, <1>10
<1>13. closing' # Nobody /\ closing' \in Owed' => KeepsClosed(closing)'
  BY DEF Owed
<1> QED
  BY <1>4, <1>11, <1>12, <1>13 DEF Footage

LEMMA AiEventKeepsA == ASSUME IInv, WInv, Footage, noteAiEvent PROVE Footage'
<1>1. /\ KeepAround /\ overruled' = overruled \ {closing}
      /\ postUntil' = LaterOf(postUntil, now + PostMotion)
      /\ UNCHANGED <<now, count, endedClock, open, closing>>
  BY DEF noteAiEvent
<1>2. postUntil' \in Int /\ now + PostMotion <= postUntil'
  BY <1>1, WindowTypes DEF LaterOf
<1>3. closing # Nobody => KeepsClosed(closing)'
  BY <1>1, <1>2, WindowKeepsClosing
<1> QED
  BY <1>1, <1>3, KeepAroundKeepsA

LEMMA MotionEventKeepsA == ASSUME IInv, WInv, Footage, StartOrUpdateMotionEvent PROVE Footage'
<1>1. /\ KeepAround
      /\ overruled' = overruled \cup ({closing} \ (hadMotion \cup {Nobody}))
      /\ hadMotion \subseteq hadMotion'
      /\ UNCHANGED <<now, count, endedClock, open, closing>>
  BY DEF StartOrUpdateMotionEvent, KeepAround
<1>2. closing # Nobody /\ closing \notin overruled' => KeepsClosed(closing)'
  BY <1>1 DEF KeepsClosed
<1> QED
  BY <1>1, <1>2, KeepAroundKeepsA

LEMMA FinishKeepsA ==
  ASSUME IInv, WInv, Footage, FinishMotionEvent, motionActive
  PROVE  Footage'
<1>1. /\ Queue({}, pending) /\ postUntil' = now + PostMotion
      /\ overruled' = overruled \ {closing}
      /\ UNCHANGED <<now, count, endedClock, open, closing, wanted>>
  BY DEF FinishMotionEvent
<1>2. pending \in SUBSET Held /\ {} \in SUBSET pending
  BY DEF Held
<1>3. GoneIsOld /\ Owed \subseteq files /\ Owed \cap (pending \ {}) = {}
  BY DEF Footage
<1>4. GoneIsOld' /\ Owed \cap pending' = {} /\ Owed \subseteq files'
  BY <1>1, <1>2, <1>3, TakenOverA
<1>5. files \ pending \subseteq files' /\ pending' \subseteq pending
  BY <1>1, <1>2, QueueFacts
<1>6. wanted \subseteq 1..count /\ Nobody \notin 1..count
  BY DEF WInv, HadMotionWanted, Nobody
<1>7. Owed' \subseteq Owed \cup ({closing} \ {Nobody})
  BY <1>1, <1>6 DEF Owed
<1>8. closing \notin pending /\ {closing} \ {Nobody} \subseteq files
  BY DEF IInv, OnePlace, HeldIsOnDisk, Held
<1>9. Owed' \cap pending' = {} /\ Owed' \subseteq files'
  BY <1>4, <1>5, <1>7, <1>8
<1>10. now + PostMotion \in Int /\ now + PostMotion <= now + PostMotion
  BY WindowTypes
<1>11. closing # Nobody => KeepsClosed(closing)'
  BY <1>1, <1>10, WindowKeepsClosing
<1> QED
  BY <1>1, <1>4, <1>9, <1>11 DEF Footage

(* Only a session in mode always is restarted; it holds no closed segment. *)
LEMMA ErrorKeepsA == ASSUME IInv, Footage, PipelineError PROVE Footage'
<1>1. /\ closing = Nobody /\ ~isMotionMode /\ open' = {} /\ pending' = {}
      /\ files' = files \ pending
      /\ UNCHANGED <<now, count, endedClock, closing, wanted, overruled>>
  BY DEF PipelineError, canFallbackToRecordOnly, ForgetSegments, isMotionMode
<1>2. pending = {} /\ Held = {} /\ Held' = {}
  BY <1>1 DEF IInv, HeldUnlisted, Held
<1>3. open \subseteq files
  BY DEF IInv, HeldIsOnDisk
<1>4. GoneIsOld'
  BY <1>1, <1>2, <1>3 DEF Footage, GoneIsOld
<1> QED
  BY <1>1, <1>2, <1>4 DEF Footage, Owed

LEMMA StepKeepsA == IInv /\ WInv /\ AInv /\ [Next]_vars => AInv'
<1> SUFFICES ASSUME IInv, WInv, AInv, [Next]_vars, phase' # "over" PROVE Footage'
  BY DEF AInv
<1>1. phase # "over"
  BY DEF Next, LoopStep, DetectorStep, Start, Stop, PipelineError, RestartRecordOnly,
         OpenSegment, CloseSegment, HandleClosedMotionSegment, NoteHit,
         StartOrUpdateMotionEvent, NoteQuiet, FinishMotionEvent, noteAiEvent, Tick,
         vars, sessionVars, configVars
<1>2. Footage /\ now \in Nat
  BY <1>1, WindowTypes DEF AInv
<1>3. CASE Start \/ RestartRecordOnly \/ NoteHit \/ NoteQuiet \/ UNCHANGED vars
  <2>1. UNCHANGED <<now, count, endedClock, open, hadMotion, closing, pending, postUntil,
                    files, wanted, overruled>>
    BY <1>3 DEF Start, RestartRecordOnly, NoteHit, NoteQuiet, vars, sessionVars,
                segmentVars, motionVars, storeVars, historyVars
  <2> QED
    BY <1>2, <2>1, UntouchedA
<1>4. CASE Tick
  <2>1. /\ now' \in Nat /\ now <= now'
        /\ UNCHANGED <<count, endedClock, open, hadMotion, closing, pending, postUntil,
                       files, wanted, overruled>>
    BY <1>2, <1>4 DEF Tick, segmentVars, motionVars, storeVars, historyVars
  <2> QED
    BY <1>2, <2>1, UntouchedA
<1>5. CASE FinishMotionEvent
  <2>1. CASE motionActive
    BY <1>2, <1>5, <2>1, FinishKeepsA
  <2>2. CASE ~motionActive
    <3>1. UNCHANGED <<now, count, endedClock, open, hadMotion, closing, pending, postUntil,
                      files, wanted, overruled>>
      BY <1>5, <2>2 DEF FinishMotionEvent
    <3> QED
      BY <1>2, <3>1, UntouchedA
  <2> QED
    BY <2>1, <2>2
<1>6. ~Stop
  BY DEF Stop
<1>7. CASE \E s \in Segments : CloseSegment(s)
  BY <1>2, <1>7, CloseKeepsA
<1> QED
  BY <1>2, <1>3, <1>4, <1>5, <1>6, <1>7, OpenKeepsA, HandleKeepsA, AiEventKeepsA,
     MotionEventKeepsA, ErrorKeepsA DEF Next, LoopStep, DetectorStep

(* README.md:137: the footage of an event and of its windows is never deleted *)
(* while the session lasts, but for a segment handed over while motion began. *)
THEOREM EventFootageIsKept == Spec => []EventFootageKept
<1>1. AInv => EventFootageKept
  BY DEF AInv, Footage, EventFootageKept
<1> QED
  BY InitIInv, InitWInv, InitAInv, StepKeeps, StepKeepsW, StepKeepsA, <1>1, PTL DEF Spec

-----------------------------------------------------------------------------
(* Playback.  The inductive invariant: a seek is taken, gets its place and is *)
(* published in this order (InOrder); a frame is sent of an open file         *)
(* (FileIsRead); whoever passes the gate has seen a frame of the present      *)
(* place (GateIsKept), so that the first one after a jump finds him waiting   *)
(* for a key frame; no segment measured is longer than the longest           *)
(* (LongestIsMeasured), and the end is said only where the live edge is twice *)
(* that and more away (EndIsFar).                                           *)
Commands == [stopping : BOOLEAN, pending : BOOLEAN, target : Nat, seq : 0..MaxSeeks,
             paused : BOOLEAN]
Seeks == [seq : 0..MaxSeeks, target : Nat]
Positions == [ms : Nat, of : 0..MaxSeeks]
Windows == [from : Nat, to : Nat, segs : SUBSET DOMAIN Spans]
Files == [span : Nat, next : Nat]
Gates == [all : SUBSET Viewers, needKey : SUBSET Viewers]

PlaybackTypes ==
    /\ clock \in 0..MaxNow /\ cmd \in Commands /\ taken \in Seeks
    /\ applied \in 0..MaxSeeks /\ pos \in Positions /\ window \in Windows
    /\ longest \in Nat /\ met \subseteq DOMAIN Spans
    /\ file \in Files /\ gate \in Gates /\ seen \in [Viewers -> 0..None]
    /\ dry \in {"no", "recent", "long"} /\ ended \in BOOLEAN /\ waiting \in BOOLEAN
    /\ at \in {"loop", "jump", "gate", "open", "pump", "send", "done"}

\* The numbers of a seek follow each other: taken, place, published.
InOrder ==
    /\ taken.seq <= cmd.seq /\ applied <= pos.of /\ pos.of <= taken.seq
    /\ at # "jump" => pos.of = taken.seq
    /\ at \notin {"jump", "gate"} => applied = taken.seq

FileIsRead ==
    /\ \/ file = NoFile
       \/ /\ file.span \in DOMAIN Spans
          /\ file.next \in 0..Length(file.span)
    /\ at = "send" => file.next < Length(file.span)
    /\ at \in {"pump", "send"} => file # NoFile
    /\ at = "done" => file = NoFile

GateIsKept ==
    /\ gate.needKey \subseteq gate.all
    /\ at # "gate" => \A v \in gate.all \ gate.needKey : seen[v] = pos.of
    /\ \A v \in Viewers : seen[v] = None \/ seen[v] <= pos.of

LongestIsMeasured == Shortest <= longest /\ \A j \in met : Length(j) <= longest

EndIsFar ==
    /\ at = "send" => ~ended /\ ~waiting
    /\ ended => ~waiting /\ clock >= pos.ms + 2 * longest + Slack

PlaybackInv ==
    /\ PlaybackTypes /\ InOrder /\ FileIsRead /\ GateIsKept
    /\ LongestIsMeasured /\ EndIsFar

(* A set of numbers has a least. *)
LEMMA MinExists ==
    ASSUME NEW S \in SUBSET Nat, S # {}
    PROVE  Min(S) \in S /\ \A y \in S : Min(S) <= y
<1>1. \E x \in S : \A y \in S : ~ (<<y, x>> \in OpToRel(<, Nat))
  BY NatLessThanWellFounded, WFMin
<1>2. \A x, y \in Nat : y < x => <<y, x>> \in OpToRel(<, Nat)
  BY DEF OpToRel
<1>3. \E x \in S : \A y \in S : ~ (y < x)
  BY <1>1, <1>2, Zenon
<1>4. \E x \in S : \A y \in S : x <= y
  BY <1>3
<1> QED
  BY <1>4, Zenon DEF Min

(* A bounded one has a greatest: what is left of the bound has a least. *)
LEMMA MaxExists ==
    ASSUME NEW N \in Nat, NEW S \in SUBSET (0..N), S # {}
    PROVE  Max(S) \in S /\ \A y \in S : Max(S) >= y
<1> DEFINE left == {N - x : x \in S}
<1>1. left \in SUBSET Nat /\ left # {}
  <2>1. \A x \in S : N - x \in Nat
    OBVIOUS
  <2>2. PICK x \in S : TRUE
    OBVIOUS
  <2>3. N - x \in left
    BY <2>2
  <2> QED
    BY <2>1, <2>3
<1>2. PICK least \in left : \A y \in left : least <= y
  BY <1>1, MinExists
<1>3. PICK x \in S : least = N - x
  BY <1>2
<1>4. \A y \in S : x >= y
  BY <1>2, <1>3
<1> QED
  BY <1>4, Zenon DEF Max

(* What the assumption says of the constants. *)
LEMMA ConstantsAreNat ==
    /\ MaxSeeks \in Nat /\ MaxNow \in Nat /\ Gop \in Nat \ {0}
    /\ Window \in Nat /\ Shortest \in Nat /\ Slack \in Nat
  BY PlaybackAssumption

LEMMA SpansAreTimes ==
    /\ DOMAIN Spans \subseteq Nat \ {0}
    /\ \A i \in DOMAIN Spans : From(i) \in Nat /\ To(i) \in Nat /\ From(i) < To(i)
<1>1. Spans \in Seq(Nat \X Nat) /\ \A i \in DOMAIN Spans : Spans[i][1] < Spans[i][2]
  BY PlaybackAssumption
<1>2. DOMAIN Spans = 1..Len(Spans) /\ Len(Spans) \in Nat
  BY <1>1
<1>3. \A i \in DOMAIN Spans : Spans[i] \in Nat \X Nat
  BY <1>1, <1>2
<1> QED
  BY <1>1, <1>2, <1>3 DEF From, To

\* What openNextFile finds is a segment that ends after the position.
LEMMA FoundIsUseful ==
    ASSUME NEW w \in Windows, NEW want \in Nat, Useful(w, want) # {}
    PROVE  /\ Min(Useful(w, want)) \in DOMAIN Spans
           /\ To(Min(Useful(w, want))) > want
<1>1. Useful(w, want) \in SUBSET Nat
  BY SpansAreTimes DEF Useful, Windows
<1>2. Min(Useful(w, want)) \in Useful(w, want)
  BY <1>1, MinExists
<1> QED
  BY <1>2 DEF Useful, Windows

(* Measuring the segments of a window forgets none measured before. *)
LEMMA MeasuredStep ==
    ASSUME PlaybackTypes, LongestIsMeasured, NEW want \in Nat,
           longest' = LongestOf(longest, Shown(want)), met' = met \cup Shown(want)
    PROVE  longest' \in Nat /\ met' \subseteq DOMAIN Spans /\ LongestIsMeasured'
<1> DEFINE lengths == {longest} \cup {Length(i) : i \in Shown(want)}
<1>1. Shown(want) \subseteq {i \in DOMAIN Spans : To(i) <= clock}
  BY DEF Shown, Near, Load
<1>2. \A i \in Shown(want) : Length(i) \in 0..MaxNow
  BY <1>1, SpansAreTimes, ConstantsAreNat DEF Length, PlaybackTypes
<1>3. /\ longest + MaxNow \in Nat /\ lengths \in SUBSET (0..(longest + MaxNow))
      /\ lengths # {}
  BY <1>2, ConstantsAreNat DEF PlaybackTypes
<1> HIDE DEF lengths
<1>4. Max(lengths) \in lengths /\ \A y \in lengths : Max(lengths) >= y
  BY <1>3, MaxExists
<1>5. longest' = Max(lengths) /\ longest' \in Nat
  BY <1>3, <1>4 DEF LongestOf, lengths
<1>6. longest' >= longest /\ \A i \in Shown(want) : longest' >= Length(i)
  BY <1>4, <1>5 DEF lengths
<1>7. Shortest <= longest'
  BY <1>5, <1>6, ConstantsAreNat DEF PlaybackTypes, LongestIsMeasured
<1>8. \A j \in met : Length(j) <= longest'
  <2> SUFFICES ASSUME NEW j \in met PROVE Length(j) <= longest'
    OBVIOUS
  <2>1. Length(j) \in Int /\ Length(j) <= longest /\ longest \in Nat
    BY SpansAreTimes DEF PlaybackTypes, LongestIsMeasured, Length
  <2> QED
    BY <1>5, <1>6, <2>1
<1>9. \A j \in Shown(want) : Length(j) <= longest'
  BY <1>2, <1>5, <1>6
<1>10. met' \subseteq DOMAIN Spans
  BY <1>1 DEF PlaybackTypes
<1> QED
  BY <1>5, <1>7, <1>8, <1>9, <1>10 DEF LongestIsMeasured, Length, From, To

LEMMA MeasuredKept ==
    ASSUME LongestIsMeasured, UNCHANGED windowVars
    PROVE  LongestIsMeasured'
  BY DEF LongestIsMeasured, windowVars, Length, From, To

LEMMA LookedIsWindow ==
    ASSUME PlaybackTypes, NEW want \in Nat
    PROVE  Looked(want) \in Windows
<1>1. \A from, to : Load(from, to) \in SUBSET DOMAIN Spans
  BY DEF Load
<1>2. \A from \in Nat : Around(from) \in Windows
  BY <1>1, ConstantsAreNat DEF Around, Windows
<1>3. Near(want) \in Windows
  BY <1>1, ConstantsAreNat DEF Near, Windows
<1>4. Cached(want) \in Windows
  BY <1>3 DEF Cached, PlaybackTypes
<1> QED
  BY <1>2, <1>4 DEF Looked, Windows

LEMMA InitPlaybackInv == PlaybackInit => PlaybackInv
<1> SUFFICES ASSUME PlaybackInit PROVE PlaybackInv
  OBVIOUS
<1>1. PICK t \in Places :
        /\ cmd = [stopping |-> FALSE, pending |-> FALSE, target |-> 0, seq |-> 0,
                  paused |-> FALSE]
        /\ pos = [ms |-> t, of |-> 0]
  BY DEF PlaybackInit
<1>2. PlaybackTypes
  <2>1. cmd \in Commands /\ pos \in Positions
    BY <1>1, ConstantsAreNat DEF Commands, Positions, Places
  <2>2. taken \in Seeks /\ applied \in 0..MaxSeeks /\ window \in Windows
        /\ longest \in Nat /\ met \subseteq DOMAIN Spans
    BY ConstantsAreNat DEF PlaybackInit, Seeks, Windows
  <2>3. file \in Files /\ gate \in Gates
    BY DEF PlaybackInit, Files, NoFile, Gates
  <2>4. seen \in [Viewers -> 0..None]
    BY ConstantsAreNat DEF PlaybackInit, None
  <2> QED
    BY <2>1, <2>2, <2>3, <2>4 DEF PlaybackInit, PlaybackTypes
<1>3. InOrder
  BY <1>1 DEF PlaybackInit, InOrder
<1>4. FileIsRead
  BY DEF PlaybackInit, FileIsRead
<1>5. GateIsKept
  BY <1>1 DEF PlaybackInit, GateIsKept
<1>6. EndIsFar
  BY DEF PlaybackInit, EndIsFar
<1>7. LongestIsMeasured
  BY ConstantsAreNat DEF PlaybackInit, LongestIsMeasured
<1> QED
  BY <1>2, <1>3, <1>4, <1>5, <1>6, <1>7 DEF PlaybackInv

LEMMA CommandStep ==
    ASSUME PlaybackInv,
           \/ \E t \in Places : seek(t)
           \/ \E b \in BOOLEAN : setPaused(b)
           \/ stop
    PROVE  PlaybackInv'
<1>1. cmd' \in Commands /\ cmd.seq <= cmd'.seq
  <2>1. CASE \E t \in Places : seek(t)
    <3>1. PICK t \in Places :
            /\ cmd.seq < MaxSeeks
            /\ cmd' = [cmd EXCEPT !.target = t, !.pending = TRUE, !.seq = @ + 1]
      BY <2>1 DEF seek, Command
    <3>2. cmd' = [stopping |-> cmd.stopping, pending |-> TRUE, target |-> t,
                  seq |-> cmd.seq + 1, paused |-> cmd.paused]
      BY <3>1 DEF PlaybackInv, PlaybackTypes, Commands
    <3>3. cmd.seq + 1 \in 0..MaxSeeks /\ cmd.seq <= cmd.seq + 1 /\ t \in Nat
      BY <3>1, ConstantsAreNat DEF PlaybackInv, PlaybackTypes, Commands, Places
    <3> QED
      BY <3>2, <3>3 DEF PlaybackInv, PlaybackTypes, Commands
  <2>2. CASE \E b \in BOOLEAN : setPaused(b)
    <3>1. PICK b \in BOOLEAN : cmd' = [cmd EXCEPT !.paused = b]
      BY <2>2 DEF setPaused, Command
    <3>2. cmd' = [stopping |-> cmd.stopping, pending |-> cmd.pending, target |-> cmd.target,
                  seq |-> cmd.seq, paused |-> b]
      BY <3>1 DEF PlaybackInv, PlaybackTypes, Commands
    <3> QED
      BY <3>2, ConstantsAreNat DEF PlaybackInv, PlaybackTypes, Commands
  <2>3. CASE stop
    <3>1. cmd' = [stopping |-> TRUE, pending |-> cmd.pending, target |-> cmd.target,
                  seq |-> cmd.seq, paused |-> cmd.paused]
      BY <2>3 DEF PlaybackInv, PlaybackTypes, Commands, stop, Command
    <3> QED
      BY <3>1, ConstantsAreNat DEF PlaybackInv, PlaybackTypes, Commands
  <2> QED
    BY <2>1, <2>2, <2>3
<1>2. UNCHANGED <<clock, feederVars, gate, seen>>
  BY DEF seek, setPaused, stop, Command
<1>3. PlaybackTypes'
  BY <1>1, <1>2 DEF PlaybackInv, PlaybackTypes, feederVars, windowVars
<1>4. InOrder'
  BY <1>1, <1>2, ConstantsAreNat
  DEF PlaybackInv, InOrder, PlaybackTypes, Commands, Seeks, feederVars
<1>5. FileIsRead' /\ GateIsKept' /\ EndIsFar'
  BY <1>2, Zenon DEF PlaybackInv, FileIsRead, GateIsKept, EndIsFar, feederVars, windowVars,
     Length, To, From
<1>6. LongestIsMeasured'
  BY <1>2, MeasuredKept DEF PlaybackInv, feederVars
<1> QED
  BY <1>3, <1>4, <1>5, <1>6 DEF PlaybackInv

LEMMA ViewerStep ==
    ASSUME PlaybackInv, NEW v \in Viewers, addSink(v) \/ removeSink(v)
    PROVE  PlaybackInv'
<1>1. UNCHANGED <<clock, cmd, feederVars>>
  BY DEF addSink, removeSink
<1>2. gate' \in Gates /\ seen' \in [Viewers -> 0..None]
  BY ConstantsAreNat DEF PlaybackInv, PlaybackTypes, addSink, removeSink, Gates, None
<1>3. PlaybackTypes'
  BY <1>1, <1>2 DEF PlaybackInv, PlaybackTypes, feederVars, windowVars
<1>4. GateIsKept'
  <2>1. /\ gate.all \subseteq Viewers /\ gate.needKey \subseteq gate.all
        /\ at' = at /\ pos' = pos /\ seen \in [Viewers -> 0..None]
    BY <1>1 DEF PlaybackInv, GateIsKept, PlaybackTypes, Gates, feederVars
  <2>2. CASE addSink(v)
    <3>1. gate'.all = gate.all \cup {v} /\ gate'.needKey = gate.needKey \cup {v}
          /\ seen' = seen
      BY <2>2 DEF addSink
    <3> QED
      BY <2>1, <3>1 DEF PlaybackInv, GateIsKept
  <2>3. CASE removeSink(v)
    <3>1. gate'.all = gate.all \ {v} /\ gate'.needKey = gate.needKey \ {v}
      BY <2>3 DEF removeSink
    <3>2. seen'[v] = None /\ \A w \in Viewers \ {v} : seen'[w] = seen[w]
      BY <2>1, <2>3 DEF removeSink
    <3> QED
      BY <2>1, <3>1, <3>2 DEF PlaybackInv, GateIsKept
  <2> QED
    BY <2>2, <2>3
<1>5. InOrder' /\ FileIsRead' /\ EndIsFar'
  BY <1>1, Zenon DEF PlaybackInv, InOrder, FileIsRead, EndIsFar, feederVars, windowVars, Length,
     To, From
<1>6. LongestIsMeasured'
  BY <1>1, MeasuredKept DEF PlaybackInv, feederVars
<1> QED
  BY <1>3, <1>4, <1>5, <1>6 DEF PlaybackInv

LEMMA ElapseStep ==
    ASSUME PlaybackInv, Elapse
    PROVE  PlaybackInv'
<1>1. clock' \in 0..MaxNow /\ clock <= clock' /\ dry' \in {"no", "recent", "long"}
  BY ConstantsAreNat DEF PlaybackInv, PlaybackTypes, Elapse
<1>2. UNCHANGED <<cmd, at, taken, applied, pos, windowVars, file, ended, waiting, gate, seen>>
  BY DEF Elapse
<1>3. PlaybackTypes'
  BY <1>1, <1>2 DEF PlaybackInv, PlaybackTypes, windowVars
<1>4. EndIsFar'
  BY <1>1, <1>2, ConstantsAreNat
  DEF PlaybackInv, PlaybackTypes, Positions, EndIsFar, windowVars
<1>5. InOrder' /\ FileIsRead' /\ GateIsKept'
  BY <1>2, Zenon DEF PlaybackInv, InOrder, FileIsRead, GateIsKept, Length, To, From
<1>6. LongestIsMeasured'
  BY <1>2, MeasuredKept DEF PlaybackInv
<1> QED
  BY <1>3, <1>4, <1>5, <1>6 DEF PlaybackInv

LEMMA TakeSeekStep ==
    ASSUME PlaybackInv, TakeSeek
    PROVE  PlaybackInv'
<1>1. PlaybackTypes'
  BY DEF PlaybackInv, PlaybackTypes, windowVars, TakeSeek, PublishLater, Taken, Commands, Seeks
<1>2. InOrder'
  BY DEF PlaybackInv, InOrder, TakeSeek, PublishLater, Taken, PlaybackTypes, Commands, Seeks
<1>3. FileIsRead' /\ EndIsFar'
  BY DEF PlaybackInv, FileIsRead, EndIsFar, windowVars, TakeSeek, Length, To, From
<1>4. GateIsKept'
  BY DEF PlaybackInv, GateIsKept, TakeSeek
<1>5. LongestIsMeasured'
  BY MeasuredKept DEF PlaybackInv, TakeSeek
<1> QED
  BY <1>1, <1>2, <1>3, <1>4, <1>5 DEF PlaybackInv

LEMMA JumpStep ==
    ASSUME PlaybackInv, Jump
    PROVE  PlaybackInv'
<1>1. PlaybackTypes'
  BY DEF PlaybackInv, PlaybackTypes, windowVars, Jump, Feeder, Seeks, Positions, Files, NoFile
<1>2. InOrder'
  BY ConstantsAreNat DEF PlaybackInv, InOrder, Jump, Feeder, PlaybackTypes, Seeks, Positions
<1>3. FileIsRead' /\ EndIsFar'
  BY DEF PlaybackInv, FileIsRead, EndIsFar, windowVars, Jump, Feeder, Length, To, From, NoFile
<1>4. GateIsKept'
  <2>1. pos.of <= pos'.of
    BY DEF PlaybackInv, InOrder, Jump, Feeder
  <2>2. \A v \in Viewers : seen[v] = None \/ seen[v] <= pos'.of
    BY <2>1, <1>1, ConstantsAreNat
    DEF PlaybackInv, GateIsKept, PlaybackTypes, Positions, None
  <2> QED
    BY <2>2 DEF PlaybackInv, GateIsKept, Jump
<1>5. LongestIsMeasured'
  BY MeasuredKept DEF PlaybackInv, Jump, Feeder
<1> QED
  BY <1>1, <1>2, <1>3, <1>4, <1>5 DEF PlaybackInv

LEMMA GateStep ==
    ASSUME PlaybackInv, Gate
    PROVE  PlaybackInv'
<1>1. PlaybackTypes'
  BY DEF PlaybackInv, PlaybackTypes, windowVars, Gate, Feeder, requireKeyframe, Seeks, Gates
<1>2. InOrder'
  BY DEF PlaybackInv, InOrder, Gate, Feeder
<1>3. FileIsRead' /\ EndIsFar'
  BY DEF PlaybackInv, FileIsRead, EndIsFar, windowVars, Gate, Feeder, Length, To, From
<1>4. GateIsKept'
  BY DEF PlaybackInv, GateIsKept, Gate, Feeder, requireKeyframe, PlaybackTypes, Gates
<1>5. LongestIsMeasured'
  BY MeasuredKept DEF PlaybackInv, Gate, Feeder
<1> QED
  BY <1>1, <1>2, <1>3, <1>4, <1>5 DEF PlaybackInv

LEMMA TurnStep ==
    ASSUME PlaybackInv, Turn \/ Leave
    PROVE  PlaybackInv'
<1>1. PlaybackTypes'
  BY DEF PlaybackInv, PlaybackTypes, windowVars, Turn, Leave, Feeder, Files, NoFile
<1>2. InOrder'
  BY DEF PlaybackInv, InOrder, Turn, Leave, Feeder
<1>3. FileIsRead' /\ EndIsFar'
  BY DEF PlaybackInv, FileIsRead, EndIsFar, windowVars, Turn, Leave, Feeder, Length, To,
         From, NoFile
<1>4. GateIsKept'
  BY DEF PlaybackInv, GateIsKept, Turn, Leave, Feeder
<1>5. LongestIsMeasured'
  BY MeasuredKept DEF PlaybackInv, Turn, Leave, Feeder
<1> QED
  BY <1>1, <1>2, <1>3, <1>4, <1>5 DEF PlaybackInv

LEMMA OpenStep ==
    ASSUME PlaybackInv, Open
    PROVE  PlaybackInv'
<1> DEFINE found == Useful(Looked(pos.ms), pos.ms)
           i == Min(found)
           place == IF From(i) > pos.ms THEN From(i) ELSE pos.ms
<1>1. /\ window' \in Windows
      /\ UNCHANGED <<clock, cmd, taken, applied, gate, seen>>
      /\ longest' \in Nat /\ met' \subseteq DOMAIN Spans /\ LongestIsMeasured'
  BY LookedIsWindow, MeasuredStep DEF PlaybackInv, PlaybackTypes, Positions, Open, Feeder
<1>2. pos.ms \in Nat /\ pos.of \in 0..MaxSeeks /\ at = "open" /\ clock \in Nat
  BY ConstantsAreNat DEF PlaybackInv, PlaybackTypes, Positions, Open, Feeder
<1>3. CASE found = {} /\ Dry(pos.ms) /\ UNCHANGED <<pos, file>>
  <2>1. PlaybackTypes'
    BY <1>1, <1>3 DEF PlaybackInv, PlaybackTypes, Dry
  <2>2. InOrder' /\ FileIsRead'
    BY <1>1, <1>2, <1>3 DEF PlaybackInv, InOrder, FileIsRead, Dry, Length, To, From
  <2>3. EndIsFar'
    BY <1>1, <1>2, <1>3, ConstantsAreNat
    DEF PlaybackInv, PlaybackTypes, EndIsFar, Dry
  <2>4. GateIsKept'
    BY <1>1, <1>2, <1>3 DEF PlaybackInv, GateIsKept
  <2> QED
    BY <1>1, <2>1, <2>2, <2>3, <2>4 DEF PlaybackInv
<1>4. ASSUME found # {}
      PROVE  i \in DOMAIN Spans /\ To(i) > pos.ms /\ From(i) < To(i)
             /\ From(i) \in Nat /\ To(i) \in Nat /\ i \in Nat
  <2>1. i \in DOMAIN Spans /\ To(i) > pos.ms
    BY <1>2, <1>4, FoundIsUseful, LookedIsWindow DEF PlaybackInv
  <2> QED
    BY <2>1, SpansAreTimes
<1>5. CASE /\ found # {}
           /\ \E f \in 0..(place - From(i)) : file' = [span |-> i, next |-> f]
           /\ pos' = [pos EXCEPT !.ms = place]
           /\ ClearFlags
           /\ at' = "pump"
  <2> HIDE DEF i
  <2>1. PICK f \in 0..(place - From(i)) : file' = [span |-> i, next |-> f]
    BY <1>5
  <2>2. place \in Nat /\ place < To(i) /\ From(i) <= place
    BY <1>2, <1>4, <1>5
  <2>3. pos' = [ms |-> place, of |-> pos.of]
    BY <1>5 DEF PlaybackInv, PlaybackTypes, Positions
  <2> HIDE DEF place
  <2>4. f \in Nat /\ f < Length(i) /\ Length(i) \in Nat
    BY <2>1, <2>2, <1>4, <1>5 DEF Length
  <2>5. PlaybackTypes'
    BY <1>1, <1>2, <1>4, <1>5, <2>1, <2>2, <2>3, <2>4
    DEF PlaybackInv, PlaybackTypes, Positions, Files, ClearFlags
  <2>6. InOrder'
    BY <1>1, <1>2, <1>5, <2>3 DEF PlaybackInv, InOrder
  <2>7. file'.span = i /\ file'.next = f /\ file' # NoFile
    BY <2>1, <1>4, <1>5, SpansAreTimes DEF NoFile
  <2>8. FileIsRead'
    BY <1>4, <1>5, <2>7, <2>4 DEF FileIsRead, Length, To, From
  <2>9. GateIsKept'
    BY <1>1, <1>2, <1>5, <2>3 DEF PlaybackInv, GateIsKept
  <2>10. EndIsFar'
    BY <1>5 DEF EndIsFar, ClearFlags
  <2> QED
    BY <1>1, <2>5, <2>6, <2>8, <2>9, <2>10 DEF PlaybackInv
<1>6. CASE /\ found # {}
           /\ pos' = [pos EXCEPT !.ms = To(i)]
           /\ Dry(To(i))
           /\ UNCHANGED file
  <2> HIDE DEF i
  <2>1. pos' = [ms |-> To(i), of |-> pos.of] /\ To(i) \in Nat
    BY <1>4, <1>6 DEF PlaybackInv, PlaybackTypes, Positions
  <2>2. PlaybackTypes'
    BY <1>1, <1>2, <1>6, <2>1 DEF PlaybackInv, PlaybackTypes, Dry, Positions
  <2>3. InOrder' /\ FileIsRead'
    BY <1>1, <1>2, <1>6, <2>1 DEF PlaybackInv, InOrder, FileIsRead, Dry, Length, To, From
  <2>4. EndIsFar'
    <3>1. pos.ms <= pos'.ms /\ pos'.ms = To(i)
      BY <1>2, <1>4, <1>6, <2>1
    <3>2. at' = "loop" /\ (ended' => ~waiting' /\ clock >= To(i) + 2 * longest' + Slack)
      BY <1>1, <1>2, <1>6, <2>1, ConstantsAreNat
      DEF PlaybackInv, PlaybackTypes, Dry, EndIsFar
    <3> QED
      BY <1>1, <3>1, <3>2 DEF EndIsFar
  <2>5. GateIsKept'
    BY <1>1, <1>2, <1>6, <2>1 DEF PlaybackInv, GateIsKept
  <2> QED
    BY <1>1, <2>2, <2>3, <2>4, <2>5 DEF PlaybackInv
<1> QED
  BY <1>3, <1>5, <1>6 DEF Open

LEMMA PullStep ==
    ASSUME PlaybackInv, Pull \/ NoSample
    PROVE  PlaybackInv'
<1>1. PlaybackTypes'
  BY DEF PlaybackInv, PlaybackTypes, windowVars, Pull, NoSample, Feeder, ClearFlags
<1>2. InOrder'
  BY DEF PlaybackInv, InOrder, Pull, NoSample, Feeder
<1>3. FileIsRead' /\ EndIsFar'
  BY DEF PlaybackInv, FileIsRead, EndIsFar, windowVars, Pull, NoSample, Feeder, Length, To,
         From, ClearFlags
<1>4. GateIsKept'
  BY DEF PlaybackInv, GateIsKept, Pull, NoSample, Feeder
<1>5. LongestIsMeasured'
  BY MeasuredKept DEF PlaybackInv, Pull, NoSample, Feeder
<1> QED
  BY <1>1, <1>2, <1>3, <1>4, <1>5 DEF PlaybackInv

LEMMA EndOfFileStep ==
    ASSUME PlaybackInv, EndOfFile
    PROVE  PlaybackInv'
<1>1. file.span \in DOMAIN Spans
  BY DEF PlaybackInv, FileIsRead, EndOfFile, Feeder
<1>2. pos' = [ms |-> To(file.span), of |-> pos.of] /\ To(file.span) \in Nat
  BY <1>1, SpansAreTimes DEF PlaybackInv, PlaybackTypes, Positions, EndOfFile
<1>3. PlaybackTypes'
  BY <1>2 DEF PlaybackInv, PlaybackTypes, Positions, EndOfFile, Feeder, ClearFlags, Files,
     NoFile, windowVars
<1>4. InOrder'
  BY <1>2 DEF PlaybackInv, InOrder, EndOfFile, Feeder
<1>5. FileIsRead' /\ EndIsFar'
  BY DEF PlaybackInv, FileIsRead, EndIsFar, EndOfFile, Feeder, Length, To, From,
         ClearFlags
<1>6. GateIsKept'
  BY <1>2 DEF PlaybackInv, GateIsKept, EndOfFile, Feeder
<1>7. LongestIsMeasured'
  BY MeasuredKept DEF PlaybackInv, EndOfFile
<1> QED
  BY <1>3, <1>4, <1>5, <1>6, <1>7 DEF PlaybackInv

LEMMA SendStep ==
    ASSUME PlaybackInv, Send
    PROVE  PlaybackInv'
<1>1. PICK takers \in {Takers, {}} :
        /\ Feeder("send")
        /\ pos' = [pos EXCEPT !.ms = From(file.span) + file.next]
        /\ gate' = [gate EXCEPT !.needKey = @ \ takers]
        /\ seen' = [v \in Viewers |-> IF v \in takers THEN pos.of ELSE seen[v]]
        /\ file' = [file EXCEPT !.next = @ + 1]
        /\ at' = "loop"
        /\ UNCHANGED <<taken, applied, windowVars, ended, waiting, dry>>
  BY Zenon DEF Send
<1>2. /\ file.span \in DOMAIN Spans
      /\ file.next \in 0..Length(file.span)
      /\ file.next < Length(file.span)
  BY <1>1 DEF PlaybackInv, FileIsRead, Feeder
<1>3. /\ From(file.span) \in Nat /\ To(file.span) \in Nat
      /\ file.span \in Nat \ {0} /\ file.next \in Nat /\ Length(file.span) \in Nat
  BY <1>2, SpansAreTimes DEF PlaybackInv, PlaybackTypes, Files, Length
<1>4. pos' = [ms |-> From(file.span) + file.next, of |-> pos.of]
  BY <1>1 DEF PlaybackInv, PlaybackTypes, Positions
<1>5. file' = [span |-> file.span, next |-> file.next + 1]
  BY <1>1 DEF PlaybackInv, PlaybackTypes, Files
<1>6. gate' = [all |-> gate.all, needKey |-> gate.needKey \ takers]
  BY <1>1 DEF PlaybackInv, PlaybackTypes, Gates
<1>7. pos.of \in 0..None /\ pos.of # None /\ takers \in SUBSET gate.all
  BY <1>1, ConstantsAreNat DEF PlaybackInv, PlaybackTypes, Positions, None, Takers
<1>8. PlaybackTypes'
  <2>1. pos' \in Positions /\ file' \in Files /\ gate' \in Gates
    BY <1>3, <1>4, <1>5, <1>6 DEF PlaybackInv, PlaybackTypes, Positions, Files, Gates
  <2>2. seen' \in [Viewers -> 0..None]
    BY <1>1, <1>7 DEF PlaybackInv, PlaybackTypes
  <2> QED
    BY <1>1, <2>1, <2>2 DEF PlaybackInv, PlaybackTypes, Feeder, windowVars
<1>9. InOrder'
  BY <1>1, <1>4 DEF PlaybackInv, InOrder, Feeder
<1>10. FileIsRead'
  <2>1. file'.span = file.span /\ file'.next = file.next + 1
    BY <1>5
  <2>2. file'.next \in 0..Length(file.span)
    BY ONLY <2>1, <1>2, <1>3
  <2> QED
    BY <1>1, <1>2, <2>1, <2>2 DEF FileIsRead, Length, To, From
<1>11. EndIsFar'
  BY <1>1 DEF PlaybackInv, EndIsFar, Feeder, windowVars
<1>12. GateIsKept'
  <2>1. gate'.all = gate.all /\ gate'.needKey = gate.needKey \ takers /\ pos'.of = pos.of
    BY <1>4, <1>6
  <2>2. \A v \in Viewers : seen'[v] = IF v \in takers THEN pos.of ELSE seen[v]
    BY <1>1
  <2>3. \A v \in gate.all \ gate.needKey : seen[v] = pos.of
    BY <1>1 DEF PlaybackInv, GateIsKept, Feeder
  <2>4. gate.all \subseteq Viewers /\ gate.needKey \subseteq gate.all
    BY DEF PlaybackInv, PlaybackTypes, Gates, GateIsKept
  <2>5. \A v \in Viewers : seen'[v] = None \/ seen'[v] <= pos.of
    <3>1. pos.of \in Nat
      BY DEF PlaybackInv, PlaybackTypes, Positions
    <3>2. \A v \in Viewers : seen[v] = None \/ seen[v] <= pos.of
      BY DEF PlaybackInv, GateIsKept
    <3>3. pos.of <= pos.of
      BY <3>1
    <3> QED
      BY ONLY <2>2, <3>2, <3>3
  <2> QED
    BY <2>1, <2>2, <2>3, <2>4, <2>5 DEF GateIsKept
<1>13. LongestIsMeasured'
  BY <1>1, MeasuredKept DEF PlaybackInv
<1> QED
  BY <1>8, <1>9, <1>10, <1>11, <1>12, <1>13 DEF PlaybackInv

LEMMA NextPlaybackInv == PlaybackInv /\ [PlaybackNext]_playbackVars => PlaybackInv'
<1> SUFFICES ASSUME PlaybackInv, [PlaybackNext]_playbackVars PROVE PlaybackInv'
  OBVIOUS
<1>1. CASE Feed
  BY <1>1, TakeSeekStep, JumpStep, GateStep, TurnStep, OpenStep, PullStep,
     EndOfFileStep, SendStep DEF Feed, Read
<1>2. CASE UNCHANGED playbackVars
  BY <1>2, Zenon DEF PlaybackInv, PlaybackTypes, InOrder, FileIsRead, GateIsKept,
     LongestIsMeasured, EndIsFar, playbackVars, feederVars, windowVars, Length, To, From
<1> QED
  BY <1>1, <1>2, ElapseStep, CommandStep, ViewerStep DEF PlaybackNext

(* What the screen says, from how far the live edge is: a segment that is    *)
(* still being written where the viewer waits reaches beyond the clock.      *)
LEMMA EndFarIsHonest == PlaybackInv => PlayingIsNotEnded
<1> SUFFICES ASSUME PlaybackInv PROVE PlayingIsNotEnded
  OBVIOUS
<1>1. ASSUME ended, NEW i \in BeingWritten(pos.ms)
      PROVE  Length(i) > 2 * longest + Slack
  <2>1. i \in DOMAIN Spans /\ From(i) <= pos.ms /\ clock < To(i)
    BY <1>1 DEF BeingWritten
  <2>2. /\ From(i) \in Nat /\ To(i) \in Nat /\ pos.ms \in Nat /\ clock \in Nat
        /\ longest \in Nat /\ Slack \in Nat
    BY <2>1, SpansAreTimes, ConstantsAreNat DEF PlaybackInv, PlaybackTypes, Positions
  <2>3. clock >= pos.ms + 2 * longest + Slack
    BY <1>1 DEF PlaybackInv, EndIsFar
  <2> QED
    BY <2>1, <2>2, <2>3 DEF Length
<1>2. /\ longest \in Nat /\ Shortest \in Nat /\ Shortest <= longest /\ Slack \in Nat
      /\ \A j \in met : Length(j) \in Int /\ Length(j) <= longest
      /\ \A i \in BeingWritten(pos.ms) : Length(i) \in Int
  BY SpansAreTimes, ConstantsAreNat
  DEF PlaybackInv, PlaybackTypes, LongestIsMeasured, Length, BeingWritten
<1>3. ASSUME ended, NEW i \in BeingWritten(pos.ms)
      PROVE  /\ Length(i) > 2 * Shortest + Slack
             /\ \A j \in met : Length(i) > 2 * Length(j) + Slack
  <2>1. Length(i) > 2 * longest + Slack
    BY <1>1, <1>3
  <2> QED
    BY <1>2, <2>1
<1> QED
  BY <1>3 DEF PlaybackInv, EndIsFar, PlayingIsNotEnded

(* The screen never says that the recording is over while it plays, nor while *)
(* the camera writes the segment the viewer waits for, unless that is more    *)
(* than twice as long as all that openNextFile's first windows have shown     *)
(* (PlaybackSource.hpp, rememberSegmentLength and feederLoop), whatever is    *)
(* recorded, sought and paused.                                             *)
THEOREM FeederIsAlwaysSound == PlaybackSpec => []FeederIsSound
<1>1. PlaybackInv => FeederIsSound
  <2> SUFFICES ASSUME PlaybackInv PROVE FeederIsSound
    OBVIOUS
  <2>1. applied <= taken.seq
    BY ConstantsAreNat DEF PlaybackInv, InOrder, PlaybackTypes, Positions, Seeks
  <2>2. pos.ms \in Nat /\ pos.of \in 0..MaxSeeks /\ gate.all \subseteq Viewers
    BY DEF PlaybackInv, PlaybackTypes, Positions, Gates
  <2>3. PlaybackTypeOK
    BY <2>1, <2>2 DEF PlaybackInv, PlaybackTypes, InOrder, FileIsRead, GateIsKept,
       PlaybackTypeOK
  <2> QED
    BY <2>3, EndFarIsHonest DEF FeederIsSound
<1> QED
  BY InitPlaybackInv, NextPlaybackInv, <1>1, PTL DEF PlaybackSpec

LEMMA PlaceStep ==
    ASSUME PlaybackInv, [PlaybackNext]_playbackVars
    PROVE  applied' <= pos'.of /\ pos.of <= pos'.of
<1>1. applied' <= pos'.of
  BY NextPlaybackInv DEF PlaybackInv, InOrder
<1>2. CASE Jump
  BY <1>1, <1>2 DEF PlaybackInv, PlaybackTypes, Positions, InOrder, Jump
<1>3. CASE pos'.of = pos.of
  BY <1>1, <1>3, ConstantsAreNat DEF PlaybackInv, PlaybackTypes, Positions
<1>4. CASE Open
  BY <1>3, <1>4 DEF Open, PlaybackInv, PlaybackTypes, Positions
<1>5. CASE EndOfFile
  BY <1>3, <1>5 DEF EndOfFile, PlaybackInv, PlaybackTypes, Positions
<1>6. CASE Send
  BY <1>3, <1>6 DEF Send, PlaybackInv, PlaybackTypes, Positions
<1> QED
  BY <1>1, <1>2, <1>3, <1>4, <1>5, <1>6
  DEF PlaybackNext, Feed, Read, playbackVars, feederVars, TakeSeek, Gate, Turn, Leave, Pull,
      NoSample, Elapse, seek, setPaused, stop, Command, addSink, removeSink

(* What fill() and the position messages tell a viewer: a seek is reported as *)
(* carried out only when the position is already that of the seek, and the    *)
(* seek a position belongs to never goes back (m_appliedSeekSeq).           *)
THEOREM PlaceIsAlwaysCurrent == PlaybackSpec => PushedPlaceIsCurrent
<1> QED
  BY InitPlaybackInv, NextPlaybackInv, PlaceStep, PTL DEF PlaybackSpec, PushedPlaceIsCurrent

LEMMA SeenStep ==
    ASSUME PlaybackInv, [PlaybackNext]_playbackVars, NEW v \in Viewers,
           seen'[v] \notin {seen[v], None}
    PROVE  IsKey(file.next) /\ (seen[v] # None => seen'[v] > seen[v])
<1>1. CASE Send
  <2>1. PICK takers \in IF IsKey(file.next) THEN {Takers} ELSE {Takers, {}} :
          /\ at = "send"
          /\ seen' = [w \in Viewers |-> IF w \in takers THEN pos.of ELSE seen[w]]
    BY <1>1, Zenon DEF Send, Feeder
  <2>2. v \in takers /\ seen'[v] = pos.of
    BY <2>1
  <2>3. v \in Takers
    BY <2>1, <2>2
  <2>4. v \in gate.all \ gate.needKey => seen[v] = pos.of
    BY <2>1 DEF PlaybackInv, GateIsKept
  <2>5. IsKey(file.next)
    BY <2>2, <2>3, <2>4 DEF Takers
  <2>6. seen[v] # None => seen[v] <= pos.of
    BY DEF PlaybackInv, GateIsKept
  <2>7. seen[v] \in Int /\ pos.of \in Int
    BY ConstantsAreNat DEF PlaybackInv, PlaybackTypes, Positions, None
  <2> QED
    BY <2>2, <2>5, <2>6, <2>7
<1>2. CASE \E w \in Viewers : removeSink(w)
  BY <1>2 DEF removeSink, PlaybackInv, PlaybackTypes
<1> QED
  BY <1>1, <1>2
  DEF PlaybackNext, Feed, Read, playbackVars, feederVars, TakeSeek, Jump, Gate, Turn, Leave,
      Open, Pull, EndOfFile, NoSample, Elapse, seek, setPaused, stop, Command, addSink

(* Whatever the order of seeks, pauses and viewers that join, the first frame *)
(* a viewer gets after a jump is a key frame (PlaybackSource.hpp,            *)
(* requireKeyframe and deliver).                                            *)
THEOREM JumpAlwaysStartsWithKey == PlaybackSpec => JumpStartsWithKey
<1>1. PlaybackInv /\ [PlaybackNext]_playbackVars =>
        [\A v \in Viewers : seen'[v] \notin {seen[v], None} =>
          /\ IsKey(file.next)
          /\ seen[v] # None => seen'[v] > seen[v]]_playbackVars
  BY SeenStep
<1> QED
  BY InitPlaybackInv, NextPlaybackInv, <1>1, PTL DEF PlaybackSpec, JumpStartsWithKey
=============================================================================
