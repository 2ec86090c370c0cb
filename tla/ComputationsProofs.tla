------------------------ MODULE ComputationsProofs ------------------------
(* Computations, proved for inputs of every size: the addressing of recorded  *)
(* footage, the zones and the grid of the motion detector, the answer to an *)
(* offer, the decoding of quantized tensors and of poses, the painting of   *)
(* masks, the suppression of overlapping objects and the stages of a job.   *)
EXTENDS Computations, FiniteSetTheorems, WellFoundedInduction, TLAPS

-----------------------------------------------------------------------------
(* The bytes of the file an answer carries. *)
Answered(answer) == {b \in Int : answer.start <= b /\ b < answer.start + answer.length}

(* What parseByteRange returns for each kind of header. *)
LEMMA SuffixIsAsked ==
  ASSUME NEW n \in Nat, NEW size \in Nat
  PROVE  LET r == SuffixRange(n, size)
         IN  /\ r.present
             /\ r.satisfiable <=> \E b \in 0 .. size - 1 : b >= size - n
             /\ r.satisfiable =>
                  /\ r.start \in Nat /\ r.end \in Nat /\ r.start <= r.end /\ r.end < size
                  /\ \A b \in Int : r.start <= b /\ b <= r.end
                                      <=> b \in 0 .. size - 1 /\ b >= size - n
<1>1. CASE n <= 0 \/ size <= 0
  BY <1>1 DEF SuffixRange, Unsatisfiable, NotPresent
<1>2. CASE n > 0 /\ size > 0
  <2>1. size - 1 \in 0 .. size - 1 /\ size - 1 >= size - n
    BY <1>2
  <2> QED
    BY <1>2, <2>1 DEF SuffixRange
<1> QED
  BY <1>1, <1>2

(* The same for a header that names a first byte. *)
LEMMA FromIsAsked ==
  ASSUME NEW from \in Nat, NEW to \in Int, NEW size \in Nat
  PROVE  LET r == FromRange(from, to, size)
         IN  /\ r.present
             /\ r.satisfiable <=> \E b \in 0 .. size - 1 : b >= from /\ b <= to
             /\ r.satisfiable =>
                  /\ r.start \in Nat /\ r.end \in Nat /\ r.start <= r.end /\ r.end < size
                  /\ \A b \in Int : r.start <= b /\ b <= r.end
                                      <=> b \in 0 .. size - 1 /\ b >= from /\ b <= to
<1> DEFINE r == FromRange(from, to, size)
           end == IF to > size - 1 THEN size - 1 ELSE to
<1>1. /\ r.present /\ r.start = from /\ r.end = end
      /\ r.satisfiable <=> size > 0 /\ from < size /\ from <= end
  BY DEF FromRange
<1>2. end \in Int /\ end <= to /\ end <= size - 1 /\ (end = to \/ end = size - 1)
  OBVIOUS
<1> HIDE DEF r, end
<1>3. CASE r.satisfiable
  <2>1. from \in 0 .. size - 1 /\ from <= to
    BY <1>1, <1>2, <1>3
  <2>2. /\ r.start \in Nat /\ r.end \in Nat /\ r.start <= r.end /\ r.end < size
        /\ \A b \in Int : r.start <= b /\ b <= r.end
                            <=> b \in 0 .. size - 1 /\ b >= from /\ b <= to
    BY <1>1, <1>2, <1>3
  <2> QED
    BY <1>1, <1>3, <2>1, <2>2 DEF r
<1>4. CASE ~r.satisfiable
  <2>1. ~\E b \in 0 .. size - 1 : b >= from /\ b <= to
    BY <1>1, <1>2, <1>4
  <2> QED
    BY <1>1, <1>4, <2>1 DEF r
<1> QED
  BY <1>3, <1>4

(* A range request is answered with the bytes it asked for, all of them and   *)
(* no other; it is refused when there are none, and a request without a      *)
(* usable range gets the whole file (ByteRange.hpp, getRecordingFile).       *)
THEOREM RangeIsAnswered ==
  ASSUME NEW header \in Headers, NEW size \in Nat
  PROVE  LET answer == getRecordingFile(header, size)
         IN  /\ Answered(answer) = RequestedBytes(header, size)
             /\ answer.status = 416 <=> header.kind # "whole" /\ RequestedBytes(header, size) = {}
             /\ answer.status = 200 <=> header.kind = "whole"
<1> DEFINE range == parseByteRange(header, size)
           answer == getRecordingFile(header, size)
           asked == RequestedBytes(header, size)
<1>1. header.from \in Nat /\ header.to \in Nat
  BY DEF Headers
<1>2. CASE header.kind = "whole"
  <2>1. answer = [status |-> 200, start |-> 0, length |-> size]
    BY <1>2 DEF getRecordingFile, parseByteRange, NotPresent
  <2>2. asked = 0 .. size - 1
    BY <1>2 DEF RequestedBytes
  <2> HIDE DEF answer, asked
  <2> QED
    BY <1>2, <2>1, <2>2 DEF Answered, answer, asked
<1>3. ASSUME header.kind # "whole", NEW bytes, asked = bytes, bytes \subseteq Int,
             range.present, range.satisfiable <=> bytes # {},
             range.satisfiable =>
                /\ range.start \in Nat /\ range.end \in Nat /\ range.start <= range.end
                /\ \A b \in Int : range.start <= b /\ b <= range.end <=> b \in bytes
      PROVE  /\ Answered(answer) = asked
             /\ answer.status = 416 <=> asked = {}
             /\ answer.status # 200
  <2> HIDE DEF range, asked
  <2>1. CASE range.satisfiable
    <3>1. /\ answer.status = 206 /\ answer.start = range.start
          /\ answer.length = range.end - range.start + 1
      BY <1>3, <2>1 DEF getRecordingFile, range
    <3>2. \A b \in Int : b < answer.start + answer.length <=> b <= range.end
      BY <1>3, <2>1, <3>1
    <3> HIDE DEF answer
    <3>3. Answered(answer) = bytes
      BY <1>3, <2>1, <3>1, <3>2 DEF Answered
    <3> QED
      BY <1>3, <2>1, <3>1, <3>3
  <2>2. CASE ~range.satisfiable
    <3>1. answer = [status |-> 416, start |-> 0, length |-> 0]
      BY <1>3, <2>2 DEF getRecordingFile, range
    <3> HIDE DEF answer
    <3> QED
      BY <1>3, <2>2, <3>1 DEF Answered
  <2> QED
    BY <2>1, <2>2
<1>4. CASE header.kind = "suffix"
  <2> DEFINE bytes == {b \in 0 .. size - 1 : b >= size - header.to}
  <2>1. range = SuffixRange(header.to, size) /\ asked = bytes
    BY <1>4 DEF parseByteRange, RequestedBytes
  <2>2. bytes \subseteq Int
    OBVIOUS
  <2>3. /\ range.present
        /\ range.satisfiable <=> bytes # {}
        /\ range.satisfiable =>
             /\ range.start \in Nat /\ range.end \in Nat /\ range.start <= range.end
             /\ \A b \in Int : range.start <= b /\ b <= range.end <=> b \in bytes
    <3> HIDE DEF range, asked
    <3> QED
      BY <1>1, <2>1, SuffixIsAsked
  <2> HIDE DEF range, answer, asked, bytes
  <2>4. header.kind # "whole"
    BY <1>4
  <2>5. Answered(answer) = asked /\ (answer.status = 416 <=> asked = {}) /\ answer.status # 200
    BY <1>3, <2>1, <2>2, <2>3, <2>4
  <2> QED
    BY <2>4, <2>5 DEF answer, asked
<1>5. ASSUME NEW to \in Int, header.kind \in {"open", "closed"},
             range = FromRange(header.from, to, size),
             asked = {b \in 0 .. size - 1 : b >= header.from /\ b <= to}
      PROVE  Answered(answer) = asked /\ (answer.status = 416 <=> asked = {}) /\ answer.status # 200
  <2> DEFINE bytes == {b \in 0 .. size - 1 : b >= header.from /\ b <= to}
  <2>0. to \in Int /\ range = FromRange(header.from, to, size)
    BY <1>5
  <2>1. bytes \subseteq Int
    OBVIOUS
  <2>2. /\ range.present
        /\ range.satisfiable <=> bytes # {}
        /\ range.satisfiable =>
             /\ range.start \in Nat /\ range.end \in Nat /\ range.start <= range.end
             /\ \A b \in Int : range.start <= b /\ b <= range.end <=> b \in bytes
    <3> HIDE DEF range, asked
    <3> QED
      BY <1>1, <2>0, FromIsAsked
  <2>3. asked = bytes /\ header.kind # "whole"
    BY <1>5
  <2> HIDE DEF range, answer, asked, bytes
  <2> QED
    BY <1>3, <2>1, <2>2, <2>3
<1>6. CASE header.kind = "open"
  <2>1. range = FromRange(header.from, size - 1, size)
    BY <1>6 DEF parseByteRange
  <2>2. asked = {b \in 0 .. size - 1 : b >= header.from /\ b <= size - 1}
    BY <1>6 DEF RequestedBytes
  <2>3. size - 1 \in Int
    OBVIOUS
  <2> HIDE DEF range, answer, asked
  <2>4. Answered(answer) = asked /\ (answer.status = 416 <=> asked = {}) /\ answer.status # 200
    BY <1>5, <1>6, <2>1, <2>2, <2>3
  <2> QED
    BY <1>6, <2>4 DEF answer, asked
<1>7. CASE header.kind = "closed"
  <2>1. range = FromRange(header.from, header.to, size)
    BY <1>7 DEF parseByteRange
  <2>2. asked = {b \in 0 .. size - 1 : b >= header.from /\ b <= header.to}
    BY <1>7 DEF RequestedBytes
  <2> HIDE DEF range, answer, asked
  <2>3. Answered(answer) = asked /\ (answer.status = 416 <=> asked = {}) /\ answer.status # 200
    BY <1>1, <1>5, <1>7, <2>1, <2>2
  <2> QED
    BY <1>7, <2>3 DEF answer, asked
<1> QED
  BY <1>2, <1>4, <1>6, <1>7 DEF Headers

(* The picture of a thumbnail is taken inside the file of the segment that    *)
(* was chosen, at the time that was asked for if the segment contains it     *)
(* (PlaybackController::playbackThumbnail).                                  *)
THEOREM ThumbnailIsInside ==
  ASSUME NEW at \in Int, NEW r,
         r.start \in Nat, r.duration \in Nat \ {0}, r.start <= at
  PROVE  /\ ThumbnailOffset(r, at) \in 0 .. r.duration - 1
         /\ RowContains(r, at) => r.start + ThumbnailOffset(r, at) = at
  BY RecordedTimeAssumption DEF ThumbnailOffset, NonNegative, RowContains

(* Dividing by a second. *)
LEMMA Seconds ==
  ASSUME NEW t \in Nat
  PROVE  /\ t \div Second \in Nat
         /\ Second * (t \div Second) <= t
         /\ t < Second * (t \div Second) + Second
  BY RecordedTimeAssumption

(* A break is marked in the playlist where three seconds or more are missing, *)
(* and none where no more than one is: neither the dropped fractions nor   *)
(* the allowance of two seconds lose a gap or invent one (HlsPlaylist.hpp).  *)
THEOREM GapsAreMarked ==
  ASSUME NEW prev, NEW cur,
         prev.start \in Nat, prev.duration \in Nat, cur.start \in Nat
  PROVE  LET gap == cur.start - (prev.start + prev.duration)
         IN  /\ gap >= 3 * Second => WallGap(prev, cur)
             /\ gap <= Second => ~WallGap(prev, cur)
<1> DEFINE S == Second
           p == prev.start \div S  d == prev.duration \div S  c == cur.start \div S
<1>1. S \in Nat \ {0}
  BY RecordedTimeAssumption
<1>2. /\ p \in Nat /\ S * p <= prev.start /\ prev.start < S * p + S
      /\ d \in Nat /\ S * d <= prev.duration /\ prev.duration < S * d + S
      /\ c \in Nat /\ S * c <= cur.start /\ cur.start < S * c + S
  BY Seconds
<1>3. WallGap(prev, cur) <=> c - p > d + 2
  <2>1. /\ parseEpochSeconds(prev.start) = p /\ parseEpochSeconds(cur.start) = c
        /\ NonNegative(prev.duration) = prev.duration
    BY DEF parseEpochSeconds, NonNegative
  <2> HIDE DEF p, c
  <2> QED
    BY <1>2, <2>1 DEF WallGap
<1> HIDE DEF S, p, d, c
<1>4. S * (p + d + 2) = S * p + S * d + 2 * S /\ S * (p + d + 3) = S * p + S * d + 3 * S
  BY <1>1, <1>2
<1>5. CASE c <= p + d + 2
  <2>1. S * c <= S * (p + d + 2)
    BY <1>1, <1>2, <1>5
  <2>2. cur.start < S * p + S * d + 3 * S
    BY <1>1, <1>2, <1>4, <2>1
  <2>3. cur.start - (prev.start + prev.duration) < 3 * S
    BY <1>1, <1>2, <2>2
  <2> QED
    BY <1>1, <1>2, <1>3, <1>5, <2>3 DEF S
<1>6. CASE c >= p + d + 3
  <2>1. S * (p + d + 3) <= S * c
    BY <1>1, <1>2, <1>6
  <2>2. S * p + S * d + 3 * S <= cur.start
    BY <1>1, <1>2, <1>4, <2>1
  <2>3. cur.start - (prev.start + prev.duration) > S
    BY <1>1, <1>2, <2>2
  <2> QED
    BY <1>1, <1>2, <1>3, <1>6, <2>3 DEF S
<1> QED
  BY <1>2, <1>5, <1>6

-----------------------------------------------------------------------------
(* A zone as parseMotionZones leaves it. *)
WellFormed(z, gridX, gridY) ==
    /\ z.r1 \in 0 .. gridY - 1 /\ z.r2 \in 0 .. gridY - 1 /\ z.r1 <= z.r2
    /\ z.c1 \in 0 .. gridX - 1 /\ z.c2 \in 0 .. gridX - 1 /\ z.c1 <= z.c2
    /\ z.level \in 1 .. 10

(* Clamping keeps the bounds, and the order of two numbers. *)
LEMMA WithinBounds ==
  ASSUME NEW i \in Int, NEW lo \in Int, NEW hi \in Int, lo <= hi
  PROVE  /\ Within(i, lo, hi) \in lo .. hi
         /\ i \in lo .. hi => Within(i, lo, hi) = i
  BY DEF Within

(* The order. *)
LEMMA WithinMonotone ==
  ASSUME NEW i \in Int, NEW j \in Int, NEW lo \in Int, NEW hi \in Int, lo <= hi, i <= j
  PROVE  Within(i, lo, hi) <= Within(j, lo, hi)
  BY DEF Within

(* The grid of a camera is never empty and never finer than the samples,      *)
(* whatever its row says.                                                   *)
LEMMA GridInBounds ==
  ASSUME NEW value \in Int
  PROVE  /\ clampMotionGrid(value) \in GridMin .. GridMax
         /\ clampMotionGrid(value) \in 1 .. kSample
<1>1. GridMin \in Int /\ GridMax \in Int /\ GridMin <= GridMax /\ GridMin >= 1
      /\ GridMax <= kSample /\ kSample \in Int
  BY MotionZonesAssumption
<1>2. clampMotionGrid(value) \in GridMin .. GridMax
  BY <1>1, WithinBounds DEF clampMotionGrid
<1> QED
  BY <1>1, <1>2

(* However a zone was drawn, turned round and moved it lies in the grid. *)
LEMMA NormalizedIsWellFormed ==
  ASSUME NEW gridX \in Nat \ {0}, NEW gridY \in Nat \ {0}, NEW x \in DrawnZones
  PROVE  WellFormed(Normalized(x, gridX, gridY), gridX, gridY)
<1> DEFINE n == Normalized(x, gridX, gridY)
<1>1. /\ x.r1 \in Int /\ x.r2 \in Int /\ x.c1 \in Int /\ x.c2 \in Int /\ x.level \in Int
  BY DEF DrawnZones
<1>2. /\ Least(x.r1, x.r2) \in Int /\ Greatest(x.r1, x.r2) \in Int
      /\ Least(x.r1, x.r2) <= Greatest(x.r1, x.r2)
      /\ Least(x.c1, x.c2) \in Int /\ Greatest(x.c1, x.c2) \in Int
      /\ Least(x.c1, x.c2) <= Greatest(x.c1, x.c2)
  BY <1>1 DEF Least, Greatest
<1>3. n.r1 \in 0 .. gridY - 1 /\ n.r2 \in 0 .. gridY - 1 /\ n.r1 <= n.r2
  <2> DEFINE lo == Least(x.r1, x.r2)
             hi == Greatest(x.r1, x.r2)
  <2>1. n.r1 = Within(lo, 0, gridY - 1) /\ n.r2 = Within(hi, 0, gridY - 1)
    BY DEF Normalized
  <2>2. lo \in Int /\ hi \in Int /\ lo <= hi /\ gridY - 1 \in Int /\ 0 <= gridY - 1
    BY <1>2
  <2> HIDE DEF lo, hi, n
  <2> QED
    BY <2>1, <2>2, WithinBounds, WithinMonotone
<1>4. n.c1 \in 0 .. gridX - 1 /\ n.c2 \in 0 .. gridX - 1 /\ n.c1 <= n.c2
  <2> DEFINE lo == Least(x.c1, x.c2)
             hi == Greatest(x.c1, x.c2)
  <2>1. n.c1 = Within(lo, 0, gridX - 1) /\ n.c2 = Within(hi, 0, gridX - 1)
    BY DEF Normalized
  <2>2. lo \in Int /\ hi \in Int /\ lo <= hi /\ gridX - 1 \in Int /\ 0 <= gridX - 1
    BY <1>2
  <2> HIDE DEF lo, hi, n
  <2> QED
    BY <2>1, <2>2, WithinBounds, WithinMonotone
<1>5. n.level \in 1 .. 10
  <2>1. Within(x.level, 1, 10) \in 1 .. 10
    BY <1>1 DEF Within
  <2> QED
    BY <2>1 DEF Normalized
<1> QED
  BY <1>3, <1>4, <1>5 DEF WellFormed

(* However the zones were drawn, what is evaluated lies in the grid and has    *)
(* cells (RecordingTypes.hpp, parseMotionZones).                             *)
THEOREM ZonesLieInTheGrid ==
  ASSUME NEW gridX \in Nat \ {0}, NEW gridY \in Nat \ {0}, NEW zones \in SUBSET DrawnZones
  PROVE  \A z \in parseMotionZones(zones, gridX, gridY) : WellFormed(z, gridX, gridY)
BY NormalizedIsWellFormed DEF parseMotionZones

(* A zone of the grid has a cell. *)
LEMMA ZoneHasACell ==
  ASSUME NEW gridX \in Nat \ {0}, NEW gridY \in Nat \ {0}, NEW z,
         WellFormed(z, gridX, gridY)
  PROVE  cellCount(z) \in Nat \ {0}
<1> DEFINE a == z.r2 - z.r1 + 1
           b == z.c2 - z.c1 + 1
<1>1. a \in Nat \ {0} /\ b \in Nat \ {0}
  BY DEF WellFormed
<1>2. cellCount(z) = a * b
  BY DEF cellCount
<1> HIDE DEF a, b
<1> QED
  BY <1>1, <1>2

(* The number of cells a zone needs is the exact meaning of its level: a      *)
(* count of moved cells reaches it if and only if it is at least level * 10  *)
(* per cent of the zone.  It is at least one, so that a still picture never  *)
(* fires, and at most all of them, so that every level can be reached        *)
(* (RecordingTypes.hpp, needCells).                                          *)
THEOREM LevelsAreExact ==
  ASSUME NEW gridX \in Nat \ {0}, NEW gridY \in Nat \ {0}, NEW z,
         WellFormed(z, gridX, gridY)
  PROVE  /\ needCells(z) \in 1 .. cellCount(z)
         /\ \A moved \in Nat : moved >= needCells(z) <=> 10 * moved >= z.level * cellCount(z)
<1> DEFINE cells == cellCount(z)
           lv == z.level
           share == lv * cells
           need == (share + 9) \div 10
<1>1. lv \in 1 .. 10 /\ Within(lv, 1, 10) = lv
  BY DEF WellFormed, Within
<1>2. cells \in Nat \ {0}
  BY ZoneHasACell
<1>3. needCells(z) = Within(need, 1, cells)
  BY <1>1 DEF needCells
<1> HIDE DEF cells, lv
<1>4. share \in Nat /\ share >= cells /\ share <= 10 * cells
  BY <1>1, <1>2
<1> HIDE DEF share
<1>5. need \in Int /\ 10 * need >= share /\ 10 * need < share + 10
  BY <1>4
<1>6. need >= 1 /\ need <= cells
  BY <1>2, <1>4, <1>5
<1> HIDE DEF need
<1>7. needCells(z) = need
  BY <1>2, <1>3, <1>5, <1>6, WithinBounds
<1>8. \A moved \in Nat : moved >= need <=> 10 * moved >= share
  BY <1>4, <1>5
<1> QED
  BY <1>2, <1>5, <1>6, <1>7, <1>8 DEF cells, lv, share

(* The row (or column) of a sample: of g strips, the one it falls into. *)
LEMMA StripOfASample ==
  ASSUME NEW k \in Nat \ {0}, NEW g \in 1 .. k, NEW y \in 0 .. k - 1
  PROVE  (g * y) \div k \in 0 .. g - 1
<1> DEFINE q == (g * y) \div k
<1>1. g * y \in Nat /\ g * y <= g * (k - 1)
  OBVIOUS
<1>2. q \in Int /\ k * q <= g * y /\ g * y < k * q + k
  BY <1>1
<1> HIDE DEF q
<1>3. q >= 0
  <2>1. CASE q < 0
    <3>1. k * (q + 1) <= 0 /\ k * (q + 1) = k * q + k
      BY <1>2, <2>1
    <3> QED
      BY <1>1, <1>2, <3>1
  <2> QED
    BY <1>2, <2>1
<1>4. q <= g - 1
  <2>1. CASE q >= g
    <3>1. k * g <= k * q
      BY <1>2, <2>1
    <3>2. g * (k - 1) = k * g - g
      OBVIOUS
    <3> QED
      BY <1>1, <1>2, <3>1, <3>2
  <2> QED
    BY <1>2, <2>1
<1> QED
  BY <1>2, <1>3, <1>4 DEF q

(* No strip is without samples, as long as there are no more strips than      *)
(* samples.                                                                 *)
LEMMA StripHasASample ==
  ASSUME NEW k \in Nat \ {0}, NEW g \in 1 .. k, NEW r \in 0 .. g - 1
  PROVE  \E y \in 0 .. k - 1 : (g * y) \div k = r
<1> DEFINE m == r * k + g - 1
           y == m \div g
<1>1. m \in Nat
  OBVIOUS
<1>2. y \in Int /\ g * y <= m /\ m < g * y + g
  BY <1>1
<1>3. r * k <= g * y /\ g * y <= r * k + g - 1 /\ g * y < r * k + k
  <2> HIDE DEF y
  <2> QED
    BY <1>2
<1>4. y \in 0 .. k - 1
  <2>1. r * k >= 0 /\ r * k <= (g - 1) * k
    OBVIOUS
  <2>2. (g - 1) * k + g - 1 < g * k
    OBVIOUS
  <2>3. 0 <= g * y /\ g * y < g * k
    <3> HIDE DEF y
    <3> QED
      BY <1>2, <1>3, <2>1, <2>2
  <2> HIDE DEF y
  <2>4. CASE y < 0
    BY <1>2, <2>3, <2>4
  <2>5. CASE y >= k
    BY <1>2, <2>3, <2>5
  <2> QED
    BY <1>2, <2>4, <2>5
<1>5. (g * y) \div k = r
  <2> HIDE DEF y
  <2> DEFINE q == (g * y) \div k
  <2>1. g * y \in Int
    BY <1>2
  <2>2. q \in Int /\ k * q <= g * y /\ g * y < k * q + k
    BY <2>1
  <2> HIDE DEF q
  <2>3. k * r <= g * y /\ g * y < k * r + k
    BY <1>2, <1>3
  <2>4. CASE q < r
    <3>1. k * (q + 1) <= k * r /\ k * (q + 1) = k * q + k
      BY <2>2, <2>4
    <3> QED
      BY <2>1, <2>2, <2>3, <3>1
  <2>5. CASE q > r
    <3>1. k * (r + 1) <= k * q /\ k * (r + 1) = k * r + k
      BY <2>2, <2>5
    <3> QED
      BY <2>1, <2>2, <2>3, <3>1
  <2> QED
    BY <2>2, <2>4, <2>5 DEF q
<1> QED
  BY <1>4, <1>5

(* The grid of a camera covers the picture and has no blind cell: every       *)
(* sample falls into a cell of the grid, and every cell has a sample, so     *)
(* that it can move (MotionDetector.hpp, submit).                            *)
THEOREM NoBlindCells ==
  ASSUME NEW x \in Int, NEW y \in Int
  PROVE  LET gridX == clampMotionGrid(x)
             gridY == clampMotionGrid(y)
             cells == (0 .. gridY - 1) \X (0 .. gridX - 1)
         IN  /\ \A p \in Samples : CellOf(p, gridX, gridY) \in cells
             /\ \A cell \in cells : \E p \in Samples : CellOf(p, gridX, gridY) = cell
<1> DEFINE gridX == clampMotionGrid(x)
           gridY == clampMotionGrid(y)
<1>1. kSample \in Nat \ {0} /\ gridX \in 1 .. kSample /\ gridY \in 1 .. kSample
  BY GridInBounds, MotionZonesAssumption
<1> HIDE DEF gridX, gridY
<1>2. ASSUME NEW p \in Samples
      PROVE  CellOf(p, gridX, gridY) \in (0 .. gridY - 1) \X (0 .. gridX - 1)
  <2>1. p[1] \in 0 .. kSample - 1 /\ p[2] \in 0 .. kSample - 1
    BY DEF Samples
  <2>2. (gridY * p[1]) \div kSample \in 0 .. gridY - 1
    BY <1>1, <2>1, StripOfASample
  <2>3. (gridX * p[2]) \div kSample \in 0 .. gridX - 1
    BY <1>1, <2>1, StripOfASample
  <2> QED
    BY <2>2, <2>3 DEF CellOf
<1>3. ASSUME NEW cell \in (0 .. gridY - 1) \X (0 .. gridX - 1)
      PROVE  \E p \in Samples : CellOf(p, gridX, gridY) = cell
  <2>1. PICK a \in 0 .. kSample - 1 : (gridY * a) \div kSample = cell[1]
    BY <1>1, StripHasASample
  <2>2. PICK b \in 0 .. kSample - 1 : (gridX * b) \div kSample = cell[2]
    BY <1>1, StripHasASample
  <2>3. <<a, b>> \in Samples
    BY DEF Samples
  <2>4. CellOf(<<a, b>>, gridX, gridY) = cell
    BY <2>1, <2>2 DEF CellOf
  <2> QED
    BY <2>3, <2>4
<1> QED
  BY <1>2, <1>3 DEF gridX, gridY

-----------------------------------------------------------------------------
(* Every set of places has a first one. *)
LEMMA FirstExists ==
  ASSUME NEW S \in SUBSET Nat, S # {}
  PROVE  \E i \in S : i = (CHOOSE k \in S : \A j \in S : k <= j) /\ \A j \in S : i <= j
<1>1. \E x \in S : \A y \in S : ~ (<<y, x>> \in OpToRel(<, Nat))
  BY NatLessThanWellFounded, WFMin
<1>2. \A x, y \in Nat : y < x => <<y, x>> \in OpToRel(<, Nat)
  BY DEF OpToRel
<1>3. \E x \in S : \A y \in S : ~ (y < x)
  BY <1>1, <1>2, Zenon
<1>4. \E x \in S : \A y \in S : x <= y
  BY <1>3
<1> QED
  BY <1>4

(* The payload type that is picked is one of the offer for that codec, a      *)
(* usable one if there is any, and of those one of packetization-mode 1 if  *)
(* that is preferred and there is any.                                      *)
LEMMA PickedFromOffer ==
  ASSUME NEW offer \in Seq([codec : Codecs, pt : Nat, mode1 : BOOLEAN]), NEW codec,
         NEW prefer \in BOOLEAN
  PROVE  LET of == {i \in DOMAIN offer : offer[i].codec = codec}
             usable == {i \in of : payloadTypeUsable(offer[i].pt)}
             mode1 == {i \in usable : offer[i].mode1}
             pt == pickPayloadType(offer, codec, prefer)
         IN  /\ of = {} => pt = NoPt
             /\ of # {} => \E i \in of : /\ pt = offer[i].pt
                                         /\ usable # {} => i \in usable
                                         /\ prefer /\ mode1 # {} => i \in mode1
<1> DEFINE of == {i \in DOMAIN offer : offer[i].codec = codec}
           usable == {i \in of : payloadTypeUsable(offer[i].pt)}
           mode1 == {i \in usable : offer[i].mode1}
           among == IF prefer /\ mode1 # {} THEN mode1 ELSE IF usable # {} THEN usable ELSE of
<1>1. pickPayloadType(offer, codec, prefer) = FirstPt(offer, among)
  BY DEF pickPayloadType
<1>2. of \subseteq Nat /\ usable \subseteq of /\ mode1 \subseteq usable
  OBVIOUS
<1> HIDE DEF of, usable, mode1
<1>3. among \in SUBSET Nat /\ among \subseteq of /\ (among = {} <=> of = {})
  BY <1>2
<1>4. /\ usable # {} => among \subseteq usable
      /\ prefer /\ mode1 # {} => among \subseteq mode1
  BY <1>2
<1>5. CASE of = {}
  BY <1>1, <1>3, <1>5 DEF FirstPt, of
<1>6. CASE of # {}
  <2> HIDE DEF among
  <2>1. PICK i \in among : i = CHOOSE k \in among : \A j \in among : k <= j
    BY <1>3, <1>6, FirstExists
  <2>2. FirstPt(offer, among) = offer[i].pt
    BY <2>1 DEF FirstPt
  <2>3. /\ i \in of /\ pickPayloadType(offer, codec, prefer) = offer[i].pt
        /\ usable # {} => i \in usable
        /\ prefer /\ mode1 # {} => i \in mode1
    BY <1>1, <1>3, <1>4, <2>1, <2>2
  <2> QED
    BY <1>6, <2>3 DEF of, usable, mode1
<1> QED
  BY <1>5, <1>6

(* What a session decides from an offer can be played. *)
LEMMA AnswerIsPlayable ==
  ASSUME NEW of \in Offers
  PROVE  Playable(of, Negotiated(of.lines, of.camera, of.sharedAlive, of.rewrite))
<1> DEFINE offer == of.lines
           lines == Range(offer)
           offered(codec) == {x.pt : x \in {y \in lines : y.codec = codec}}
           sendable == {pt \in offered("H265") : payloadTypeUsable(pt) \/ of.rewrite}
           p265 == pickPayloadType(offer, "H265", FALSE)
           p264 == pickPayloadType(offer, "H264", TRUE)
           through == PassthroughPt(offer, of.rewrite)
           preferable == \E x \in lines : /\ x.codec = "H264" /\ x.mode1
                                          /\ payloadTypeUsable(x.pt)
           preferred(pt) == \E x \in lines : x.codec = "H264" /\ x.pt = pt /\ x.mode1
<1>1. /\ offer \in Seq([codec : Codecs, pt : Nat, mode1 : BOOLEAN])
      /\ of.camera \in Codecs /\ of.sharedAlive \in BOOLEAN /\ of.rewrite \in BOOLEAN
  BY DEF Offers
<1>2. /\ \A i \in DOMAIN offer : offer[i] \in lines /\ offer[i].pt \in Nat
      /\ \A x \in lines : \E i \in DOMAIN offer : offer[i] = x
  <2>1. lines = {offer[i] : i \in DOMAIN offer}
    BY DEF Range
  <2> HIDE DEF offer, lines
  <2>2. \A i \in DOMAIN offer : offer[i] \in [codec : Codecs, pt : Nat, mode1 : BOOLEAN]
    <3>1. \A T : offer \in Seq(T) => \A i \in DOMAIN offer : offer[i] \in T
      OBVIOUS
    <3> QED
      BY <1>1, <3>1
  <2> QED
    BY <2>1, <2>2
<1> HIDE DEF offer, lines
<1>3. \A pt : payloadTypeUsable(pt) <=> pt \in DynMin .. DynMax
  BY DEF payloadTypeUsable
<1>4. payloadTypeUsable(kPayloaderInternalPt) /\ ~payloadTypeUsable(NoPt)
  BY NegotiationAssumption DEF payloadTypeUsable, NoPt
<1>5. /\ p265 = NoPt \/ (p265 \in offered("H265") /\ p265 \in Nat)
      /\ p265 = NoPt => offered("H265") = {}
      /\ (\E pt \in offered("H265") : payloadTypeUsable(pt)) => payloadTypeUsable(p265)
  <2> DEFINE at == {i \in DOMAIN offer : offer[i].codec = "H265"}
             usable == {i \in at : payloadTypeUsable(offer[i].pt)}
  <2>1. /\ at = {} => p265 = NoPt
        /\ at # {} => \E i \in at : p265 = offer[i].pt /\ (usable # {} => i \in usable)
    BY <1>1, PickedFromOffer
  <2>2. at = {} => offered("H265") = {}
    BY <1>2
  <2>3. (\E pt \in offered("H265") : payloadTypeUsable(pt)) => usable # {}
    BY <1>2
  <2>4. \A i \in at : offer[i].pt \in offered("H265") /\ offer[i].pt \in Nat
    BY <1>2
  <2> HIDE DEF offered, p265
  <2>5. \A i \in usable : i \in at /\ payloadTypeUsable(offer[i].pt)
    OBVIOUS
  <2>6. \A i \in at : offer[i].pt # NoPt
    BY <2>4 DEF NoPt
  <2> HIDE DEF at, usable
  <2> QED
    BY <2>1, <2>2, <2>3, <2>4, <2>5, <2>6
<1>6. /\ p264 = NoPt \/ (p264 \in offered("H264") /\ p264 \in Nat)
      /\ p264 = NoPt => offered("H264") = {}
      /\ p264 # NoPt /\ preferable => preferred(p264)
  <2> DEFINE at == {i \in DOMAIN offer : offer[i].codec = "H264"}
             usable == {i \in at : payloadTypeUsable(offer[i].pt)}
             mode1 == {i \in usable : offer[i].mode1}
  <2>1. /\ at = {} => p264 = NoPt
        /\ at # {} => \E i \in at : p264 = offer[i].pt /\ (mode1 # {} => i \in mode1)
    BY <1>1, PickedFromOffer
  <2>2. at = {} => offered("H264") = {}
    BY <1>2
  <2>3. preferable => mode1 # {}
    BY <1>2
  <2>4. \A i \in at : offer[i].pt \in offered("H264") /\ offer[i].pt \in Nat
    BY <1>2
  <2>5. \A i \in mode1 : preferred(offer[i].pt)
    BY <1>2
  <2>6. \A i \in at : offer[i].pt # NoPt
    BY <2>4 DEF NoPt
  <2> HIDE DEF offered, p264, preferable, preferred, at, mode1
  <2> QED
    BY <2>1, <2>2, <2>3, <2>4, <2>5, <2>6
<1>7. /\ through = NoPt <=> sendable = {}
      /\ through # NoPt => through \in offered("H265") /\ through \in Nat
  <2>1. through = IF ~payloadTypeUsable(p265) /\ ~of.rewrite THEN NoPt ELSE p265
    BY DEF PassthroughPt, offer
  <2>2. sendable = {} <=> \A pt \in offered("H265") : ~payloadTypeUsable(pt) /\ ~of.rewrite
    BY <1>1
  <2> HIDE DEF p265, offered, sendable, through
  <2> QED
    BY <1>1, <1>4, <1>5, <2>1, <2>2
<1> DEFINE c == Choice(offer, of.camera, of.sharedAlive, of.rewrite)
           given == Negotiated(offer, of.camera, of.sharedAlive, of.rewrite)
           l == given.launch
<1>8. /\ c.shared \in BOOLEAN /\ c.transcode \in BOOLEAN /\ c.sourceH265 \in BOOLEAN
      /\ c.shared \/ c.transcode <=> of.camera = "H265" /\ through = NoPt
      /\ ~(c.shared /\ c.transcode)
      /\ c.sourceH265 <=> of.camera = "H265" /\ ~c.shared
      /\ c.pt = IF of.camera = "H265" /\ through # NoPt THEN through ELSE p264
  <2>1. through >= 0 <=> through # NoPt
    BY <1>7 DEF NoPt
  <2> HIDE DEF through, p264
  <2> QED
    BY <1>1, <2>1 DEF Choice, through, p264
<1>9. /\ given.ok <=> c.pt # NoPt
      /\ given.ok => given.choice = c /\ l = buildLaunch(c)
  <2> HIDE DEF c, through, p264, offered
  <2>1. c.pt < 0 <=> c.pt = NoPt
    <3>1. c.pt = through \/ c.pt = p264
      BY <1>8
    <3>2. c.pt \in Nat \/ c.pt = NoPt
      BY <1>6, <1>7, <3>1
    <3> QED
      BY <3>2 DEF NoPt
  <2> QED
    BY <2>1 DEF Negotiated, c
<1> HIDE DEF c, given, through, p264, p265, offered, sendable, preferable, preferred
<1>10. ASSUME given.ok
       PROVE  /\ l.wirePt \in offered(l.encoding) /\ l.capsPt = l.wirePt
              /\ payloadTypeUsable(l.payPt)
              /\ l.source = IF given.choice.shared THEN "H264" ELSE of.camera
              /\ l.encoding = IF l.transcode THEN "H264" ELSE l.source
              /\ (given.choice.shared \/ l.transcode) <=> (of.camera = "H265" /\ sendable = {})
              /\ l.encoding = "H264" /\ preferable => preferred(l.wirePt)
  <2>1. given.choice = c /\ l = buildLaunch(c) /\ c.pt # NoPt
    BY <1>9, <1>10
  <2>2. /\ l.capsPt = c.pt /\ l.wirePt = c.pt /\ payloadTypeUsable(l.payPt)
        /\ l.source = IF c.sourceH265 THEN "H265" ELSE "H264"
        /\ l.encoding = IF c.sourceH265 /\ ~c.transcode THEN "H265" ELSE "H264"
        /\ l.transcode = c.transcode
    BY <1>4, <2>1 DEF buildLaunch
  <2>3. of.camera = "H264" \/ of.camera = "H265"
    BY <1>1 DEF Codecs
  <2> HIDE DEF l
  <2>4. CASE of.camera = "H265" /\ through # NoPt
    BY <1>7, <1>8, <2>1, <2>2, <2>4
  <2>5. CASE of.camera = "H265" /\ through = NoPt
    BY <1>6, <1>7, <1>8, <2>1, <2>2, <2>5
  <2>6. CASE of.camera = "H264"
    BY <1>6, <1>8, <2>1, <2>2, <2>6
  <2> QED
    BY <2>3, <2>4, <2>5, <2>6
<1>11. ASSUME ~given.ok
       PROVE  offered("H264") = {} /\ (of.camera = "H265" => sendable = {})
  BY <1>6, <1>7, <1>8, <1>9, <1>11
<1> HIDE DEF l
<1> QED
  BY <1>10, <1>11 DEF Playable, l, given, offered, sendable, preferable, preferred, lines, offer

-----------------------------------------------------------------------------
(* An operation answers the call it was made for and leaves it as it was. *)
LEMMA OneCall ==
  ASSUME Next
  PROVE  /\ input' = input /\ result'.done
         /\ Returned("decode")' => Decode
         /\ Returned("pose")' => Pose
         /\ Returned("suppress")' => Suppress
         /\ Returned("mask")' => PaintMask
         /\ Returned("stages")' => StartJob
         /\ Returned("zones")' => NotePicture
         /\ Returned("playlist")' => Playlist
         /\ Returned("thumbnail")' => Thumbnail
         /\ Returned("range")' => GetFile
         /\ Returned("offer")' => Offer
<1> USE DEF Called, Returned
<1>1. ASSUME NEW r, Returns(r)
      PROVE  input' = input /\ result'.done
  BY <1>1 DEF Returns
<1>2. CASE Decode
  BY <1>1, <1>2 DEF Decode
<1>3. CASE Pose
  BY <1>1, <1>3 DEF Pose
<1>4. CASE Suppress
  <2>1. PICK order \in SortedOrders(input.of.dets) :
           LET left == sort_and_nms(input.of.dets, order, input.of.num, input.of.den)
           IN  Returns([left |-> left, kept |-> fill_box_result(left)])
    BY <1>4 DEF Suppress
  <2> QED
    BY <1>1, <1>4, <2>1 DEF Suppress
<1>5. CASE PaintMask
  BY <1>1, <1>5 DEF PaintMask
<1>6. CASE StartJob
  BY <1>1, <1>6 DEF StartJob
<1>7. CASE NotePicture
  BY <1>1, <1>7 DEF NotePicture
<1>8. CASE Playlist
  BY <1>1, <1>8 DEF Playlist
<1>9. CASE Thumbnail
  BY <1>1, <1>9 DEF Thumbnail
<1>10. CASE GetFile
  BY <1>1, <1>10 DEF GetFile
<1>11. CASE Offer
  BY <1>1, <1>11 DEF Offer
<1> QED
  BY <1>2, <1>3, <1>4, <1>5, <1>6, <1>7, <1>8, <1>9, <1>10, <1>11 DEF Next

(* A call stays one there is. *)
THEOREM CallsStayLegal == Spec => []Legal(input)
<1>1. Init => Legal(input)
  BY DEF Init
<1>2. Legal(input) /\ [Next]_vars => Legal(input)'
  BY OneCall DEF Legal, vars
<1> QED
  BY <1>1, <1>2, PTL DEF Spec

(* Every answer a browser is given can be played, and an offer is refused     *)
(* only when nothing of it could be sent, for every offer, range of dynamic *)
(* payload types and camera (WebRtcSession.hpp, start and buildLaunch).      *)
THEOREM AnswersAlwaysFit == Spec => []AnswerFitsOffer
<1>1. Init => AnswerFitsOffer
  <2>1. Init => ~result.done
    BY DEF Init, NotYet
  <2> QED
    BY <2>1 DEF AnswerFitsOffer, Returned
<1>2. ASSUME Legal(input), AnswerFitsOffer, [Next]_vars
      PROVE  AnswerFitsOffer'
  <2>1. CASE UNCHANGED vars
    BY <1>2, <2>1 DEF AnswerFitsOffer, Returned, vars
  <2>2. CASE Next /\ ~Returned("offer")'
    BY <2>2 DEF AnswerFitsOffer
  <2>3. CASE Next /\ Returned("offer")'
    <3> DEFINE of == input.of
               given == Negotiated(of.lines, of.camera, of.sharedAlive, of.rewrite)
               tried == addRemoteCandidatesFromSdp(of.candidates, of.hint)
    <3>1. /\ input' = input /\ input.task = "offer"
          /\ result'.of = [answer |-> given, candidates |-> tried]
      BY <2>3, OneCall DEF Offer, Called, Returns
    <3>2. of \in Offers
      BY <1>2, <3>1 DEF Legal
    <3>3. DOMAIN tried = DOMAIN of.candidates
      BY DEF addRemoteCandidatesFromSdp
    <3>4. of.hint # "" => "local" \notin Range(tried)
      <4>1. of.hint # "local"
        BY <3>2 DEF Offers
      <4>2. \A i \in DOMAIN tried : of.hint # "" => tried[i] # "local"
        BY <4>1 DEF addRemoteCandidatesFromSdp, rewriteMdnsCandidate
      <4> HIDE DEF tried
      <4> QED
        BY <4>2 DEF Range
    <3>5. result'.of.answer = given /\ result'.of.candidates = tried
      BY <3>1
    <3> HIDE DEF of, given, tried
    <3>6. /\ input'.of = of
          /\ DOMAIN result'.of.candidates = DOMAIN of.candidates
          /\ of.hint # "" => "local" \notin Range(result'.of.candidates)
      BY <3>1, <3>3, <3>4, <3>5 DEF of
    <3>7. Playable(of, given)
      BY <3>2, AnswerIsPlayable DEF given
    <3> QED
      BY <3>5, <3>6, <3>7 DEF AnswerFitsOffer
  <2> QED
    BY <1>2, <2>1, <2>2, <2>3
<1> QED
  BY <1>1, <1>2, CallsStayLegal, PTL DEF Spec

-----------------------------------------------------------------------------
(* Counting up from 1 reaches everything. *)
LEMMA CountingUp ==
  ASSUME NEW n \in Nat, NEW S, 1 \in S, \A m \in 2 .. n : m - 1 \in S => m \in S
  PROVE  1 .. n \subseteq S
<1> DEFINE Rest == (1 .. n) \ S
<1> SUFFICES ASSUME Rest # {} PROVE FALSE
  OBVIOUS
<1>1. Rest \in SUBSET Nat
  OBVIOUS
<1>2. PICK x \in Rest : \A y \in Rest : x <= y
  <2> HIDE DEF Rest
  <2> QED
    BY <1>1, FirstExists
<1>3. x \in 1 .. n /\ x \notin S /\ x # 1
  OBVIOUS
<1>4. x \in 2 .. n /\ x - 1 < x /\ x - 1 \in 1 .. n
  BY <1>3
<1> QED
  BY <1>2, <1>3, <1>4

(* Of the places of a sequence one has the greatest number. *)
LEMMA LatestExists ==
  ASSUME NEW n \in Nat, NEW S \in SUBSET (1 .. n), S # {},
         NEW f, \A i \in S : f[i] \in Int
  PROVE  \E i \in S : \A j \in S : f[j] <= f[i]
<1> DEFINE Upto(m) == S \cap (1 .. m)
           Done == {m \in 1 .. n :
                       \/ Upto(m) = {}
                       \/ \E i \in Upto(m) : \A j \in Upto(m) : f[j] <= f[i]}
<1>0. n >= 1
  <2>1. PICK i \in S : i \in 1 .. n
    OBVIOUS
  <2> QED
    BY <2>1
<1>1. 1 \in Done
  <2>1. 1 \in 1 .. n /\ Upto(1) \subseteq {1}
    BY <1>0
  <2> HIDE DEF Upto
  <2>2. \A i \in Upto(1) : i = 1 /\ f[1] \in Int
    BY <2>1 DEF Upto
  <2> QED
    BY <2>1, <2>2
<1>2. ASSUME NEW m \in 2 .. n, m - 1 \in Done
      PROVE  m \in Done
  <2>1. Upto(m) = IF m \in S THEN Upto(m - 1) \cup {m} ELSE Upto(m - 1)
    OBVIOUS
  <2>2. \A i \in Upto(m) : f[i] \in Int
    OBVIOUS
  <2>3. Upto(m - 1) = {} \/ \E i \in Upto(m - 1) : \A j \in Upto(m - 1) : f[j] <= f[i]
    BY <1>2
  <2> SUFFICES Upto(m) = {} \/ \E i \in Upto(m) : \A j \in Upto(m) : f[j] <= f[i]
    OBVIOUS
  <2> HIDE DEF Upto, Done
  <2>4. CASE m \notin S
    BY <2>1, <2>3, <2>4
  <2>5. CASE m \in S /\ Upto(m - 1) = {}
    BY <2>1, <2>2, <2>5
  <2>6. CASE m \in S /\ Upto(m - 1) # {}
    <3>1. PICK i \in Upto(m - 1) : \A j \in Upto(m - 1) : f[j] <= f[i]
      BY <2>3, <2>6
    <3>2. f[i] \in Int /\ f[m] \in Int
      BY <2>1, <2>2, <2>6
    <3>3. CASE f[m] <= f[i]
      BY <2>1, <2>6, <3>1, <3>3
    <3>4. CASE f[i] < f[m]
      <4>1. \A j \in Upto(m) : f[j] <= f[m]
        BY <2>1, <2>2, <2>6, <3>1, <3>2, <3>4
      <4> QED
        BY <2>1, <2>6, <4>1
    <3> QED
      BY <3>2, <3>3, <3>4
  <2> QED
    BY <2>4, <2>5, <2>6
<1>3. 1 .. n \subseteq Done
  <2> HIDE DEF Done
  <2> QED
    BY <1>1, <1>2, CountingUp
<1>4. n \in Done /\ Upto(n) = S
  <2>0. S \cap (1 .. n) = S
    OBVIOUS
  <2>1. n \in 1 .. n /\ Upto(n) = S
    BY <1>0, <2>0
  <2> HIDE DEF Done, Upto
  <2> QED
    BY <1>3, <2>1
<1> QED
  BY <1>4

(* No segment is longer than the target of its playlist. *)
LEMMA TargetIsLongest ==
  ASSUME NEW segments \in Seq(Segments), NEW i \in DOMAIN segments
  PROVE  segments[i].duration <= targetDurationSeconds(segments) * Second
<1> DEFINE ceil == [j \in DOMAIN segments |->
                      (NonNegative(segments[j].duration) + Second - 1) \div Second]
           seconds == {1} \cup {ceil[j] : j \in DOMAIN segments}
           n == Len(segments)
           target == targetDurationSeconds(segments)
<1>1. n \in Nat /\ DOMAIN segments = 1 .. n
  OBVIOUS
<1>2. ASSUME NEW j \in DOMAIN segments
      PROVE  ceil[j] \in Nat /\ segments[j].duration <= Second * ceil[j]
  <2> DEFINE d == segments[j].duration
             t == NonNegative(d) + Second - 1
  <2>0. \A T : segments \in Seq(T) => segments[j] \in T
    OBVIOUS
  <2>1. segments[j] \in Segments
    BY <2>0
  <2>2. d \in Int /\ Second \in Nat \ {0}
    BY <2>1, RecordedTimeAssumption DEF Segments
  <2> HIDE DEF d
  <2>3. t \in Nat /\ t >= d + Second - 1
    BY <2>2 DEF NonNegative
  <2>4. ceil[j] = t \div Second
    BY DEF d
  <2> HIDE DEF t, ceil
  <2>5. t \div Second \in Nat /\ t < Second * (t \div Second) + Second
    BY <2>3, Seconds
  <2>6. Second * ceil[j] \in Int
    BY <2>2, <2>4, <2>5
  <2>7. d <= Second * ceil[j]
    BY <2>2, <2>3, <2>4, <2>5, <2>6
  <2> QED
    BY <2>4, <2>5, <2>7 DEF d
<1>3. target = CHOOSE t \in seconds : \A s \in seconds : s <= t
  BY DEF targetDurationSeconds
<1> HIDE DEF ceil, n
<1>4. PICK k \in 1 .. n : \A j \in 1 .. n : ceil[j] <= ceil[k]
  <2>1. 1 .. n \in SUBSET (1 .. n) /\ 1 .. n # {} /\ \A j \in 1 .. n : ceil[j] \in Int
    BY <1>1, <1>2
  <2> QED
    BY <1>1, <2>1, LatestExists
<1>5. \E t \in seconds : \A s \in seconds : s <= t
  <2>1. ceil[k] \in Nat
    BY <1>1, <1>2
  <2>2. CASE ceil[k] >= 1
    BY <1>1, <1>4, <2>1, <2>2
  <2>3. CASE ceil[k] = 0
    BY <1>1, <1>2, <1>4, <2>1, <2>3
  <2> QED
    BY <2>1, <2>2, <2>3
<1>6. target \in seconds /\ \A s \in seconds : s <= target
  <2> HIDE DEF target, seconds
  <2> QED
    BY <1>3, <1>5
<1>7. target \in Nat /\ ceil[i] <= target
  BY <1>2, <1>6
<1> HIDE DEF target, seconds
<1>8. Second * ceil[i] <= target * Second /\ Second * ceil[i] \in Int /\ target * Second \in Int
  BY <1>2, <1>7, RecordedTimeAssumption
<1>9. segments[i].duration \in Int
  <2>1. \A T : segments \in Seq(T) => segments[i] \in T
    OBVIOUS
  <2> QED
    BY <2>1 DEF Segments
<1> QED
  BY <1>2, <1>8, <1>9 DEF target

(* Breaks stand where they belong in the playlist of any segments. *)
LEMMA PlaylistIsMarked ==
  ASSUME NEW segments \in Seq(Segments)
  PROVE  BreaksAreMarked(segments, buildVodPlaylist(segments))
<1> DEFINE list == buildVodPlaylist(segments)
<1>1. \A i \in DOMAIN segments : segments[i].duration <= list.target * Second
  BY TargetIsLongest DEF buildVodPlaylist
<1>2. ASSUME NEW i \in 2 .. Len(segments)
      PROVE  LET prev == segments[i - 1]
                 cur == segments[i]
                 marked == list.entries[i].discontinuity
                 timed == prev.start >= 0 /\ cur.start >= 0 /\ prev.duration >= 0
             IN  /\ prev.session # cur.session => marked
                 /\ timed /\ Gap(prev, cur) >= 3 * Second => marked
                 /\ prev.session = cur.session /\ timed /\ Gap(prev, cur) <= Second => ~marked
  <2> DEFINE prev == segments[i - 1]
             cur == segments[i]
             marked == list.entries[i].discontinuity
             timed == prev.start >= 0 /\ cur.start >= 0 /\ prev.duration >= 0
  <2>1. i \in DOMAIN segments /\ i - 1 \in DOMAIN segments /\ i > 1
    OBVIOUS
  <2>2. \A T : segments \in Seq(T) => prev \in T /\ cur \in T
    BY <2>1
  <2>3. prev \in Segments /\ cur \in Segments
    BY <2>2
  <2>4. list.entries[i] = [segment |-> cur,
                           discontinuity |->
                               i > 1 /\ (SessionChanged(prev, cur) \/ WallGap(prev, cur))]
    BY <2>1 DEF buildVodPlaylist
  <2> HIDE DEF list, prev, cur
  <2>5. marked <=> SessionChanged(prev, cur) \/ WallGap(prev, cur)
    <3>1. marked = (i > 1 /\ (SessionChanged(prev, cur) \/ WallGap(prev, cur)))
      BY <2>4
    <3> QED
      BY <2>1, <3>1
  <2> HIDE DEF marked
  <2>6. prev.session # cur.session <=> SessionChanged(prev, cur)
    BY DEF SessionChanged
  <2>7. timed => /\ Gap(prev, cur) >= 3 * Second => WallGap(prev, cur)
                 /\ Gap(prev, cur) <= Second => ~WallGap(prev, cur)
    <3>1. ASSUME timed
          PROVE  prev.start \in Nat /\ prev.duration \in Nat /\ cur.start \in Nat
      BY <2>3, <3>1 DEF Segments
    <3>2. Gap(prev, cur) = cur.start - (prev.start + prev.duration)
      BY DEF Gap
    <3> HIDE DEF timed
    <3> QED
      BY <3>1, <3>2, GapsAreMarked
  <2> HIDE DEF timed
  <2>8. /\ prev.session # cur.session => marked
        /\ timed /\ Gap(prev, cur) >= 3 * Second => marked
        /\ prev.session = cur.session /\ timed /\ Gap(prev, cur) <= Second => ~marked
    BY <2>5, <2>6, <2>7
  <2> QED
    BY <2>8 DEF timed, marked, prev, cur
<1> HIDE DEF list
<1> QED
  BY <1>1, <1>2 DEF BreaksAreMarked, list

(* The bytes of an answer are the ones that were asked for. *)
LEMMA RangeIsExact ==
  ASSUME NEW header \in Headers, NEW size \in Nat
  PROVE  BytesAreExact(header, size, getRecordingFile(header, size))
<1> DEFINE answer == getRecordingFile(header, size)
<1>1. /\ Answered(answer) = RequestedBytes(header, size)
      /\ answer.status = 416 <=> header.kind # "whole" /\ RequestedBytes(header, size) = {}
      /\ answer.status = 200 <=> header.kind = "whole"
  BY RangeIsAnswered
<1>2. answer.start \in Int /\ answer.length \in Int
  <2>1. header.from \in Nat /\ header.to \in Nat
    BY DEF Headers
  <2>2. parseByteRange(header, size).present /\ parseByteRange(header, size).satisfiable =>
              /\ parseByteRange(header, size).start \in Int
              /\ parseByteRange(header, size).end \in Int
    BY <2>1 DEF parseByteRange, Headers, NotPresent, SuffixRange, Unsatisfiable, FromRange
  <2> QED
    BY <2>2 DEF getRecordingFile
<1> HIDE DEF answer
<1>3. {answer.start + b : b \in 0 .. answer.length - 1} = Answered(answer)
  <2>1. ASSUME NEW x \in Answered(answer)
        PROVE  \E b \in 0 .. answer.length - 1 : x = answer.start + b
    <3>1. x - answer.start \in 0 .. answer.length - 1 /\ x = answer.start + (x - answer.start)
      BY <1>2 DEF Answered
    <3> QED
      BY <3>1
  <2>2. \A b \in 0 .. answer.length - 1 : answer.start + b \in Answered(answer)
    BY <1>2 DEF Answered
  <2> QED
    BY <2>1, <2>2
<1> QED
  BY <1>1, <1>3 DEF BytesAreExact, answer

(* The row a thumbnail is taken from: of those that were loaded and began in   *)
(* time, one that contains the time if there is one, and else a last one.    *)
LEMMA RowIsChosen ==
  ASSUME NEW rows \in Seq(Rows), NEW at \in Int, NEW loaded \in SUBSET DOMAIN rows
  PROVE  LET chosen == ChosenRow(rows, loaded, at)
             before == {i \in loaded : rows[i].start <= at}
         IN  /\ chosen = 0 <=> before = {}
             /\ chosen # 0 =>
                  /\ chosen \in before
                  /\ (\E i \in loaded : RowContains(rows[i], at)) => RowContains(rows[chosen], at)
                  /\ (\A i \in loaded : ~RowContains(rows[i], at)) =>
                        \A i \in before : rows[i].start <= rows[chosen].start
<1> DEFINE n == Len(rows)
           containing == {i \in loaded : RowContains(rows[i], at)}
           before == {i \in loaded : rows[i].start <= at}
           latest == {i \in before : \A j \in before : rows[j].start <= rows[i].start}
           fits == IF containing # {} THEN containing ELSE latest
           chosen == ChosenRow(rows, loaded, at)
<1>1. n \in Nat /\ DOMAIN rows = 1 .. n /\ \A i \in DOMAIN rows : rows[i].start \in Int
  <2>1. \A T : rows \in Seq(T) => \A i \in DOMAIN rows : rows[i] \in T
    OBVIOUS
  <2>2. \A i \in DOMAIN rows : rows[i] \in Rows
    BY <2>1
  <2> QED
    BY <2>2 DEF Rows
<1> HIDE DEF n
<1>2. /\ containing \subseteq before /\ latest \subseteq before
      /\ before \in SUBSET (1 .. n) /\ before \subseteq loaded
  BY <1>1 DEF RowContains
<1>3. chosen = IF before = {} THEN 0 ELSE CHOOSE i \in fits : \A j \in fits : i <= j
  BY DEF ChosenRow
<1>4. CASE before = {}
  BY <1>3, <1>4
<1>5. CASE before # {}
  <2>1. latest # {}
    <3> DEFINE f == [i \in DOMAIN rows |-> rows[i].start]
    <3>1. \A i \in before : f[i] = rows[i].start /\ f[i] \in Int
      BY <1>1, <1>2
    <3> HIDE DEF f, before
    <3>2. PICK i \in before : \A j \in before : f[j] <= f[i]
      BY <1>1, <1>2, <1>5, <3>1, LatestExists
    <3> QED
      BY <3>1, <3>2
  <2> HIDE DEF before, containing, latest, chosen
  <2>2. fits \in SUBSET Nat /\ fits # {} /\ fits \subseteq before
    BY <1>1, <1>2, <2>1
  <2>3. chosen \in fits
    <3> HIDE DEF fits
    <3> QED
      BY <1>3, <1>5, <2>2, FirstExists
  <2>4. chosen \in before /\ chosen # 0
    BY <1>2, <2>2, <2>3
  <2>5. containing # {} => RowContains(rows[chosen], at)
    BY <2>3 DEF containing
  <2>6. containing = {} => \A i \in before : rows[i].start <= rows[chosen].start
    BY <2>3 DEF latest
  <2> QED
    BY <1>5, <2>4, <2>5, <2>6 DEF before, containing, chosen
<1> QED
  BY <1>4, <1>5

(* A seek finds a complete row that contains the time, if there is one. *)
LEMMA SeekFinds ==
  ASSUME NEW rows \in Seq(Rows), NEW at \in Int
  PROVE  seekRecordingSegment(rows, at) # 0
           <=> \E i \in DOMAIN rows : rows[i].complete /\ RowContains(rows[i], at)
<1> DEFINE n == Len(rows)
           f == [i \in DOMAIN rows |-> rows[i].start]
           fits == {i \in DOMAIN rows : rows[i].complete /\ RowContains(rows[i], at)}
           found == CHOOSE i \in fits : \A j \in fits : rows[j].start <= rows[i].start
<1>1. n \in Nat /\ DOMAIN rows = 1 .. n /\ \A i \in DOMAIN rows : rows[i].start \in Int
  <2>1. \A T : rows \in Seq(T) => \A i \in DOMAIN rows : rows[i] \in T
    OBVIOUS
  <2>2. \A i \in DOMAIN rows : rows[i] \in Rows
    BY <2>1
  <2> QED
    BY <2>2 DEF Rows
<1> HIDE DEF n
<1>2. seekRecordingSegment(rows, at) = IF fits = {} THEN 0 ELSE found
  BY DEF seekRecordingSegment
<1>3. fits \in SUBSET (1 .. n) /\ \A i \in fits : f[i] = rows[i].start /\ f[i] \in Int
  BY <1>1
<1>4. ASSUME fits # {}
      PROVE  found # 0
  <2> HIDE DEF f, fits
  <2>1. PICK i \in fits : \A j \in fits : f[j] <= f[i]
    BY <1>1, <1>3, <1>4, LatestExists
  <2>2. found \in fits
    BY <1>3, <2>1
  <2> HIDE DEF found
  <2>3. found \in 1 .. n
    BY <1>3, <2>2
  <2> QED
    BY <1>1, <2>3
<1> QED
  BY <1>2, <1>4

(* The thumbnail of any recorded segments and time shows what was recorded     *)
(* then, or last before.                                                    *)
LEMMA PictureIsFound ==
  ASSUME NEW rows, NEW at, Recorded(rows, at)
  PROVE  PictureIsThere(rows, at, playbackThumbnail(rows, at), seekRecordingSegment(rows, at))
<1> DEFINE loaded == loadSegments(rows, at - WindowBack, at + WindowAhead)
           before == {i \in loaded : rows[i].start <= at}
           chosen == ChosenRow(rows, loaded, at)
           t == playbackThumbnail(rows, at)
           usable == {r \in Range(rows) : r.complete /\ r.start >= 0 /\ r.start <= at}
           containing == {r \in usable : RowContains(r, at)}
           usableAt == {i \in DOMAIN rows :
                           rows[i].complete /\ rows[i].start >= 0 /\ rows[i].start <= at}
<1>1. at \in Nat /\ rows \in Seq(Rows) /\ WindowBack \in Nat /\ WindowAhead \in Nat \ {0}
  BY RecordedTimeAssumption DEF Recorded
<1>2. ASSUME NEW i \in DOMAIN rows
      PROVE  /\ rows[i].start \in Int /\ rows[i].start >= -1 /\ rows[i].duration \in Int
             /\ rows[i].complete \in BOOLEAN
  <2>1. \A T : rows \in Seq(T) => rows[i] \in T
    OBVIOUS
  <2>2. rows[i] \in Rows
    BY <1>1, <2>1
  <2> QED
    BY <2>2 DEF Rows
<1>3. /\ \A i \in usableAt : rows[i] \in usable /\ i \in DOMAIN rows
      /\ \A r \in usable : \E i \in usableAt : rows[i] = r
  <2>1. Range(rows) = {rows[i] : i \in DOMAIN rows}
    BY DEF Range
  <2> QED
    BY <2>1
<1>4. ASSUME NEW i \in usableAt
      PROVE  /\ rows[i].duration > 0 /\ rows[i].start \in Nat /\ rows[i].start <= at
             /\ rows[i].duration \in Nat \ {0}
             /\ i \in loaded <=> rows[i].start + rows[i].duration > at - WindowBack
             /\ RowContains(rows[i], at) => i \in loaded
  <2>1. i \in DOMAIN rows /\ rows[i].complete /\ rows[i].start >= 0 /\ rows[i].start <= at
    OBVIOUS
  <2>2. rows[i].duration > 0
    BY <2>1 DEF Recorded
  <2>3. i \in loaded <=> rows[i].start < at + WindowAhead
                           /\ rows[i].start + rows[i].duration > at - WindowBack
    BY <2>1 DEF loadSegments
  <2> HIDE DEF loaded, usableAt
  <2> QED
    BY <1>1, <1>2, <2>1, <2>2, <2>3 DEF RowContains
<1>5. loaded \in SUBSET DOMAIN rows /\ before = loaded \cap usableAt
  BY DEF loadSegments
<1>6. /\ chosen = 0 <=> before = {}
      /\ chosen # 0 =>
           /\ chosen \in before
           /\ (\E i \in loaded : RowContains(rows[i], at)) => RowContains(rows[chosen], at)
           /\ (\A i \in loaded : ~RowContains(rows[i], at)) =>
                \A i \in before : rows[i].start <= rows[chosen].start
  <2>1. at \in Int
    BY <1>1
  <2> HIDE DEF loaded
  <2> QED
    BY <1>1, <1>5, <2>1, RowIsChosen
<1>7. /\ t.found <=> chosen # 0
      /\ chosen # 0 => t.row = rows[chosen] /\ t.offset = ThumbnailOffset(rows[chosen], at)
  BY DEF playbackThumbnail
<1>8. ASSUME NEW i \in loaded, RowContains(rows[i], at)
      PROVE  i \in usableAt
  BY <1>2, <1>5, <1>8 DEF RowContains
<1> HIDE DEF loaded, before, chosen, t, usable, usableAt
<1>9. containing # {} <=> \E i \in loaded : RowContains(rows[i], at)
  BY <1>3, <1>4, <1>8
<1>10. ASSUME t.found
       PROVE  /\ chosen \in usableAt /\ chosen \in loaded /\ t.row = rows[chosen]
              /\ t.row \in usable /\ t.offset >= 0 /\ t.offset < t.row.duration
              /\ RowContains(t.row, at) => t.row.start + t.offset = at
  <2>1. /\ chosen \in usableAt /\ chosen \in loaded
        /\ t.row = rows[chosen] /\ t.offset = ThumbnailOffset(rows[chosen], at)
    BY <1>5, <1>6, <1>7, <1>10
  <2> DEFINE r == rows[chosen]
  <2>2. r.start \in Nat /\ r.duration \in Nat \ {0} /\ r.start <= at
    BY <1>4, <2>1
  <2> HIDE DEF r
  <2>3. /\ ThumbnailOffset(r, at) \in 0 .. r.duration - 1
        /\ RowContains(r, at) => r.start + ThumbnailOffset(r, at) = at
    BY <1>1, <2>2, ThumbnailIsInside
  <2>4. t.row = r /\ t.offset = ThumbnailOffset(r, at)
    BY <2>1 DEF r
  <2>5. t.offset >= 0 /\ t.offset < t.row.duration
    BY <2>2, <2>3, <2>4
  <2> QED
    BY <1>3, <2>1, <2>3, <2>4, <2>5
<1>11. containing # {} => t.found /\ t.row \in containing /\ t.row.start + t.offset = at
  <2> SUFFICES ASSUME containing # {}
               PROVE  t.found /\ t.row \in containing /\ t.row.start + t.offset = at
    OBVIOUS
  <2>1. PICK i \in loaded : RowContains(rows[i], at)
    BY <1>9
  <2>2. chosen # 0 /\ RowContains(rows[chosen], at)
    BY <1>5, <1>6, <1>8, <2>1
  <2> QED
    BY <1>7, <1>10, <2>2
<1>12. t.found /\ containing = {} => \A r \in usable : r.start <= t.row.start
  <2> SUFFICES ASSUME t.found, containing = {}, NEW j \in usableAt
               PROVE  rows[j].start <= rows[chosen].start
    BY <1>3, <1>10
  <2>1. chosen \in usableAt /\ chosen \in loaded
    BY <1>10
  <2>2. CASE j \in loaded
    BY <1>5, <1>6, <1>9, <2>1, <2>2
  <2>3. CASE j \notin loaded
    <3>1. rows[j].start + rows[j].duration < rows[chosen].start + rows[chosen].duration
      BY <1>1, <1>4, <2>1, <2>3
    <3>2. /\ j \in DOMAIN rows /\ rows[j].complete
          /\ chosen \in DOMAIN rows /\ rows[chosen].complete
      BY <2>1 DEF usableAt
    <3>3. rows[chosen].start < rows[j].start =>
            rows[chosen].start + rows[chosen].duration <= rows[j].start + rows[j].duration
      BY <3>2 DEF Recorded
    <3>4. /\ rows[j].start \in Int /\ rows[j].duration \in Int
          /\ rows[chosen].start \in Int /\ rows[chosen].duration \in Int
      BY <1>2, <3>2
    <3> QED
      BY <3>1, <3>3, <3>4
  <2> QED
    BY <2>2, <2>3
<1>13. ~t.found => \A r \in usable : r.start + r.duration <= at - WindowBack
  <2> SUFFICES ASSUME ~t.found, NEW j \in usableAt
               PROVE  rows[j].start + rows[j].duration <= at - WindowBack
    BY <1>3
  <2>1. j \notin loaded
    BY <1>5, <1>6, <1>7
  <2> QED
    BY <1>1, <1>4, <2>1
<1>14. seekRecordingSegment(rows, at) # 0 <=> containing # {}
  <2>1. at \in Int
    BY <1>1
  <2>2. ASSUME NEW i \in DOMAIN rows, rows[i].complete, RowContains(rows[i], at)
        PROVE  i \in usableAt /\ i \in loaded
    <3>1. rows[i].start # -1
      BY <2>2 DEF Recorded
    <3>2. rows[i].start >= 0 /\ rows[i].start <= at
      BY <1>2, <2>2, <3>1 DEF RowContains
    <3>3. i \in usableAt
      BY <2>2, <3>2 DEF usableAt
    <3> QED
      BY <1>4, <2>2, <3>3
  <2>3. \A i \in usableAt : i \in DOMAIN rows /\ rows[i].complete
    BY DEF usableAt
  <2>4. (\E i \in DOMAIN rows : rows[i].complete /\ RowContains(rows[i], at))
           <=> \E i \in loaded : RowContains(rows[i], at)
    BY <1>8, <2>2, <2>3
  <2> HIDE DEF containing
  <2> QED
    BY <1>1, <1>9, <2>1, <2>4, SeekFinds
<1> QED
  BY <1>10, <1>11, <1>12, <1>13, <1>14 DEF PictureIsThere, usable, t

(* Recorded footage is found where it is asked for, for any segments, times    *)
(* and sizes, any length of a second, of the margin at the end of a file    *)
(* and of the window a thumbnail looks into (HlsPlaylist.hpp, ByteRange.hpp, *)
(* PlaybackController.hpp).                                                 *)
THEOREM RecordingsAreAlwaysAddressed == Spec => []RecordingsAreAddressed
<1>1. Init => RecordingsAreAddressed
  <2>1. Init => ~result.done
    BY DEF Init, NotYet
  <2> QED
    BY <2>1 DEF RecordingsAreAddressed, Returned
<1>2. ASSUME Legal(input), RecordingsAreAddressed, [Next]_vars
      PROVE  RecordingsAreAddressed'
  <2>1. CASE UNCHANGED vars
    BY <1>2, <2>1 DEF RecordingsAreAddressed, Returned, vars
  <2>2. CASE Next
    <3>1. Returned("playlist")' => BreaksAreMarked(input.of, result.of)'
      <4> SUFFICES ASSUME Returned("playlist")'
                   PROVE  BreaksAreMarked(input'.of, result'.of)
        OBVIOUS
      <4>1. /\ input'.of = input.of /\ input.task = "playlist"
            /\ result'.of = buildVodPlaylist(input.of)
        BY <2>2, OneCall DEF Playlist, Called, Returns
      <4>2. input.of \in Seq(Segments)
        BY <1>2, <4>1 DEF Legal
      <4> QED
        BY <4>1, <4>2, PlaylistIsMarked
    <3>2. Returned("thumbnail")' =>
             PictureIsThere(input.of.rows, input.of.at, result.of.thumbnail, result.of.seek)'
      <4> SUFFICES ASSUME Returned("thumbnail")'
                   PROVE  PictureIsThere(input'.of.rows, input'.of.at,
                                         result'.of.thumbnail, result'.of.seek)
        OBVIOUS
      <4>1. /\ input'.of = input.of /\ input.task = "thumbnail"
            /\ result'.of.thumbnail = playbackThumbnail(input.of.rows, input.of.at)
            /\ result'.of.seek = seekRecordingSegment(input.of.rows, input.of.at)
        BY <2>2, OneCall DEF Thumbnail, Called, Returns
      <4>2. Recorded(input.of.rows, input.of.at)
        BY <1>2, <4>1 DEF Legal
      <4> QED
        BY <4>1, <4>2, PictureIsFound
    <3>3. Returned("range")' => BytesAreExact(input.of.header, input.of.size, result.of)'
      <4> SUFFICES ASSUME Returned("range")'
                   PROVE  BytesAreExact(input'.of.header, input'.of.size, result'.of)
        OBVIOUS
      <4>1. /\ input'.of = input.of /\ input.task = "range"
            /\ result'.of = getRecordingFile(input.of.header, input.of.size)
        BY <2>2, OneCall DEF GetFile, Called, Returns
      <4>2. input.of.header \in Headers /\ input.of.size \in Nat
        BY <1>2, <4>1 DEF Legal
      <4> QED
        BY <4>1, <4>2, RangeIsExact
    <3> QED
      BY <3>1, <3>2, <3>3 DEF RecordingsAreAddressed
  <2> QED
    BY <1>2, <2>1, <2>2
<1> QED
  BY <1>1, <1>2, CallsStayLegal, PTL DEF Spec

-----------------------------------------------------------------------------
(* Clamping an interval gives the interval between its clamped ends. *)
LEMMA ClampedInterval ==
  ASSUME NEW lo \in Int, NEW hi \in Int, lo <= hi, NEW a \in Int, NEW b \in Int, a <= b
  PROVE  {Within(i, lo, hi) : i \in a .. b} = Within(a, lo, hi) .. Within(b, lo, hi)
<1>1. ASSUME NEW i \in a .. b
      PROVE  Within(i, lo, hi) \in Within(a, lo, hi) .. Within(b, lo, hi)
  BY DEF Within
<1>2. ASSUME NEW v \in Within(a, lo, hi) .. Within(b, lo, hi)
      PROVE  \E i \in a .. b : v = Within(i, lo, hi)
  <2>1. CASE v \in a .. b
    <3>1. v = Within(v, lo, hi)
      BY <2>1 DEF Within
    <3> QED
      BY <2>1, <3>1
  <2>2. CASE v < a
    <3>1. v = Within(a, lo, hi) /\ a \in a .. b
      BY <2>2 DEF Within
    <3> QED
      BY <3>1
  <2>3. CASE v > b
    <3>1. v = Within(b, lo, hi) /\ b \in a .. b
      BY <2>3 DEF Within
    <3> QED
      BY <3>1
  <2> QED
    BY <2>1, <2>2, <2>3
<1> QED
  BY <1>1, <1>2

(* The cells a zone stands for are those it contains once it is normalized,     *)
(* and as many as it counts.                                                *)
LEMMA CellsOfAZone ==
  ASSUME NEW gridX \in Nat \ {0}, NEW gridY \in Nat \ {0}, NEW z \in DrawnZones
  PROVE  LET n == Normalized(z, gridX, gridY)
             grid == (0 .. gridY - 1) \X (0 .. gridX - 1)
             cells == DrawnCells(z, gridX, gridY)
         IN  /\ cells \subseteq grid
             /\ \A cell \in grid : contains(n, cell) <=> cell \in cells
             /\ IsFiniteSet(cells) /\ Cardinality(cells) = cellCount(n)
             /\ WellFormed(n, gridX, gridY) /\ n.level = Within(z.level, 1, 10)
<1> DEFINE n == Normalized(z, gridX, gridY)
           grid == (0 .. gridY - 1) \X (0 .. gridX - 1)
           cells == DrawnCells(z, gridX, gridY)
           rowsOf == n.r1 .. n.r2
           colsOf == n.c1 .. n.c2
<1>1. z.r1 \in Int /\ z.r2 \in Int /\ z.c1 \in Int /\ z.c2 \in Int /\ z.level \in Int
  BY DEF DrawnZones
<1>2. WellFormed(n, gridX, gridY) /\ n.level = Within(z.level, 1, 10)
  BY NormalizedIsWellFormed DEF Normalized
<1>3. /\ n.r1 = Within(Least(z.r1, z.r2), 0, gridY - 1)
      /\ n.r2 = Within(Greatest(z.r1, z.r2), 0, gridY - 1)
      /\ n.c1 = Within(Least(z.c1, z.c2), 0, gridX - 1)
      /\ n.c2 = Within(Greatest(z.c1, z.c2), 0, gridX - 1)
  BY DEF Normalized
<1>4. /\ Least(z.r1, z.r2) \in Int /\ Greatest(z.r1, z.r2) \in Int
      /\ Least(z.r1, z.r2) <= Greatest(z.r1, z.r2)
      /\ Least(z.c1, z.c2) \in Int /\ Greatest(z.c1, z.c2) \in Int
      /\ Least(z.c1, z.c2) <= Greatest(z.c1, z.c2)
  BY <1>1 DEF Least, Greatest
<1> HIDE DEF n
<1>5. /\ {Within(r, 0, gridY - 1) : r \in Least(z.r1, z.r2) .. Greatest(z.r1, z.r2)} = rowsOf
      /\ {Within(c, 0, gridX - 1) : c \in Least(z.c1, z.c2) .. Greatest(z.c1, z.c2)} = colsOf
  <2> DEFINE r1 == Least(z.r1, z.r2)  r2 == Greatest(z.r1, z.r2)
             c1 == Least(z.c1, z.c2)  c2 == Greatest(z.c1, z.c2)
  <2>1. gridY - 1 \in Int /\ 0 <= gridY - 1 /\ gridX - 1 \in Int /\ 0 <= gridX - 1 /\ 0 \in Int
    OBVIOUS
  <2> HIDE DEF r1, r2, c1, c2
  <2>2. {Within(r, 0, gridY - 1) : r \in r1 .. r2} = rowsOf
    <3>1. r1 \in Int /\ r2 \in Int /\ r1 <= r2
      BY <1>4 DEF r1, r2
    <3>2. {Within(r, 0, gridY - 1) : r \in r1 .. r2}
            = Within(r1, 0, gridY - 1) .. Within(r2, 0, gridY - 1)
      BY ClampedInterval, <2>1, <3>1
    <3> QED
      BY <1>3, <3>2 DEF r1, r2
  <2>3. {Within(c, 0, gridX - 1) : c \in c1 .. c2} = colsOf
    <3>1. c1 \in Int /\ c2 \in Int /\ c1 <= c2
      BY <1>4 DEF c1, c2
    <3>2. {Within(c, 0, gridX - 1) : c \in c1 .. c2}
            = Within(c1, 0, gridX - 1) .. Within(c2, 0, gridX - 1)
      BY ClampedInterval, <2>1, <3>1
    <3> QED
      BY <1>3, <3>2 DEF c1, c2
  <2> QED
    BY <2>2, <2>3 DEF r1, r2, c1, c2
<1>6. cells = {Within(r, 0, gridY - 1) : r \in Least(z.r1, z.r2) .. Greatest(z.r1, z.r2)}
                \X {Within(c, 0, gridX - 1) : c \in Least(z.c1, z.c2) .. Greatest(z.c1, z.c2)}
  BY DEF DrawnCells
<1>7. cells = rowsOf \X colsOf
  BY <1>5, <1>6
<1> HIDE DEF cells
<1>8. /\ n.r1 \in 0 .. gridY - 1 /\ n.r2 \in 0 .. gridY - 1 /\ n.r1 <= n.r2
      /\ n.c1 \in 0 .. gridX - 1 /\ n.c2 \in 0 .. gridX - 1 /\ n.c1 <= n.c2
  BY <1>2 DEF WellFormed
<1>9. cells \subseteq grid
  BY <1>7, <1>8
<1>10. \A cell \in grid : contains(n, cell) <=> cell \in cells
  BY <1>7 DEF contains
<1>11. IsFiniteSet(cells) /\ Cardinality(cells) = cellCount(n)
  <2>1. /\ IsFiniteSet(rowsOf) /\ Cardinality(rowsOf) = n.r2 - n.r1 + 1
        /\ IsFiniteSet(colsOf) /\ Cardinality(colsOf) = n.c2 - n.c1 + 1
    <3>1. /\ n.r1 \in Int /\ n.r2 \in Int /\ ~(n.r1 > n.r2)
          /\ n.c1 \in Int /\ n.c2 \in Int /\ ~(n.c1 > n.c2)
      BY <1>8
    <3>2. IsFiniteSet(rowsOf) /\ Cardinality(rowsOf) = n.r2 - n.r1 + 1
      BY FS_Interval, <3>1
    <3>3. IsFiniteSet(colsOf) /\ Cardinality(colsOf) = n.c2 - n.c1 + 1
      BY FS_Interval, <3>1
    <3> QED
      BY <3>2, <3>3
  <2> HIDE DEF rowsOf, colsOf
  <2> QED
    BY <1>7, <2>1, FS_Product DEF cellCount
<1> QED
  BY <1>2, <1>9, <1>10, <1>11 DEF cells, n

(* A zone is evaluated as its level says: with so many of its cells, and one   *)
(* at least.                                                                *)
LEMMA ZoneFires ==
  ASSUME NEW gridX \in Nat \ {0}, NEW gridY \in Nat \ {0}, NEW z \in DrawnZones,
         NEW moved \in SUBSET ((0 .. gridY - 1) \X (0 .. gridX - 1))
  PROVE  LET n == Normalized(z, gridX, gridY)
             cells == DrawnCells(z, gridX, gridY)
         IN  /\ {cell \in moved : contains(n, cell)} = moved \cap cells
             /\ Cardinality(moved \cap cells) >= needCells(n)
                  <=> /\ moved \cap cells # {}
                      /\ 10 * Cardinality(moved \cap cells)
                           >= Within(z.level, 1, 10) * Cardinality(cells)
<1> DEFINE n == Normalized(z, gridX, gridY)
           cells == DrawnCells(z, gridX, gridY)
           count == Cardinality(moved \cap cells)
<1>1. /\ \A cell \in moved : contains(n, cell) <=> cell \in cells
      /\ IsFiniteSet(cells) /\ Cardinality(cells) = cellCount(n)
      /\ WellFormed(n, gridX, gridY) /\ n.level = Within(z.level, 1, 10)
  BY CellsOfAZone
<1> HIDE DEF n, cells
<1>2. {cell \in moved : contains(n, cell)} = moved \cap cells
  BY <1>1
<1>3. count \in Nat /\ (count = 0 <=> moved \cap cells = {})
  <2>1. IsFiniteSet(moved \cap cells)
    BY <1>1, FS_Intersection
  <2> QED
    BY <2>1, FS_CardinalityType, FS_EmptySet
<1>4. /\ needCells(n) \in 1 .. cellCount(n)
      /\ \A m \in Nat : m >= needCells(n) <=> 10 * m >= n.level * cellCount(n)
  BY <1>1, LevelsAreExact
<1> HIDE DEF count
<1>5. count >= needCells(n) <=> 10 * count >= n.level * cellCount(n)
  BY <1>3, <1>4
<1>6. count >= needCells(n) => count # 0
  BY <1>3, <1>4
<1> QED
  BY <1>1, <1>2, <1>3, <1>5, <1>6 DEF n, cells, count

(* When every point changes every cell of the grid moves, and nothing moves    *)
(* outside of the grid.                                                     *)
LEMMA CellsMove ==
  ASSUME NEW havePrev \in BOOLEAN, NEW changed \in SUBSET Samples, NEW x \in Int, NEW y \in Int
  PROVE  LET gx == clampMotionGrid(x)
             gy == clampMotionGrid(y)
             grid == (0 .. gy - 1) \X (0 .. gx - 1)
             moved == MovedCells(havePrev, changed, gx, gy)
         IN  /\ moved \subseteq grid
             /\ havePrev /\ changed = Samples => moved = grid
<1> DEFINE gx == clampMotionGrid(x)
           gy == clampMotionGrid(y)
           grid == (0 .. gy - 1) \X (0 .. gx - 1)
           moved == MovedCells(havePrev, changed, gx, gy)
           points(cell) == {p \in Samples : CellOf(p, gx, gy) = cell}
<1>1. \A cell \in grid : points(cell) # {}
  <2>1. \A cell \in grid : \E p \in Samples : CellOf(p, gx, gy) = cell
    BY NoBlindCells
  <2> HIDE DEF grid
  <2> QED
    BY <2>1
<1> HIDE DEF gx, gy
<1>2. moved \subseteq grid
  BY DEF MovedCells
<1>3. ASSUME havePrev, changed = Samples, NEW cell \in grid
      PROVE  cell \in moved
  <2> DEFINE count == Cardinality(points(cell))
  <2>1. points(cell) # {}
    BY <1>1
  <2>2. count \in Nat
    <3>1. IsFiniteSet(Samples)
      <4>1. 0 \in Int /\ kSample - 1 \in Int
        BY MotionZonesAssumption
      <4>2. IsFiniteSet(0 .. kSample - 1)
        BY FS_Interval, <4>1
      <4> QED
        BY FS_Product, <4>2 DEF Samples
    <3>2. IsFiniteSet(points(cell))
      BY <3>1, FS_Subset
    <3> QED
      BY <3>2, FS_CardinalityType
  <2>3. points(cell) \cap changed = points(cell)
    BY <1>3
  <2>4. count * 100 >= count * kCellPercent
    <3> HIDE DEF count
    <3>1. kCellPercent \in 1 .. 100
      BY MotionZonesAssumption
    <3> QED
      BY <2>2, <3>1
  <2>5. Cardinality(points(cell) \cap changed) * 100 >= Cardinality(points(cell)) * kCellPercent
    BY <2>3, <2>4
  <2> HIDE DEF count
  <2>6. moved = {c \in grid : /\ points(c) # {}
                             /\ Cardinality(points(c) \cap changed) * 100
                                  >= Cardinality(points(c)) * kCellPercent}
    BY <1>3 DEF MovedCells
  <2> HIDE DEF moved, points, grid
  <2> QED
    BY <1>3, <2>1, <2>5, <2>6
<1> HIDE DEF moved, grid
<1> QED
  BY <1>2, <1>3 DEF moved, grid, gx, gy

(* What the detector and the recording session make of two pictures together. *)
LEMMA PicturesFire ==
  ASSUME NEW of \in Pictures
  PROVE  LET zones == motionZonesOf(of)
             moved == MovedCells(of.havePrev, of.changed,
                                 clampMotionGrid(of.gridX), clampMotionGrid(of.gridY))
         IN  FiresAtLevels(of, [recorded |-> evaluateZones(zones, moved),
                                inside |-> InsideCells(zones, moved),
                                outside |-> OutsideCells(zones, moved)])
<1> DEFINE gx == clampMotionGrid(of.gridX)
           gy == clampMotionGrid(of.gridY)
           zones == motionZonesOf(of)
           moved == MovedCells(of.havePrev, of.changed, gx, gy)
           noted == [recorded |-> evaluateZones(zones, moved),
                     inside |-> InsideCells(zones, moved),
                     outside |-> OutsideCells(zones, moved)]
           drawn == {z \in of.zones : Least(z.r1, z.r2) >= 0 /\ Least(z.c1, z.c2) >= 0}
           cells(z) == DrawnCells(z, gx, gy)
           fires(z) == /\ moved \cap cells(z) # {}
                       /\ 10 * Cardinality(moved \cap cells(z))
                            >= Within(z.level, 1, 10) * Cardinality(cells(z))
           n(z) == Normalized(z, gx, gy)
           grid == (0 .. gy - 1) \X (0 .. gx - 1)
<1>1. /\ of.zones \in SUBSET DrawnZones /\ of.gridX \in Int /\ of.gridY \in Int
      /\ of.havePrev \in BOOLEAN /\ of.changed \in SUBSET Samples
  BY DEF Pictures
<1>2. gx \in Nat \ {0} /\ gy \in Nat \ {0}
  <2>1. gx \in 1 .. kSample /\ gy \in 1 .. kSample /\ kSample \in Nat
    BY <1>1, GridInBounds, MotionZonesAssumption
  <2> HIDE DEF gx, gy
  <2> QED
    BY <2>1
<1>3. moved \subseteq grid /\ (of.havePrev /\ of.changed = Samples => moved = grid)
  BY <1>1, CellsMove
<1>4. zones = {n(z) : z \in drawn}
  <2>1. \A z \in of.zones : (z.r1 >= 0 /\ z.c1 >= 0 /\ z.r2 >= 0 /\ z.c2 >= 0)
                              <=> Least(z.r1, z.r2) >= 0 /\ Least(z.c1, z.c2) >= 0
    BY <1>1 DEF DrawnZones, Least
  <2>2. zones = {n(z) : z \in {x \in of.zones : x.r1 >= 0 /\ x.c1 >= 0 /\ x.r2 >= 0 /\ x.c2 >= 0}}
    BY DEF motionZonesOf, parseMotionZones
  <2> HIDE DEF zones, n
  <2> QED
    BY <2>1, <2>2
<1> HIDE DEF gx, gy, moved, zones
<1>5. ASSUME NEW z \in drawn
      PROVE  /\ cells(z) \subseteq grid
             /\ {cell \in moved : contains(n(z), cell)} = moved \cap cells(z)
             /\ Cardinality({cell \in moved : contains(n(z), cell)}) >= needCells(n(z)) <=> fires(z)
  <2>1. z \in DrawnZones
    BY <1>1
  <2>2. moved \in SUBSET grid
    BY <1>3
  <2> HIDE DEF drawn
  <2>3. cells(z) \subseteq grid
    BY <1>2, <2>1, CellsOfAZone
  <2>4. /\ {cell \in moved : contains(n(z), cell)} = moved \cap cells(z)
        /\ Cardinality(moved \cap cells(z)) >= needCells(n(z)) <=> fires(z)
    BY <1>2, <2>1, <2>2, ZoneFires
  <2> HIDE DEF cells, n, fires, grid
  <2> QED
    BY <2>3, <2>4
<1> HIDE DEF drawn, cells, fires, n, grid
<1>6. evaluateZones(zones, moved) = UNION {moved \cap cells(z) : z \in {x \in drawn : fires(x)}}
  <2> DEFINE in(z) == {cell \in moved : contains(z, cell)}
  <2>1. evaluateZones(zones, moved)
          = UNION {in(z) : z \in {x \in zones : Cardinality(in(x)) >= needCells(x)}}
    BY DEF evaluateZones
  <2>2. \A z \in drawn :
           in(n(z)) = moved \cap cells(z) /\ (Cardinality(in(n(z))) >= needCells(n(z)) <=> fires(z))
    BY <1>5
  <2> HIDE DEF in
  <2>3. {in(z) : z \in {x \in zones : Cardinality(in(x)) >= needCells(x)}}
          = {moved \cap cells(z) : z \in {x \in drawn : fires(x)}}
    BY <1>4, <2>2
  <2> QED
    BY <2>1, <2>3
<1>7. /\ InsideCells(zones, moved) \cup OutsideCells(zones, moved) = moved
      /\ \A cell \in InsideCells(zones, moved) : cell \in moved
  BY DEF InsideCells, OutsideCells
<1>8. evaluateZones(zones, moved) \subseteq InsideCells(zones, moved)
  <2>1. ASSUME NEW z \in drawn, NEW cell \in moved \cap cells(z)
        PROVE  cell \in InsideCells(zones, moved)
    <3>1. contains(n(z), cell)
      BY <1>5
    <3>2. n(z) \in zones
      BY <1>4
    <3> QED
      BY <3>1, <3>2 DEF InsideCells
  <2> QED
    BY <1>6, <2>1
<1>9. ASSUME of.havePrev, of.changed = Samples, NEW z \in drawn
      PROVE  cells(z) \subseteq evaluateZones(zones, moved)
  <2>1. moved \cap cells(z) = cells(z)
    BY <1>3, <1>5, <1>9
  <2>2. z \in DrawnZones
    BY <1>1 DEF drawn
  <2>3. /\ IsFiniteSet(cells(z)) /\ Cardinality(cells(z)) = cellCount(n(z))
        /\ WellFormed(n(z), gx, gy)
    BY <1>2, <2>2, CellsOfAZone DEF cells, n
  <2>4. Cardinality(cells(z)) >= needCells(n(z))
    <3>1. cellCount(n(z)) \in Nat \ {0} /\ needCells(n(z)) \in 1 .. cellCount(n(z))
      BY <1>2, <2>3, ZoneHasACell, LevelsAreExact
    <3> QED
      BY <2>3, <3>1
  <2>5. fires(z)
    BY <1>5, <2>1, <2>4
  <2> QED
    BY <1>6, <2>1, <2>5
<1>10. /\ noted.recorded = evaluateZones(zones, moved)
       /\ noted.inside = InsideCells(zones, moved)
       /\ noted.outside = OutsideCells(zones, moved)
  OBVIOUS
<1> HIDE DEF noted
<1>11. FiresAtLevels(of, noted)
  <2>1. noted.inside \cup noted.outside = moved
    BY <1>7, <1>10
  <2>2. /\ noted.recorded = UNION {moved \cap cells(z) : z \in {x \in drawn : fires(x)}}
        /\ noted.recorded \subseteq noted.inside
        /\ of.havePrev /\ of.changed = Samples => \A z \in drawn : cells(z) \subseteq noted.recorded
    BY <1>6, <1>8, <1>9, <1>10
  <2> QED
    BY <2>1, <2>2 DEF FiresAtLevels, drawn, cells, fires, gx, gy
<1> QED
  BY <1>11 DEF noted, zones, moved, gx, gy

(* A motion event records the zones that reached their level, each by itself   *)
(* and exactly, and a scene that changes everywhere wakes every zone, for   *)
(* every grid a camera asks for, every zone however drawn, and every pair   *)
(* of pictures (MotionDetector.hpp, CameraRecordingSession.hpp).             *)
THEOREM ZonesAlwaysFire == Spec => []ZonesFireAtTheirLevel
<1>1. Init => ZonesFireAtTheirLevel
  <2>1. Init => ~result.done
    BY DEF Init, NotYet
  <2> QED
    BY <2>1 DEF ZonesFireAtTheirLevel, Returned
<1>2. ASSUME Legal(input), ZonesFireAtTheirLevel, [Next]_vars
      PROVE  ZonesFireAtTheirLevel'
  <2>1. CASE UNCHANGED vars
    BY <1>2, <2>1 DEF ZonesFireAtTheirLevel, Returned, vars
  <2>2. CASE Next
    <3> SUFFICES ASSUME Returned("zones")'
                 PROVE  FiresAtLevels(input'.of, result'.of)
      BY DEF ZonesFireAtTheirLevel
    <3> DEFINE of == input.of
               zones == motionZonesOf(of)
               moved == MovedCells(of.havePrev, of.changed,
                                   clampMotionGrid(of.gridX), clampMotionGrid(of.gridY))
    <3>1. /\ input'.of = of /\ input.task = "zones"
          /\ result'.of = [recorded |-> evaluateZones(zones, moved),
                           inside |-> InsideCells(zones, moved),
                           outside |-> OutsideCells(zones, moved)]
      BY <2>2, OneCall DEF NotePicture, Called, Returns
    <3>2. of \in Pictures
      BY <1>2, <3>1 DEF Legal
    <3> QED
      BY <3>1, <3>2, PicturesFire
  <2> QED
    BY <1>2, <2>1, <2>2
<1> QED
  BY <1>1, <1>2, CallsStayLegal, PTL DEF Spec

-----------------------------------------------------------------------------
(* Numbers that do not pass a bound have a greatest. *)
LEMMA GreatestIs ==
  ASSUME NEW hi \in Int, NEW S \in SUBSET Int, S # {}, \A x \in S : x <= hi
  PROVE  Max(S) \in S /\ \A x \in S : x <= Max(S)
<1> DEFINE Below == {hi - x : x \in S}
<1>1. Below \in SUBSET Nat /\ Below # {}
  <2>1. \A x \in S : hi - x \in Nat
    OBVIOUS
  <2> QED
    BY <2>1
<1>2. PICK i \in Below : \A j \in Below : i <= j
  <2> HIDE DEF Below
  <2> QED
    BY <1>1, FirstExists
<1>3. PICK x \in S : i = hi - x
  OBVIOUS
<1>4. \A y \in S : y <= x
  <2> SUFFICES ASSUME NEW y \in S PROVE y <= x
    OBVIOUS
  <2>1. hi - x <= hi - y
    BY <1>2, <1>3
  <2> QED
    BY <2>1
<1>5. \A y \in S : x >= y
  BY <1>4
<1>6. \E z \in S : \A y \in S : z >= y
  BY <1>5
<1>7. /\ Max(S) \in S
      /\ \A y \in S : Max(S) >= y
  BY <1>6, Zenon DEF Max
<1> QED
  BY <1>7

(* The class of an anchor: the first with the highest score, wherever the     *)
(* floor below that score lies.                                             *)
LEMMA BestClassIs ==
  ASSUME NEW n \in Nat, NEW f, NEW hi \in Int, NEW floor \in Int,
         DOMAIN f = 0 .. n - 1, \A c \in 0 .. n - 1 : f[c] \in Int /\ f[c] <= hi
  PROVE  BestClass(f, floor) =
           IF \E c \in 0 .. n - 1 : f[c] > floor
           THEN Min({c \in 0 .. n - 1 : \A d \in 0 .. n - 1 : f[d] <= f[c]})
           ELSE NoClass
<1> DEFINE above == {c \in DOMAIN f : f[c] > floor}
           top == Max({f[c] : c \in above})
<1>1. CASE above = {}
  <2>1. ~\E c \in 0 .. n - 1 : f[c] > floor
    BY <1>1
  <2> QED
    BY <1>1, <2>1 DEF BestClass
<1>2. CASE above # {}
  <2>1. \E c \in 0 .. n - 1 : f[c] > floor
    BY <1>2
  <2>2. BestClass(f, floor) = Min({c \in above : f[c] = top})
    BY <1>2 DEF BestClass
  <2>3. /\ {f[c] : c \in above} \in SUBSET Int /\ {f[c] : c \in above} # {}
        /\ \A x \in {f[c] : c \in above} : x <= hi
    BY <1>2
  <2>4. top \in {f[c] : c \in above} /\ \A x \in {f[c] : c \in above} : x <= top
    <3> HIDE DEF above
    <3> QED
      BY <2>3, GreatestIs
  <2>5. top \in Int /\ top > floor
    BY <2>4
  <2>6. \A c \in above : f[c] <= top
    BY <2>4
  <2> HIDE DEF top
  <2>7. \A c \in 0 .. n - 1 : f[c] <= top
    BY <2>5, <2>6
  <2>8. \E d \in above : f[d] = top
    BY <2>4
  <2>9. {c \in above : f[c] = top} = {c \in 0 .. n - 1 : \A d \in 0 .. n - 1 : f[d] <= f[c]}
    <3>1. ASSUME NEW c \in above, f[c] = top PROVE \A d \in 0 .. n - 1 : f[d] <= f[c]
      BY <2>7, <3>1
    <3>2. ASSUME NEW c \in 0 .. n - 1, \A d \in 0 .. n - 1 : f[d] <= f[c]
          PROVE  c \in above /\ f[c] = top
      BY <2>5, <2>7, <2>8, <3>2
    <3> QED
      BY <3>1, <3>2
  <2> QED
    BY <2>1, <2>2, <2>9
<1> QED
  BY <1>1, <1>2

(* The threshold in quantized numbers. *)
LEMMA ThresholdIs ==
  ASSUME NEW zp \in Lo .. Hi, NEW T \in Nat, NEW q \in Lo .. Hi
  PROVE  LET thres == qnt_f32_to_affine(T, zp, 4)
             score == deqnt_affine_to_f32(q, zp, 4)
         IN  /\ thres \in Int
             /\ q > thres => score > T
             /\ score > T /\ q <= thres => T + 4 * zp < 0 /\ score < T + 4
<1> DEFINE x == T + 4 * zp
           thres == qnt_f32_to_affine(T, zp, 4)
<1>0. Lo \in Int /\ Hi \in Int /\ zp \in Int /\ q \in Int /\ Lo <= q /\ q <= Hi
      /\ Lo <= zp /\ zp <= Hi /\ Lo <= 0 /\ Hi >= 0
  BY PostprocessAssumption DEF Lo, Hi
<1>1. x \in Int /\ x >= 4 * Lo
  BY <1>0
<1>2. deqnt_affine_to_f32(q, zp, 4) = 4 * (q - zp)
  BY DEF deqnt_affine_to_f32
<1>3. thres = Truncated(Clamped(x, 4 * Lo, 4 * Hi), 4)
  BY DEF qnt_f32_to_affine
<1> HIDE DEF thres
<1>4. CASE x > 4 * Hi
  <2>1. Clamped(x, 4 * Lo, 4 * Hi) = 4 * Hi
    BY <1>0, <1>1, <1>4 DEF Clamped
  <2>2. thres = Hi
    BY <1>0, <1>3, <2>1 DEF Truncated
  <2> QED
    BY <1>0, <1>1, <1>2, <1>4, <2>2 DEF thres
<1>5. CASE x <= 4 * Hi
  <2>1. thres = Truncated(x, 4)
    BY <1>0, <1>1, <1>3, <1>5 DEF Clamped
  <2>2. CASE x >= 0
    <3>1. thres = x \div 4
      BY <2>1, <2>2 DEF Truncated
    <3>2. thres \in Int /\ 4 * thres <= x /\ x < 4 * thres + 4
      BY <1>1, <3>1
    <3> QED
      BY <1>0, <1>1, <1>2, <3>2 DEF thres
  <2>3. CASE x < 0
    <3>1. thres = -((-x) \div 4)
      BY <1>1, <2>1, <2>3 DEF Truncated
    <3>2. thres \in Int /\ x <= 4 * thres /\ 4 * thres < x + 4
      BY <1>1, <3>1
    <3> QED
      BY <1>0, <1>1, <1>2, <2>3, <3>2 DEF thres
  <2> QED
    BY <1>1, <2>2, <2>3
<1> QED
  BY <1>0, <1>1, <1>4, <1>5

(* A sum the gate drops is, dequantized, below the threshold, whatever the zero *)
(* point and the scale of its tensor.                                       *)
LEMMA SumGateIs ==
  ASSUME NEW zp \in Lo .. Hi, NEW T \in Nat, NEW q \in Lo .. Hi, NEW scale \in Nat \ {0}
  PROVE  LET thres == qnt_f32_to_affine(T, zp, scale)
         IN  thres \in Int /\ (q < thres => deqnt_affine_to_f32(q, zp, scale) < T)
<1> DEFINE x == T + scale * zp
           clamped == Clamped(x, scale * Lo, scale * Hi)
           thres == qnt_f32_to_affine(T, zp, scale)
<1>0. /\ Lo \in Int /\ Hi \in Int /\ zp \in Int /\ q \in Int /\ T \in Int
      /\ scale \in Int /\ scale > 0 /\ Lo <= q /\ q <= Hi
  BY PostprocessAssumption DEF Lo, Hi
<1>1. PICK lo, hi, at, val \in Int :
         lo = scale * Lo /\ hi = scale * Hi /\ at = scale * zp /\ val = scale * q
  BY <1>0
<1>2. lo <= val /\ val <= hi
  BY <1>0, <1>1
<1>3. deqnt_affine_to_f32(q, zp, scale) = val - at
  BY <1>0, <1>1 DEF deqnt_affine_to_f32
<1>4. clamped \in Int /\ (clamped <= T + at \/ clamped = lo)
  BY <1>0, <1>1 DEF Clamped
<1>5. thres = Truncated(clamped, scale)
  BY DEF qnt_f32_to_affine
<1>6. PICK c \in Int : c = clamped
  BY <1>4
<1>7. thres \in Int /\ scale * (thres - 1) < c
  <2>1. CASE c >= 0
    <3>1. thres = c \div scale
      BY <1>5, <1>6, <2>1 DEF Truncated
    <3> HIDE DEF thres
    <3> QED
      BY <1>0, <3>1
  <2>2. CASE c < 0
    <3>1. thres = -((-c) \div scale)
      BY <1>5, <1>6, <2>2 DEF Truncated
    <3> HIDE DEF thres
    <3> QED
      BY <1>0, <3>1
  <2> QED
    BY <2>1, <2>2
<1> HIDE DEF thres, clamped
<1>8. ASSUME q < thres PROVE val < T + at
  <2>1. q <= thres - 1
    BY <1>0, <1>7, <1>8
  <2>2. scale * q <= scale * (thres - 1)
    BY <1>0, <1>7, <2>1
  <2>3. val < c
    BY <1>0, <1>1, <1>7, <2>2
  <2> QED
    BY <1>0, <1>1, <1>2, <1>4, <1>6, <2>3
<1> QED
  BY <1>0, <1>1, <1>3, <1>7, <1>8 DEF thres

(* The gate of segmentation lies below every score that reaches the threshold. *)
LEMMA GateIsBelow ==
  ASSUME NEW zp \in Lo .. Hi, NEW T \in Nat, NEW q \in Lo .. Hi
  PROVE  LET gate == Clamped((T + 4 * zp) \div 4 - 1, Lo, Hi)
         IN  gate \in Int /\ (deqnt_affine_to_f32(q, zp, 4) > T => q > gate)
<1> DEFINE x == T + 4 * zp
           g == x \div 4
<1>0. Lo \in Int /\ Hi \in Int /\ zp \in Int /\ q \in Int /\ Lo <= q /\ q <= Hi /\ Lo <= Hi
      /\ Lo <= zp /\ zp <= Hi
  BY PostprocessAssumption DEF Lo, Hi
<1>1. x \in Int /\ x >= 4 * Lo
  BY <1>0
<1>2. g \in Int /\ 4 * g <= x /\ x < 4 * g + 4
  BY <1>1
<1>3. deqnt_affine_to_f32(q, zp, 4) = 4 * q - 4 * zp
  BY <1>0 DEF deqnt_affine_to_f32
<1> HIDE DEF g
<1>4. /\ Clamped(g - 1, Lo, Hi) \in Int
      /\ deqnt_affine_to_f32(q, zp, 4) > T => q > Clamped(g - 1, Lo, Hi)
  BY <1>0, <1>1, <1>2, <1>3 DEF Clamped
<1> QED
  BY <1>4 DEF g

(* Dividing what is known to be a multiple and a rest. *)
LEMMA DividedBack ==
  ASSUME NEW d \in Nat \ {0}, NEW a \in Nat, NEW r \in 0 .. d - 1
  PROVE  (a * d + r) \div d = a /\ (a * d + r) % d = r
<1> DEFINE p == a * d
           i == p + r
           m == i \div d
<1>0. p \in Nat
  OBVIOUS
<1>1. i \in Nat
  BY <1>0
<1>2. m \in Int /\ d * m <= i /\ i < d * m + d /\ i % d = i - d * m
  <2> HIDE DEF i
  <2> QED
    BY <1>1
<1>3. d * m <= d * a + r /\ d * a < d * m + d
  BY <1>2
<1>4. m = a
  <2> HIDE DEF m
  <2>1. CASE m < a
    <3>1. a >= m + 1
      BY <1>2, <2>1
    <3>2. d * a >= d * (m + 1)
      BY <1>2, <3>1
    <3>3. d * (m + 1) = d * m + d
      BY <1>2
    <3> QED
      BY <1>2, <1>3, <3>2, <3>3
  <2>2. CASE m > a
    <3>1. m >= a + 1
      BY <1>2, <2>2
    <3>2. d * m >= d * (a + 1)
      BY <1>2, <3>1
    <3>3. d * (a + 1) = d * a + d
      OBVIOUS
    <3> QED
      BY <1>2, <1>3, <3>2, <3>3
  <2> QED
    BY <1>2, <2>1, <2>2
<1>5. i % d = p + r - d * a
  BY <1>2, <1>4
<1> HIDE DEF m
<1> QED
  BY <1>0, <1>4, <1>5 DEF m

(* Both layouts of a tensor hold the score of every anchor and class where    *)
(* it is looked for (tensor_at_i8).                                         *)
LEMMA StoredByPlane ==
  ASSUME NEW q, NEW classes \in Nat \ {0}, NEW len \in Nat,
         NEW o \in 0 .. len - 1, NEW c \in 0 .. classes - 1
  PROVE  Stored(q, classes, len, 0)[c * len + o] = q[o][c]
<1> DEFINE i == c * len + o
<1>1. len \in Nat \ {0} /\ c \in Nat /\ o \in Nat
  OBVIOUS
<1>2. i \div len = c /\ i % len = o
  BY <1>1, DividedBack
<1>3. i \in 0 .. classes * len - 1
  <2>1. c * len \in Nat /\ classes * len \in Nat /\ (classes - 1) * len = classes * len - len
    BY <1>1
  <2>2. c * len <= (classes - 1) * len
    BY <1>1
  <2> QED
    BY <1>1, <2>1, <2>2
<1> HIDE DEF i
<1>4. Stored(q, classes, len, 0)[i] = q[i % len][i \div len]
  BY <1>3 DEF Stored
<1> QED
  BY <1>2, <1>4 DEF i

(* The same for a tensor stored in blocks of c2 channels. *)
LEMMA StoredByBlock ==
  ASSUME NEW q, NEW classes \in Nat \ {0}, NEW len \in Nat, NEW c2 \in Nat \ {0},
         NEW o \in 0 .. len - 1, NEW b \in Nat, NEW k \in 0 .. c2 - 1, b * c2 + k < classes
  PROVE  Stored(q, classes, len, c2)[(b * len + o) * c2 + k] = q[o][b * c2 + k]
<1> DEFINE i == (b * len + o) * c2 + k
           blocks == (classes + c2 - 1) \div c2
           row == o * c2 + k
<1>1. len \in Nat \ {0} /\ o \in Nat /\ k \in Nat /\ c2 \in Nat
  OBVIOUS
<1>2. b * len + o \in Nat /\ b * c2 \in Nat /\ len * c2 \in Nat \ {0} /\ o * c2 \in Nat
  BY <1>1
<1>3. i \div c2 = b * len + o /\ i % c2 = k
  BY <1>2, DividedBack
<1>4. (b * len + o) % len = o
  BY <1>1, DividedBack
<1>5. i = b * (len * c2) + row
  <2>1. (b * len + o) * c2 = b * (len * c2) + o * c2
    BY <1>1
  <2> QED
    BY <1>1, <1>2, <2>1
<1>6. row \in 0 .. len * c2 - 1
  <2>1. o * c2 <= (len - 1) * c2 /\ (len - 1) * c2 = len * c2 - c2
    BY <1>1
  <2> QED
    BY <1>1, <1>2, <2>1
<1>7. i \div (len * c2) = b
  <2> HIDE DEF i, row
  <2> QED
    BY <1>2, <1>5, <1>6, DividedBack
<1>8. b + 1 <= blocks /\ blocks \in Int
  <2> DEFINE most == classes + c2 - 1
  <2>1. most \in Nat
    BY <1>1
  <2>2. blocks \in Int /\ most < c2 * blocks + c2
    <3> HIDE DEF most
    <3> QED
      BY <2>1 DEF most
  <2> HIDE DEF blocks
  <2>3. b * c2 < c2 * blocks
    BY <1>1, <1>2, <2>2
  <2>4. CASE blocks <= b
    <3>1. c2 * blocks <= c2 * b
      BY <2>2, <2>4
    <3> QED
      BY <1>2, <2>2, <2>3, <3>1
  <2> QED
    BY <2>2, <2>4 DEF blocks
<1>9. i \in 0 .. blocks * len * c2 - 1
  <2> HIDE DEF blocks, i, row
  <2>1. blocks * len * c2 = blocks * (len * c2)
    BY <1>1, <1>8
  <2>2. (b + 1) * (len * c2) <= blocks * (len * c2)
    BY <1>2, <1>8
  <2>3. (b + 1) * (len * c2) = b * (len * c2) + len * c2 /\ b * (len * c2) \in Nat
    BY <1>2
  <2>4. blocks * (len * c2) \in Int
    BY <1>2, <1>8
  <2> QED
    BY <1>2, <1>5, <1>6, <2>1, <2>2, <2>3, <2>4
<1> HIDE DEF i, row
<1>10. Stored(q, classes, len, c2)[i] =
         LET c == (i \div (len * c2)) * c2 + (i % c2)
         IN  IF c < classes THEN q[(i \div c2) % len][c] ELSE Hi
  <2>1. c2 # 0
    OBVIOUS
  <2> HIDE DEF blocks
  <2> QED
    BY <1>9, <2>1 DEF Stored, blocks
<1> QED
  BY <1>3, <1>4, <1>7, <1>10 DEF i

(* In both layouts the tensor is read where the score of a class of an anchor   *)
(* was stored.                                                              *)
LEMMA TensorHolds ==
  ASSUME NEW q, NEW classes \in Nat \ {0}, NEW len \in Nat, NEW c2 \in Nat,
         NEW o \in 0 .. len - 1, NEW c \in 0 .. classes - 1
  PROVE  tensor_at_i8(Stored(q, classes, len, c2), c, o, len, c2) = q[o][c]
<1>1. CASE c2 = 0
  BY <1>1, StoredByPlane DEF tensor_at_i8
<1>2. CASE c2 # 0
  <2> DEFINE b == c \div c2
             k == c % c2
  <2>1. c2 \in Nat \ {0}
    BY <1>2
  <2>2. b \in Nat /\ k \in 0 .. c2 - 1 /\ c = b * c2 + k
    <3>1. b \in Int /\ c2 * b <= c /\ c < c2 * b + c2 /\ k = c - c2 * b
      BY <2>1
    <3> HIDE DEF b, k
    <3>2. CASE b < 0
      <4>1. c2 * (b + 1) <= 0 /\ c2 * (b + 1) = c2 * b + c2
        BY <2>1, <3>1, <3>2
      <4> QED
        BY <3>1, <4>1
    <3>3. c2 * b \in Int /\ c2 * b = b * c2
      BY <3>1
    <3> QED
      BY <3>1, <3>2, <3>3
  <2> HIDE DEF b, k
  <2>3. Stored(q, classes, len, c2)[(b * len + o) * c2 + k] = q[o][c]
    BY <2>1, <2>2, StoredByBlock
  <2> QED
    BY <1>2, <2>3 DEF tensor_at_i8, b, k
<1> QED
  BY <1>1, <1>2

(* The highest score of an anchor, in either layout, passes the number it is  *)
(* filled with exactly when some class does.                                *)
LEMMA HighestPasses ==
  ASSUME NEW fill \in Int, NEW S \in SUBSET (Lo .. Hi)
  PROVE  /\ Max({fill} \cup S) \in Int
         /\ Max({fill} \cup S) > fill <=> \E x \in S : x > fill
<1> DEFINE all == {fill} \cup S
           hi == IF fill > Hi THEN fill ELSE Hi
<1>0. Lo \in Int /\ Hi \in Int
  BY PostprocessAssumption DEF Lo, Hi
<1>1. hi \in Int /\ all \in SUBSET Int /\ all # {} /\ \A x \in all : x <= hi
  BY <1>0
<1>2. Max(all) \in all /\ \A x \in all : x <= Max(all)
  <2> HIDE DEF all, hi
  <2> QED
    BY <1>1, GreatestIs
<1>3. PICK m : m = Max(all)
  OBVIOUS
<1>4. m \in all /\ \A x \in all : x <= m
  BY <1>2, <1>3
<1>5. m \in Int /\ (m > fill <=> \E x \in S : x > fill)
  BY <1>0, <1>4
<1> QED
  BY <1>3, <1>5

(* The best score of an anchor is above the value the search starts from just  *)
(* when one of its scores is: plane by plane,                               *)
LEMMA HighestByPlane ==
  ASSUME NEW q, NEW classes \in Nat \ {0}, NEW len \in Nat, NEW o \in 0 .. len - 1,
         NEW fill \in Int, \A c \in 0 .. classes - 1 : q[o][c] \in Lo .. Hi
  PROVE  LET best == max_score_per_anchor_i8(Stored(q, classes, len, 0), classes, len, fill)
         IN  /\ best[o] \in Int
             /\ best[o] > fill <=> \E c \in 0 .. classes - 1 : q[o][c] > fill
<1> DEFINE t == Stored(q, classes, len, 0)
           S == {t[c * len + o] : c \in 0 .. classes - 1}
<1>1. \A c \in 0 .. classes - 1 : t[c * len + o] = q[o][c]
  BY StoredByPlane
<1> HIDE DEF t
<1>2. S \in SUBSET (Lo .. Hi)
  BY <1>1
<1>3. max_score_per_anchor_i8(t, classes, len, fill)[o] = Max({fill} \cup S)
  BY DEF max_score_per_anchor_i8
<1>4. (\E x \in S : x > fill) <=> \E c \in 0 .. classes - 1 : q[o][c] > fill
  BY <1>1
<1> HIDE DEF S
<1> QED
  BY <1>2, <1>3, <1>4, HighestPasses DEF t

(* and block by block, where the places after the last class are padding. *)
LEMMA HighestByBlock ==
  ASSUME NEW q, NEW classes \in Nat \ {0}, NEW len \in Nat, NEW c2 \in Nat \ {0},
         NEW o \in 0 .. len - 1, NEW fill \in Int,
         \A c \in 0 .. classes - 1 : q[o][c] \in Lo .. Hi
  PROVE  LET best == max_score_per_anchor_nc1hwc2(Stored(q, classes, len, c2), classes, len,
                                                  c2, fill)
         IN  /\ best[o] \in Int
             /\ best[o] > fill <=> \E c \in 0 .. classes - 1 : q[o][c] > fill
<1> DEFINE t == Stored(q, classes, len, c2)
           lanes(b) == Min({c2, classes - b * c2})
           block(b) == {t[(b * len + o) * c2 + k] : k \in 0 .. lanes(b) - 1}
           blocks == 0 .. (classes - 1) \div c2
           S == UNION {block(b) : b \in blocks}
<1>1. ASSUME NEW b \in Nat
      PROVE  \A k \in Int : k <= lanes(b) - 1 <=> k < c2 /\ b * c2 + k < classes
  <2>1. b * c2 \in Nat
    OBVIOUS
  <2> DEFINE left == classes - b * c2
  <2>2. left \in Int /\ \A k \in Int : b * c2 + k < classes <=> k < left
    BY <2>1
  <2> HIDE DEF left
  <2>3. Min({c2, left}) = IF c2 <= left THEN c2 ELSE left
    BY <2>2 DEF Min
  <2> QED
    BY <2>2, <2>3 DEF left
<1> HIDE DEF lanes
<1>2. ASSUME NEW b \in Nat, NEW k \in 0 .. lanes(b) - 1
      PROVE  b * c2 + k \in 0 .. classes - 1 /\ t[(b * len + o) * c2 + k] = q[o][b * c2 + k]
  <2>1. k \in 0 .. c2 - 1 /\ b * c2 + k < classes /\ b * c2 \in Nat
    BY <1>1, <1>2
  <2>2. b * c2 + k \in 0 .. classes - 1
    BY <2>1
  <2>3. Stored(q, classes, len, c2)[(b * len + o) * c2 + k] = q[o][b * c2 + k]
    <3> HIDE DEF t
    <3>1. /\ classes \in Nat \ {0} /\ len \in Nat /\ c2 \in Nat \ {0} /\ o \in 0 .. len - 1
          /\ b \in Nat /\ k \in 0 .. c2 - 1 /\ b * c2 + k < classes
      BY <2>1
    <3> QED
      BY <3>1, StoredByBlock
  <2> QED
    BY <2>2, <2>3
<1>3. blocks \subseteq Nat
  OBVIOUS
<1> HIDE DEF t
<1>4. S \in SUBSET (Lo .. Hi)
  BY <1>2, <1>3
<1>5. max_score_per_anchor_nc1hwc2(t, classes, len, c2, fill)[o] = Max({fill} \cup S)
  BY DEF max_score_per_anchor_nc1hwc2, lanes
<1>6. ASSUME NEW x \in S, x > fill
      PROVE  \E c \in 0 .. classes - 1 : q[o][c] > fill
  <2>1. PICK b \in blocks : x \in block(b)
    OBVIOUS
  <2>2. PICK k \in 0 .. lanes(b) - 1 : x = t[(b * len + o) * c2 + k]
    BY <2>1
  <2> QED
    BY <1>2, <1>3, <1>6, <2>2
<1>7. ASSUME NEW c \in 0 .. classes - 1, q[o][c] > fill
      PROVE  \E x \in S : x > fill
  <2> DEFINE b == c \div c2
             k == c % c2
  <2>1. b \in Int /\ c2 * b <= c /\ c < c2 * b + c2 /\ k = c - c2 * b /\ k \in Int
    OBVIOUS
  <2> DEFINE z == (classes - 1) \div c2
  <2>2. z \in Int /\ c2 * z <= classes - 1 /\ classes - 1 < c2 * z + c2
    OBVIOUS
  <2> HIDE DEF b, k, z
  <2>3. b >= 0 /\ c2 * b = b * c2
    <3>1. CASE b < 0
      <4>1. c2 * (b + 1) <= 0 /\ c2 * (b + 1) = c2 * b + c2
        BY <2>1, <3>1
      <4> QED
        BY <2>1, <4>1
    <3> QED
      BY <2>1, <3>1
  <2>4. b <= z
    <3>1. CASE b >= z + 1
      <4>1. c2 * (z + 1) <= c2 * b /\ c2 * (z + 1) = c2 * z + c2
        BY <2>1, <2>2, <3>1
      <4> QED
        BY <2>1, <2>2, <4>1
    <3> QED
      BY <2>1, <2>2, <3>1
  <2>5. b \in blocks /\ b \in Nat
    BY <2>1, <2>2, <2>3, <2>4 DEF z
  <2>6. c2 * b \in Int /\ k >= 0 /\ k < c2 /\ b * c2 + k = c /\ c < classes
    BY <2>1, <2>3
  <2>7. k \in 0 .. lanes(b) - 1
    BY <1>1, <2>1, <2>5, <2>6
  <2>8. t[(b * len + o) * c2 + k] = q[o][c]
    BY <1>2, <2>5, <2>6, <2>7
  <2>9. q[o][c] \in block(b)
    BY <2>7, <2>8
  <2>10. q[o][c] \in S
    BY <2>5, <2>9
  <2> QED
    BY <1>7, <2>10
<1> HIDE DEF S
<1> QED
  BY <1>4, <1>5, <1>6, <1>7, HighestPasses DEF t

(* What one anchor becomes in each of the three decodings. *)
LEMMA AnchorAgrees ==
  ASSUME NEW b, Decodable(b), NEW o \in DOMAIN b.q
  PROVE  /\ decode_seg_branch_i8(b)[o] = decode_detect_branch(b)[o]
         /\ \/ decode_detect_branch_i8(b)[o] = decode_detect_branch(b)[o]
            \/ /\ decode_detect_branch_i8(b)[o] = NoClass
               /\ \/ SumIsBelow(b, o)
                  \/ b.threshold + 4 * b.zp < 0 /\ BestScore(b, o) < b.threshold + 4
<1> DEFINE len == Cardinality(DOMAIN b.q)
           n == b.classes
           C == 0 .. n - 1
           q == b.q[o]
           T == b.threshold
           zp == b.zp
           thres == qnt_f32_to_affine(T, zp, 4)
           gate == Clamped((T + 4 * zp) \div 4 - 1, Lo, Hi)
           real == [c \in C |-> deqnt_affine_to_f32(q[c], zp, 4)]
           firsts(f) == {c \in C : \A d \in C : f[d] <= f[c]}
           float == ClassOfScores(b, o)
<1>1. /\ n \in Nat \ {0} /\ zp \in Lo .. Hi /\ T \in Nat /\ b.c2 \in Nat
      /\ len \in Nat /\ o \in 0 .. len - 1 /\ q \in [C -> Lo .. Hi]
      /\ b.sum[o] \in Lo .. Hi /\ b.sumZp \in Lo .. Hi /\ b.sumStep \in Nat \ {0}
  BY FS_CardinalityType DEF Decodable
<1>2. Lo \in Int /\ Hi \in Int /\ zp \in Int /\ Hi >= Lo
  BY <1>1, PostprocessAssumption DEF Lo, Hi
<1>3. \A c \in C : q[c] \in Int /\ q[c] \in Lo .. Hi /\ q[c] <= Hi
  BY <1>1, <1>2
<1>4. real \in [C -> Int] /\ \A c \in C : real[c] = 4 * (q[c] - zp) /\ real[c] <= 4 * (Hi - zp)
  <2> HIDE DEF q
  <2>1. \A c \in C : LET x == deqnt_affine_to_f32(q[c], zp, 4)
                     IN  x \in Int /\ x = 4 * (q[c] - zp) /\ x <= 4 * (Hi - zp)
    BY <1>2, <1>3 DEF deqnt_affine_to_f32
  <2> QED
    BY <2>1
<1>5. firsts(real) = firsts(q)
  <2> HIDE DEF real, C, q
  <2>1. \A c \in C, d \in C : real[d] <= real[c] <=> q[d] <= q[c]
    BY <1>2, <1>3, <1>4
  <2> QED
    BY <2>1
<1>6. PICK first : first = Min(firsts(q))
  OBVIOUS
<1>7. float = IF \E c \in C : real[c] > T THEN first ELSE NoClass
  <2>1. Max({T, 0}) = T
    BY <1>1 DEF Max
  <2>2. float = BestClass(real, T)
    BY <2>1 DEF ClassOfScores
  <2>3. 4 * (Hi - zp) \in Int /\ DOMAIN real = 0 .. n - 1
    BY <1>2
  <2> HIDE DEF real, float
  <2>4. BestClass(real, T) = IF \E c \in 0 .. n - 1 : real[c] > T
                             THEN Min({c \in 0 .. n - 1 : \A d \in 0 .. n - 1 : real[d] <= real[c]})
                             ELSE NoClass
    <3>1. /\ n \in Nat /\ T \in Int
          /\ \A c \in 0 .. n - 1 : real[c] \in Int /\ real[c] <= 4 * (Hi - zp)
      BY <1>1, <1>4
    <3> QED
      BY <2>3, <3>1, BestClassIs
  <2> QED
    BY <1>5, <1>6, <2>2, <2>4
<1>8. decode_detect_branch(b)[o] = float
  BY DEF decode_detect_branch
<1>9. decode_seg_branch_i8(b)[o] = float
  <2> DEFINE best == max_score_per_anchor_i8(Stored(b.q, n, len, 0), n, len, gate)
  <2>1. decode_seg_branch_i8(b)[o] = IF best[o] <= gate THEN NoClass ELSE float
    BY DEF decode_seg_branch_i8
  <2>2. gate \in Int /\ \A c \in C : real[c] > T => q[c] > gate
    BY <1>1, <1>3, GateIsBelow
  <2>3. PICK g : g = gate
    OBVIOUS
  <2> HIDE DEF gate
  <2>4. best[o] \in Int /\ (best[o] > gate <=> \E c \in C : q[c] > gate)
    BY <1>1, <1>3, <2>2, HighestByPlane
  <2> HIDE DEF best, float, real
  <2>5. CASE \E c \in C : q[c] > gate
    BY <2>1, <2>2, <2>4, <2>5
  <2>6. CASE ~\E c \in C : q[c] > gate
    BY <1>7, <2>1, <2>2, <2>4, <2>6
  <2> QED
    BY <2>5, <2>6
<1>10. \/ decode_detect_branch_i8(b)[o] = float
       \/ /\ decode_detect_branch_i8(b)[o] = NoClass
          /\ SumIsBelow(b, o) \/ (T + 4 * zp < 0 /\ BestScore(b, o) < T + 4)
  <2> DEFINE t == Stored(b.q, n, len, b.c2)
             best == IF b.c2 # 0 THEN max_score_per_anchor_nc1hwc2(t, n, len, b.c2, thres)
                     ELSE max_score_per_anchor_i8(t, n, len, thres)
             scores == [c \in C |-> tensor_at_i8(t, c, o, len, b.c2)]
             gated == b.hasSum /\ b.sum[o] < sum_thres_i8(b)
             dropped == gated \/ best[o] <= thres
  <2>1. decode_detect_branch_i8(b)[o] = IF dropped THEN NoClass ELSE BestClass(scores, thres)
    BY DEF decode_detect_branch_i8
  <2>2. thres \in Int
    BY <1>1, <1>3, ThresholdIs
  <2>3. \A c \in C : /\ q[c] > thres => real[c] > T
                     /\ real[c] > T /\ q[c] <= thres => T + 4 * zp < 0 /\ real[c] < T + 4
    BY <1>1, <1>3, ThresholdIs
  <2>4. scores = q
    <3>1. \A c \in C : tensor_at_i8(t, c, o, len, b.c2) = q[c]
      BY <1>1, TensorHolds
    <3> HIDE DEF t, q
    <3> QED
      BY <1>1, <3>1
  <2> HIDE DEF thres
  <2>5. best[o] \in Int /\ (best[o] > thres <=> \E c \in C : q[c] > thres)
    <3>1. CASE b.c2 = 0
      <4> DEFINE plane == max_score_per_anchor_i8(Stored(b.q, n, len, 0), n, len, thres)
      <4>1. n \in Nat \ {0} /\ len \in Nat /\ \A c \in 0 .. n - 1 : q[c] \in Lo .. Hi
        BY <1>1, <1>3
      <4>2. best[o] = plane[o]
        BY <3>1
      <4>3. plane[o] \in Int /\ (plane[o] > thres <=> \E c \in 0 .. n - 1 : q[c] > thres)
        BY <1>1, <2>2, <4>1, HighestByPlane
      <4> HIDE DEF best, plane
      <4> QED
        BY <4>2, <4>3
    <3>2. CASE b.c2 # 0
      BY <1>1, <1>3, <2>2, <3>2, HighestByBlock
    <3> QED
      BY <3>1, <3>2
  <2>6. BestClass(scores, thres) = IF \E c \in C : q[c] > thres THEN first ELSE NoClass
    <3>1. DOMAIN q = 0 .. n - 1
      BY <1>1
    <3> HIDE DEF scores, q
    <3>2. BestClass(q, thres) = IF \E c \in 0 .. n - 1 : q[c] > thres
                                THEN Min({c \in 0 .. n - 1 : \A d \in 0 .. n - 1 : q[d] <= q[c]})
                                ELSE NoClass
      BY <1>1, <1>2, <1>3, <2>2, <3>1, BestClassIs
    <3> QED
      BY <1>6, <2>4, <3>2
  <2> HIDE DEF best, float, real, scores
  <2>7. CASE gated
    <3>1. decode_detect_branch_i8(b)[o] = NoClass
      BY <2>7, <2>1
    <3>2. deqnt_affine_to_f32(b.sum[o], b.sumZp, b.sumStep) < T
      BY <1>1, <2>7, SumGateIs DEF sum_thres_i8
    <3> QED
      BY <2>7, <3>1, <3>2 DEF SumIsBelow
  <2>8. CASE ~gated /\ \E c \in C : q[c] > thres
    <3>1. PICK c \in C : q[c] > thres
      BY <2>8
    <3>2. real[c] > T /\ ~dropped
      BY <1>1, <1>3, <2>2, <2>3, <2>5, <2>8, <3>1
    <3> QED
      BY <1>7, <2>1, <2>6, <3>1, <3>2
  <2>9. CASE ~\E c \in C : q[c] > thres
    <3>1. decode_detect_branch_i8(b)[o] = NoClass
      BY <2>1, <2>6, <2>9
    <3>2. CASE ~\E c \in C : real[c] > T
      BY <1>7, <3>1, <3>2
    <3>3. CASE \E c \in C : real[c] > T
      <4>1. PICK c \in C : real[c] > T
        BY <3>3
      <4>2. \A d \in C : q[d] \in Int /\ q[d] <= thres /\ real[d] \in Int
        BY <1>3, <1>4, <2>2, <2>9
      <4>3. T + 4 * zp < 0
        BY <2>3, <4>1, <4>2
      <4>4. \A d \in C : real[d] < T + 4
        BY <1>1, <2>3, <4>2
      <4> DEFINE all == {deqnt_affine_to_f32(q[d], zp, 4) : d \in C}
      <4>5. \A d \in C : real[d] = deqnt_affine_to_f32(q[d], zp, 4)
        BY DEF real
      <4> HIDE DEF q
      <4>6. all \in SUBSET Int /\ all # {} /\ \A x \in all : x <= T + 4 /\ x < T + 4
        <5>0. \A d \in C : real[d] \in Int /\ real[d] < T + 4 /\ real[d] <= T + 4
          BY <1>1, <4>2, <4>4
        <5>1. \A d \in C : LET x == deqnt_affine_to_f32(q[d], zp, 4)
                           IN  x \in Int /\ x <= T + 4 /\ x < T + 4
          BY <4>5, <5>0
        <5> HIDE DEF C
        <5> QED
          BY <4>1, <5>1
      <4>7. BestScore(b, o) = Max(all)
        BY DEF BestScore, q
      <4> HIDE DEF all
      <4>8. Max(all) \in all
        <5>1. T + 4 \in Int /\ all \in SUBSET Int /\ all # {} /\ \A x \in all : x <= T + 4
          BY <1>1, <4>6
        <5> QED
          BY <5>1, GreatestIs
      <4> QED
        BY <3>1, <4>3, <4>6, <4>7, <4>8
    <3> QED
      BY <3>2, <3>3
  <2> QED
    BY <2>7, <2>8, <2>9
<1> QED
  BY <1>8, <1>9, <1>10

(* For every branch of tensors, in both layouts, what is decoded from the     *)
(* quantized scores is what is decoded from floats: for segmentation the    *)
(* same, for detection never another class, and nothing is lost but where   *)
(* the stored sum is itself below the threshold, in its own zero point and  *)
(* scale, or within one step above a threshold below the quantized zero     *)
(* (postprocess.cc).                                                        *)
THEOREM DecodingAlwaysAgrees == Spec => []QuantizedAgreesWithFloat
<1>1. Init => QuantizedAgreesWithFloat
  <2>1. Init => ~result.done
    BY DEF Init, NotYet
  <2> QED
    BY <2>1 DEF QuantizedAgreesWithFloat, Returned
<1>2. ASSUME Legal(input), QuantizedAgreesWithFloat, [Next]_vars
      PROVE  QuantizedAgreesWithFloat'
  <2>1. CASE UNCHANGED vars
    BY <1>2, <2>1 DEF QuantizedAgreesWithFloat, Returned, vars
  <2>2. CASE Next /\ ~Returned("decode")'
    BY <2>2 DEF QuantizedAgreesWithFloat
  <2>3. CASE Next /\ Returned("decode")'
    <3> DEFINE b == input.of
    <3>1. /\ input' = input /\ input.task = "decode"
          /\ result'.of = [float |-> decode_detect_branch(b),
                           detect |-> decode_detect_branch_i8(b), seg |-> decode_seg_branch_i8(b)]
      BY <2>3, OneCall DEF Decode, Called, Returns
    <3>2. Decodable(b)
      BY <1>2, <3>1 DEF Legal
    <3>3. PICK decoded : decoded = result'.of
      OBVIOUS
    <3>4. /\ decoded.float = decode_detect_branch(b) /\ decoded.seg = decode_seg_branch_i8(b)
          /\ decoded.detect = decode_detect_branch_i8(b)
      BY <3>1, <3>3
    <3>5. decoded.seg = decoded.float
      <4>1. \A o \in DOMAIN b.q : decode_seg_branch_i8(b)[o] = decode_detect_branch(b)[o]
        BY <3>2, AnchorAgrees
      <4>2. /\ decode_seg_branch_i8(b) = [o \in DOMAIN b.q |-> decode_seg_branch_i8(b)[o]]
            /\ decode_detect_branch(b) = [o \in DOMAIN b.q |-> decode_detect_branch(b)[o]]
        BY DEF decode_seg_branch_i8, decode_detect_branch
      <4> QED
        BY <3>4, <4>1, <4>2
    <3>6. AgreesWithFloat(b, decoded)
      BY <3>2, <3>4, <3>5, AnchorAgrees DEF AgreesWithFloat
    <3> QED
      BY <3>1, <3>3, <3>6 DEF QuantizedAgreesWithFloat
  <2> QED
    BY <1>2, <2>1, <2>2, <2>3
<1> QED
  BY <1>1, <1>2, CallsStayLegal, PTL DEF Spec

-----------------------------------------------------------------------------
(* Counting up from 0. *)
LEMMA CountingFromZero ==
  ASSUME NEW n \in Nat, NEW S, 0 \in S, \A m \in 1 .. n : m - 1 \in S => m \in S
  PROVE  0 .. n \subseteq S
<1> DEFINE T == {m \in 1 .. n + 1 : m - 1 \in S}
<1>1. 1 \in T
  OBVIOUS
<1>2. ASSUME NEW m \in 2 .. n + 1, m - 1 \in T
      PROVE  m \in T
  <2>1. m - 1 \in 1 .. n /\ (m - 1) - 1 \in S /\ m \in 1 .. n + 1
    BY <1>2
  <2> QED
    BY <2>1
<1>3. n + 1 \in Nat
  OBVIOUS
<1> HIDE DEF T
<1>4. 1 .. n + 1 \subseteq T
  BY <1>1, <1>2, <1>3, CountingUp
<1> SUFFICES ASSUME NEW m \in 0 .. n PROVE m \in S
  OBVIOUS
<1>5. m + 1 \in 1 .. n + 1 /\ (m + 1) - 1 = m
  OBVIOUS
<1>6. m + 1 \in T
  BY <1>4, <1>5
<1> QED
  BY <1>5, <1>6 DEF T

(* The equation of MapThenFoldSet over the places 1 .. n, the last taken out     *)
(* first, for a step F.                                                     *)
FoldsPlaces(g, n, base, F) ==
    \A s \in SUBSET (1 .. n) : g[s] = IF s = {} THEN base ELSE F[Max(s)][g[s \ {Max(s)}]]

(* Such a fold is defined: for a step F that stays in V there is a function on *)
(* the sets of places that obeys the equation.                              *)
LEMMA FoldExists ==
  ASSUME NEW n \in Nat, NEW V, NEW base \in V, NEW F \in [1 .. n -> [V -> V]]
  PROVE  \E g \in [SUBSET (1 .. n) -> V] : FoldsPlaces(g, n, base, F)
<1> DEFINE Obeys(g, m) == FoldsPlaces(g, m, base, F)
           Built == {m \in 0 .. n : \E g \in [SUBSET (1 .. m) -> V] : Obeys(g, m)}
<1>1. 0 \in Built
  <2> DEFINE g == [s \in SUBSET (1 .. 0) |-> base]
  <2>1. \A s \in SUBSET (1 .. 0) : s = {}
    OBVIOUS
  <2>2. g \in [SUBSET (1 .. 0) -> V] /\ Obeys(g, 0)
    BY <2>1 DEF FoldsPlaces
  <2>3. 0 \in 0 .. n
    OBVIOUS
  <2> HIDE DEF g, Obeys
  <2> QED
    BY <2>2, <2>3
<1>2. ASSUME NEW m \in 1 .. n, m - 1 \in Built
      PROVE  m \in Built
  <2>1. PICK g \in [SUBSET (1 .. m - 1) -> V] : Obeys(g, m - 1)
    BY <1>2
  <2> DEFINE h == [s \in SUBSET (1 .. m) |->
                     IF m \in s THEN F[m][g[s \ {m}]] ELSE g[s]]
  <2>2. ASSUME NEW s \in SUBSET (1 .. m)
        PROVE  /\ s \ {m} \in SUBSET (1 .. m - 1)
               /\ m \notin s => s \in SUBSET (1 .. m - 1)
               /\ m \in s => Max(s) = m
               /\ s # {} => Max(s) \in s
    <3>1. \A x \in s : x \in 1 .. m
      OBVIOUS
    <3>2. \A x \in 1 .. m : x # m => x \in 1 .. m - 1
      OBVIOUS
    <3>3. m \in Int /\ s \in SUBSET Int /\ \A x \in s : x <= m
      BY <3>1
    <3>4. s # {} => Max(s) \in s /\ \A x \in s : x <= Max(s)
      <4> HIDE DEF h
      <4> QED
        BY <3>3, GreatestIs
    <3>5. m \in s => Max(s) = m
      <4>1. PICK k : k = Max(s)
        OBVIOUS
      <4>2. m \in s => k \in s /\ m <= k
        BY <3>4, <4>1
      <4>3. m \in s => k \in Int /\ k <= m
        BY <3>3, <4>2
      <4>4. m \in s => k = m
        BY <3>3, <4>2, <4>3
      <4> QED
        BY <4>1, <4>4
    <3> QED
      BY <3>1, <3>2, <3>4, <3>5
  <2>3. ASSUME NEW s \in SUBSET (1 .. m)
        PROVE  /\ h[s] \in V
               /\ h[s] = IF m \in s THEN F[m][g[s \ {m}]] ELSE g[s]
    <3>1. m \in s => g[s \ {m}] \in V
      BY <2>2
    <3>2. m \in s => F[m][g[s \ {m}]] \in V
      BY <3>1
    <3>3. m \notin s => g[s] \in V
      BY <2>2
    <3> QED
      BY <3>2, <3>3
  <2>4. h \in [SUBSET (1 .. m) -> V]
    BY <2>3
  <2>5. ASSUME NEW s \in SUBSET (1 .. m)
        PROVE  h[s] = IF s = {} THEN base ELSE F[Max(s)][h[s \ {Max(s)}]]
    <3> HIDE DEF h
    <3>1. CASE m \in s
      <4>1. s \ {m} \in SUBSET (1 .. m) /\ m \notin s \ {m}
        OBVIOUS
      <4>2. h[s \ {m}] = g[s \ {m}]
        BY <2>3, <4>1
      <4> QED
        BY <2>2, <2>3, <3>1, <4>2
    <3>2. CASE m \notin s
      <4>1. h[s] = g[s]
        BY <2>3, <3>2
      <4>2. s \in SUBSET (1 .. m - 1)
        BY <2>2, <3>2
      <4>3. g[s] = IF s = {} THEN base ELSE F[Max(s)][g[s \ {Max(s)}]]
        BY <2>1, <4>2 DEF FoldsPlaces
      <4>4. s \ {Max(s)} \in SUBSET (1 .. m) /\ m \notin s \ {Max(s)}
        BY <3>2
      <4>5. h[s \ {Max(s)}] = g[s \ {Max(s)}]
        BY <2>3, <4>4
      <4> QED
        BY <4>1, <4>3, <4>5
    <3> QED
      BY <3>1, <3>2
  <2>6. Obeys(h, m) /\ m \in 0 .. n
    <3>1. m \in 0 .. n
      OBVIOUS
    <3> HIDE DEF h
    <3> QED
      BY <2>5, <3>1 DEF FoldsPlaces
  <2> HIDE DEF h, Obeys
  <2> QED
    BY <2>4, <2>6
<1>3. n \in Built
  <2> HIDE DEF Built
  <2>1. n \in 0 .. n /\ \A m \in 1 .. n : m - 1 \in Built => m \in Built
    BY <1>2
  <2> QED
    BY <1>1, <2>1, CountingFromZero
<1> QED
  BY <1>3

(* The sets of places such a fold goes through. *)
LEMMA PlacesUpTo ==
  ASSUME NEW n \in Nat, NEW m \in 1 .. n
  PROVE  /\ Max(1 .. m) = m /\ (1 .. m) \ {m} = 1 .. m - 1
         /\ 1 .. m # {} /\ 1 .. m \in SUBSET (1 .. n) /\ 1 .. m - 1 \in SUBSET (1 .. n)
<1>1. m \in Nat /\ m \in 1 .. m /\ 1 .. m \in SUBSET Int /\ \A x \in 1 .. m : x <= m
  OBVIOUS
<1>2. Max(1 .. m) \in 1 .. m /\ \A x \in 1 .. m : x <= Max(1 .. m)
  BY <1>1, GreatestIs
<1>3. PICK k : k = Max(1 .. m)
  OBVIOUS
<1>4. k = m
  BY <1>1, <1>2, <1>3
<1>5. (1 .. m) \ {m} = 1 .. m - 1
  OBVIOUS
<1> QED
  BY <1>1, <1>3, <1>4, <1>5

(* The branches of a pose network, one after the other. *)
PoseStates == [base : Nat, anchors : SUBSET Nat]

(* The fold of post_process_pose, branch by branch. *)
LEMMA PosesFold ==
  ASSUME NEW branches \in Seq(PoseBranches)
  PROVE  \E h : /\ h[0] = [base |-> 0, anchors |-> {}]
                /\ \A m \in 1 .. Len(branches) : h[m] = PoseBranch(h[m - 1], branches[m])
                /\ post_process_pose(branches) = h[Len(branches)].anchors
<1> DEFINE n == Len(branches)
           V == PoseStates
           base == [base |-> 0, anchors |-> {}]
           F == [m \in 1 .. n |-> [v \in V |-> PoseBranch(v, branches[m])]]
<1>1. n \in Nat /\ DOMAIN branches = 1 .. n /\ base \in V
  BY DEF PoseStates
<1>2. ASSUME NEW m \in 1 .. n, NEW v \in V
      PROVE  PoseBranch(v, branches[m]) \in V
  <2>1. branches[m] \in PoseBranches
    OBVIOUS
  <2> DEFINE b == branches[m]
  <2>2. b.q \in Seq(Lo .. Hi) /\ Len(b.q) \in Nat /\ v.base \in Nat /\ v.anchors \in SUBSET Nat
    BY <2>1 DEF PoseBranches, PoseStates
  <2>3. \A o \in PoseKept(b) : o \in 1 .. Len(b.q)
    BY <2>2 DEF PoseKept
  <2> HIDE DEF b
  <2>4. \A o \in PoseKept(b) : v.base + o - 1 \in Nat
    BY <2>2, <2>3
  <2>5. v.anchors \cup {v.base + o - 1 : o \in PoseKept(b)} \in SUBSET Nat
    BY <2>2, <2>4
  <2>6. v.base + Len(b.q) \in Nat
    BY <2>2
  <2> QED
    BY <2>5, <2>6 DEF PoseBranch, PoseStates, b
<1>3. F \in [1 .. n -> [V -> V]]
  BY <1>2
<1>4. \A m \in 1 .. n, v \in V : F[m][v] = PoseBranch(v, branches[m])
  OBVIOUS
<1> HIDE DEF F, V
<1> HIDE DEF base
<1>5. PICK g \in [SUBSET (1 .. n) -> V] : FoldsPlaces(g, n, base, F)
  BY <1>1, <1>3, FoldExists
<1> DEFINE Fold(f) == [s \in SUBSET (1 .. n) |->
                         IF s = {} THEN base
                         ELSE PoseBranch(f[s \ {Max(s)}], branches[Max(s)])]
<1>6. g = Fold(g)
  <2>1. ASSUME NEW s \in SUBSET (1 .. n), s # {}
        PROVE  Max(s) \in 1 .. n /\ g[s \ {Max(s)}] \in V
    <3>1. n \in Int /\ s \in SUBSET Int /\ \A x \in s : x <= n
      BY <1>1
    <3>2. Max(s) \in s
      BY <2>1, <3>1, GreatestIs
    <3> QED
      BY <1>5, <3>2
  <2>2. ASSUME NEW s \in SUBSET (1 .. n)
        PROVE  g[s] = IF s = {} THEN base
                      ELSE PoseBranch(g[s \ {Max(s)}], branches[Max(s)])
    BY <1>4, <1>5, <2>1 DEF FoldsPlaces
  <2> QED
    BY <2>2
<1> DEFINE iter == CHOOSE f : f = Fold(f)
<1>7. iter = Fold(iter)
  BY <1>6
<1>70. \A s \in SUBSET (1 .. n) :
         iter[s] = IF s = {} THEN base ELSE PoseBranch(iter[s \ {Max(s)}], branches[Max(s)])
  <2> HIDE DEF iter
  <2> QED
    BY <1>7
<1>8. FoldLeft(PoseBranch, base, branches) = iter[1 .. n]
  BY <1>1 DEF FoldLeft, MapThenFoldSet
<1> HIDE DEF iter
<1> DEFINE h == [m \in 0 .. n |-> iter[1 .. m]]
<1>9. h[0] = base /\ h[n] = iter[1 .. n]
  <2>1. 1 .. 0 = {} /\ 1 .. 0 \in SUBSET (1 .. n) /\ 0 \in 0 .. n /\ n \in 0 .. n
    BY <1>1
  <2> QED
    BY <1>7, <2>1
<1>10. ASSUME NEW m \in 1 .. n
       PROVE  h[m] = PoseBranch(h[m - 1], branches[m])
  <2>1. m \in 0 .. n /\ m - 1 \in 0 .. n
    BY <1>1
  <2>2. iter[1 .. m] = PoseBranch(iter[1 .. m - 1], branches[m])
    <3>1. /\ Max(1 .. m) = m /\ (1 .. m) \ {m} = 1 .. m - 1
          /\ 1 .. m # {} /\ 1 .. m \in SUBSET (1 .. n)
      BY <1>1, PlacesUpTo
    <3> QED
      BY <1>70, <3>1
  <2> QED
    BY <2>1, <2>2
<1>11. post_process_pose(branches) = h[n].anchors
  BY <1>8, <1>9 DEF post_process_pose, base
<1> HIDE DEF h
<1> QED
  BY <1>9, <1>10, <1>11 DEF base

(* The anchors of the branches up to m, and those of one branch up to o. *)
LEMMA AnchorsCounted ==
  ASSUME NEW n \in Nat, NEW U, IsFiniteSet(U), \A x \in U : x[1] # n, NEW j \in Nat
  PROVE  /\ IsFiniteSet(U \cup ({n} \X (1 .. j)))
         /\ Cardinality(U \cup ({n} \X (1 .. j))) = Cardinality(U) + j
<1> DEFINE row == {n} \X (1 .. j)
<1>1. IsFiniteSet({n}) /\ Cardinality({n}) = 1
  BY FS_Singleton
<1>2. IsFiniteSet(1 .. j) /\ Cardinality(1 .. j) = j
  BY FS_Interval
<1>3. IsFiniteSet(row) /\ Cardinality(row) = j
  <2>1. /\ IsFiniteSet({n} \X (1 .. j))
        /\ Cardinality({n} \X (1 .. j)) = Cardinality({n}) * Cardinality(1 .. j)
    BY <1>1, <1>2, FS_Product
  <2> QED
    BY <1>1, <1>2, <2>1
<1>4. U \cap row = {}
  OBVIOUS
<1>5. Cardinality(U) \in Nat
  BY FS_CardinalityType
<1> HIDE DEF row
<1>6. /\ IsFiniteSet(U \cup row)
      /\ Cardinality(U \cup row) = Cardinality(U) + j - Cardinality(U \cap row)
  BY <1>3, FS_Union
<1>7. Cardinality(U \cap row) = 0
  BY <1>4, FS_EmptySet
<1> QED
  BY <1>5, <1>6, <1>7 DEF row

(* What a branch keeps are the anchors whose logit reaches the threshold: the *)
(* gates lose none of them.                                                 *)
LEMMA PoseKeepsReaching ==
  ASSUME NEW b \in PoseBranches
  PROVE  PoseKept(b) = {o \in DOMAIN b.q : 4 * (b.q[o] - b.zp) >= b.logit}
<1> DEFINE x == b.logit + 4 * b.zp
           g == x \div 4
           lo == IF x > 4 * Lo THEN g - 1 ELSE Lo
<1>0. Lo \in Int /\ Hi \in Int
  BY PostprocessAssumption DEF Lo, Hi
<1>1. b.zp \in Int /\ b.logit \in Int /\ x \in Int /\ b.q \in Seq(Lo .. Hi)
  BY <1>0 DEF PoseBranches
<1>2. g \in Int /\ 4 * g <= x /\ x < 4 * g + 4
  BY <1>1
<1>3. PoseKept(b) = {o \in DOMAIN b.q : /\ x <= 4 * Hi
                                        /\ b.q[o] >= lo
                                        /\ 4 * (b.q[o] - b.zp) >= b.logit}
  BY DEF PoseKept, deqnt_affine_to_f32
<1> HIDE DEF g
<1>4. ASSUME NEW q \in Lo .. Hi, 4 * (q - b.zp) >= b.logit
      PROVE  x <= 4 * Hi /\ q >= lo
  BY <1>0, <1>1, <1>2, <1>4
<1>5. \A o \in DOMAIN b.q : b.q[o] \in Lo .. Hi
  <2>1. PICK q : q = b.q
    OBVIOUS
  <2>2. q \in Seq(Lo .. Hi)
    BY <1>1, <2>1
  <2>3. PICK S : S = Lo .. Hi
    OBVIOUS
  <2>4. q \in Seq(S)
    BY <2>2, <2>3
  <2>5. \A o \in DOMAIN q : q[o] \in S
    BY <2>4
  <2> QED
    BY <2>1, <2>3, <2>5
<1> QED
  BY <1>3, <1>4, <1>5

(* The base of a branch is the number of anchors before it, so the anchors kept *)
(* are those of the reference.                                              *)
LEMMA PosesAreFound ==
  ASSUME NEW branches \in Seq(PoseBranches)
  PROVE  post_process_pose(branches) = PoseReference(branches)
<1> DEFINE n == Len(branches)
           row(m) == {m} \X (1 .. Len(branches[m].q))
           U(m) == UNION {row(k) : k \in 1 .. m}
           reaches(m, o) == 4 * (branches[m].q[o] - branches[m].zp) >= branches[m].logit
           before(a) == AnchorsBefore(branches, a)
           found(m) == {Cardinality(before(a)) : a \in {x \in U(m) : reaches(x[1], x[2])}}
<1>1. n \in Nat /\ DOMAIN branches = 1 .. n
      /\ \A m \in 1 .. n : /\ branches[m] \in PoseBranches
                           /\ branches[m].q \in Seq(Lo .. Hi)
                           /\ Len(branches[m].q) \in Nat
                           /\ DOMAIN branches[m].q = 1 .. Len(branches[m].q)
  <2>1. n \in Nat /\ DOMAIN branches = 1 .. n /\ \A m \in 1 .. n : branches[m] \in PoseBranches
    OBVIOUS
  <2>2. ASSUME NEW b \in PoseBranches
        PROVE  b.q \in Seq(Lo .. Hi) /\ Len(b.q) \in Nat /\ DOMAIN b.q = 1 .. Len(b.q)
    <3>1. b.q \in Seq(Lo .. Hi)
      BY DEF PoseBranches
    <3>2. PICK q : q = b.q
      OBVIOUS
    <3>3. Len(q) \in Nat /\ DOMAIN q = 1 .. Len(q)
      BY <3>1, <3>2
    <3> QED
      BY <3>1, <3>2, <3>3
  <2> QED
    BY <2>1, <2>2
<1>2. PoseAnchors(branches) = U(n)
  BY <1>1 DEF PoseAnchors
<1>3. PoseReference(branches) = found(n)
  BY <1>2 DEF PoseReference
<1>4. ASSUME NEW m \in 1 .. n
      PROVE  U(m) = U(m - 1) \cup row(m) /\ \A x \in U(m - 1) : x[1] # m
  <2>1. m \in Nat /\ 1 .. m = (1 .. m - 1) \cup {m} /\ m \notin 1 .. m - 1
    OBVIOUS
  <2>2. \A k \in 1 .. m - 1 : \A x \in row(k) : x[1] = k
    OBVIOUS
  <2> HIDE DEF row
  <2>3. \A x \in U(m - 1) : x[1] \in 1 .. m - 1
    BY <2>2
  <2> QED
    BY <2>1, <2>3
<1>5. ASSUME NEW m \in 1 .. n, NEW o \in 1 .. Len(branches[m].q)
      PROVE  before(<<m, o>>) = U(m - 1) \cup ({m} \X (1 .. o - 1))
  <2>1. \A x \in U(n) : \E k \in 1 .. n : x \in row(k)
    OBVIOUS
  <2>2. before(<<m, o>>) = {x \in U(n) : x[1] < m \/ (x[1] = m /\ x[2] < o)}
    BY <1>2 DEF AnchorsBefore
  <2>3. ASSUME NEW k \in 1 .. n, NEW j \in 1 .. Len(branches[k].q)
        PROVE  /\ <<k, j>> \in row(k) /\ <<k, j>> \in U(n)
               /\ k < m => <<k, j>> \in U(m - 1)
    <3>1. <<k, j>> \in row(k)
      OBVIOUS
    <3>2. k < m => k \in 1 .. m - 1
      BY <1>1
    <3> HIDE DEF row
    <3> QED
      BY <3>1, <3>2
  <2>4. ASSUME NEW x \in before(<<m, o>>)
        PROVE  x \in U(m - 1) \cup ({m} \X (1 .. o - 1))
    <3>1. PICK k \in 1 .. n : x \in row(k)
      BY <2>1, <2>2
    <3>2. PICK j \in 1 .. Len(branches[k].q) : x = <<k, j>>
      BY <3>1
    <3>3. k < m \/ (k = m /\ j < o)
      BY <2>2, <3>2
    <3>4. CASE k < m
      BY <2>3, <3>2, <3>4
    <3>5. CASE k = m /\ j < o
      <4>1. j \in 1 .. o - 1
        BY <1>1, <3>5
      <4> QED
        BY <3>2, <3>5, <4>1
    <3> QED
      BY <3>3, <3>4, <3>5
  <2>5. ASSUME NEW x \in U(m - 1)
        PROVE  x \in before(<<m, o>>)
    <3>1. PICK k \in 1 .. m - 1 : x \in row(k)
      OBVIOUS
    <3>2. k \in 1 .. n /\ k < m
      BY <1>1
    <3>3. x[1] = k
      BY <3>1
    <3> HIDE DEF row
    <3>4. x \in U(n)
      BY <3>1, <3>2
    <3> QED
      BY <2>2, <3>2, <3>3, <3>4
  <2>6. ASSUME NEW x \in {m} \X (1 .. o - 1)
        PROVE  x \in before(<<m, o>>)
    <3>1. PICK j \in 1 .. o - 1 : x = <<m, j>>
      OBVIOUS
    <3>2. j \in 1 .. Len(branches[m].q) /\ j < o
      BY <1>1
    <3>3. x \in U(n) /\ x[1] = m /\ x[2] = j
      BY <2>3, <3>1, <3>2
    <3> QED
      BY <2>2, <3>2, <3>3
  <2> HIDE DEF U, before
  <2> QED
    BY <2>4, <2>5, <2>6
<1> HIDE DEF U, row, before
<1>6. PICK h : /\ h[0] = [base |-> 0, anchors |-> {}]
               /\ \A m \in 1 .. n : h[m] = PoseBranch(h[m - 1], branches[m])
               /\ post_process_pose(branches) = h[n].anchors
  BY PosesFold
<1> DEFINE Right(m) == /\ IsFiniteSet(U(m)) /\ Cardinality(U(m)) = h[m].base
                       /\ h[m].anchors = found(m)
<1>7. Right(0)
  <2>1. U(0) = {}
    BY DEF U
  <2>2. found(0) = {}
    BY <2>1
  <2>3. h[0].base = 0 /\ h[0].anchors = {}
    BY <1>6
  <2>4. IsFiniteSet(U(0)) /\ Cardinality(U(0)) = 0
    BY <2>1, FS_EmptySet
  <2> HIDE DEF found
  <2> QED
    BY <2>2, <2>3, <2>4
<1>8. ASSUME NEW m \in 1 .. n, Right(m - 1)
      PROVE  Right(m)
  <2> DEFINE b == branches[m]
             L == Len(b.q)
  <2>1. m \in Nat /\ L \in Nat /\ b \in PoseBranches /\ DOMAIN b.q = 1 .. L
    BY <1>1
  <2>2. h[m].base = h[m - 1].base + L
        /\ h[m].anchors = h[m - 1].anchors \cup {h[m - 1].base + o - 1 : o \in PoseKept(b)}
    <3>1. h[m] = PoseBranch(h[m - 1], b)
      BY <1>6
    <3> HIDE DEF b
    <3> QED
      BY <3>1 DEF PoseBranch
  <2>3. IsFiniteSet(U(m)) /\ Cardinality(U(m)) = h[m].base
    <3>1. /\ IsFiniteSet(U(m - 1) \cup row(m))
          /\ Cardinality(U(m - 1) \cup row(m)) = Cardinality(U(m - 1)) + L
      <4>1. PICK V : V = U(m - 1)
        OBVIOUS
      <4>2. PICK l : l = L
        OBVIOUS
      <4>3. m \in Nat /\ l \in Nat /\ IsFiniteSet(V) /\ \A x \in V : x[1] # m
        BY <1>4, <1>8, <2>1, <4>1, <4>2
      <4>4. /\ IsFiniteSet(V \cup ({m} \X (1 .. l)))
            /\ Cardinality(V \cup ({m} \X (1 .. l))) = Cardinality(V) + l
        BY <4>3, AnchorsCounted
      <4>5. row(m) = {m} \X (1 .. l)
        BY <4>2 DEF row
      <4> QED
        BY <4>1, <4>2, <4>4, <4>5
    <3> QED
      BY <1>4, <1>8, <2>2, <3>1
  <2>4. PoseKept(b) = {o \in 1 .. L : reaches(m, o)}
    BY <2>1, PoseKeepsReaching
  <2>5. ASSUME NEW o \in 1 .. L
        PROVE  Cardinality(before(<<m, o>>)) = h[m - 1].base + o - 1
    <3>1. o - 1 \in Nat
      BY <2>1
    <3>2. Cardinality(U(m - 1) \cup ({m} \X (1 .. o - 1))) = Cardinality(U(m - 1)) + (o - 1)
      <4>1. IsFiniteSet(U(m - 1)) /\ \A x \in U(m - 1) : x[1] # m
        BY <1>4, <1>8
      <4>2. PICK V : V = U(m - 1)
        OBVIOUS
      <4>3. PICK j : j = o - 1
        OBVIOUS
      <4>4. m \in Nat /\ j \in Nat /\ IsFiniteSet(V) /\ \A x \in V : x[1] # m
        BY <2>1, <3>1, <4>1, <4>2, <4>3
      <4>5. Cardinality(V \cup ({m} \X (1 .. j))) = Cardinality(V) + j
        BY <4>4, AnchorsCounted
      <4> QED
        BY <4>2, <4>3, <4>5
    <3>3. Cardinality(U(m - 1)) \in Nat
      BY <1>8, FS_CardinalityType
    <3> QED
      BY <1>5, <1>8, <2>1, <3>2, <3>3
  <2>6. found(m) = found(m - 1) \cup {Cardinality(before(<<m, o>>)) : o \in PoseKept(b)}
    <3>1. ASSUME NEW a \in U(m), reaches(a[1], a[2])
          PROVE  \/ a \in U(m - 1)
                 \/ \E o \in PoseKept(b) : a = <<m, o>>
      <4>1. CASE a \in row(m)
        <5>1. PICK o \in 1 .. L : a = <<m, o>>
          BY <4>1 DEF row
        <5>2. reaches(m, o)
          BY <3>1, <5>1
        <5> QED
          BY <2>4, <5>1, <5>2
      <4> QED
        BY <1>4, <4>1
    <3>2. ASSUME NEW o \in PoseKept(b)
          PROVE  <<m, o>> \in U(m) /\ reaches(m, o)
      <4>1. o \in 1 .. L /\ reaches(m, o)
        BY <2>4
      <4>2. <<m, o>> \in row(m)
        BY <4>1 DEF row
      <4> QED
        BY <1>4, <4>1, <4>2
    <3>3. U(m - 1) \subseteq U(m)
      BY <1>4
    <3> HIDE DEF reaches, b
    <3> QED
      BY <3>1, <3>2, <3>3
  <2>7. h[m].anchors = found(m)
    <3>1. h[m - 1].anchors = found(m - 1)
      BY <1>8
    <3>2. {h[m - 1].base + o - 1 : o \in PoseKept(b)}
            = {Cardinality(before(<<m, o>>)) : o \in PoseKept(b)}
      <4>1. \A o \in PoseKept(b) : Cardinality(before(<<m, o>>)) = h[m - 1].base + o - 1
        BY <2>4, <2>5
      <4> QED
        BY <4>1
    <3> HIDE DEF found
    <3> QED
      BY <2>2, <2>6, <3>1, <3>2
  <2> QED
    BY <2>3, <2>7
<1>9. Right(n)
  <2> DEFINE S == {m \in 0 .. n : Right(m)}
  <2> HIDE DEF Right
  <2>1. 0 \in S
    BY <1>1, <1>7
  <2>2. \A m \in 1 .. n : m - 1 \in S => m \in S
    <3>1. \A m \in 1 .. n : m \in 0 .. n
      OBVIOUS
    <3> QED
      BY <1>8, <3>1
  <2>3. n \in 0 .. n
    BY <1>1
  <2> HIDE DEF S
  <2>4. n \in S
    BY <1>1, <2>1, <2>2, <2>3, CountingFromZero
  <2> QED
    BY <2>4 DEF S
<1> QED
  BY <1>3, <1>6, <1>9

(* For every list of branches, whatever they hold: the gates on the quantized  *)
(* numbers lose no anchor, and every kept anchor has the place in the tensor *)
(* of keypoints that all the anchors before it, kept or not, leave it       *)
(* (post_process_pose).                                                     *)
THEOREM PosesAlwaysFindTheirKeypoints == Spec => []PosesFindTheirKeypoints
<1>1. Init => PosesFindTheirKeypoints
  <2>1. Init => ~result.done
    BY DEF Init, NotYet
  <2> QED
    BY <2>1 DEF PosesFindTheirKeypoints, Returned
<1>2. ASSUME Legal(input), PosesFindTheirKeypoints, [Next]_vars
      PROVE  PosesFindTheirKeypoints'
  <2>1. CASE UNCHANGED vars
    BY <1>2, <2>1 DEF PosesFindTheirKeypoints, Returned, vars
  <2>2. CASE Next /\ ~Returned("pose")'
    BY <2>2 DEF PosesFindTheirKeypoints
  <2>3. CASE Next /\ Returned("pose")'
    <3>1. /\ input' = input /\ input.task = "pose"
          /\ result'.of = [anchors |-> post_process_pose(input.of)]
      BY <2>3, OneCall DEF Pose, Called, Returns
    <3>2. input.of \in Seq(PoseBranches)
      BY <1>2, <3>1 DEF Legal
    <3>3. PICK branches : branches = input.of
      OBVIOUS
    <3>4. post_process_pose(branches) = PoseReference(branches)
      BY <3>2, <3>3, PosesAreFound
    <3> QED
      BY <3>1, <3>3, <3>4 DEF PosesFindTheirKeypoints
  <2> QED
    BY <1>2, <2>1, <2>2, <2>3
<1> QED
  BY <1>1, <1>2, CallsStayLegal, PTL DEF Spec

-----------------------------------------------------------------------------
(* A pixel of the picture lies in a cell of the prototype. *)
LEMMA CellInside ==
  ASSUME NEW model \in Nat \ {0}, NEW proto \in Nat \ {0}, NEW x \in 0 .. model - 1
  PROVE  ProtoCell(x, model, proto) = (x * proto) \div model
<1> DEFINE a == x * proto
           c == a \div model
<1>1. a \in Nat /\ a <= (model - 1) * proto /\ (model - 1) * proto = model * proto - proto
  OBVIOUS
<1>2. model * proto \in Nat
  OBVIOUS
<1> HIDE DEF a
<1>3. c \in Int /\ model * c <= a /\ a < model * c + model
  BY <1>1
<1> HIDE DEF c
<1>4. c >= 0
  <2>1. CASE c < 0
    <3>1. model * (c + 1) <= 0 /\ model * (c + 1) = model * c + model
      BY <1>3, <2>1
    <3> QED
      BY <1>1, <1>3, <3>1
  <2> QED
    BY <1>3, <2>1
<1>5. c < proto
  <2>1. CASE c >= proto
    <3>1. model * proto <= model * c
      BY <1>3, <2>1
    <3> QED
      BY <1>1, <1>2, <1>3, <3>1
  <2> QED
    BY <1>3, <2>1
<1>6. Clamped(c, 0, proto - 1) = c
  BY <1>3, <1>4, <1>5 DEF Clamped
<1> QED
  BY <1>6 DEF ProtoCell, a, c

(* The runs of pixels cover what lies between the ends, each within one cell. *)
LEMMA RunEnds ==
  ASSUME NEW x1 \in Nat, NEW x2 \in Int, NEW model, NEW proto,
         NEW r \in RunStarts(x1, x2, model, proto)
  PROVE  /\ r \in Nat /\ x1 <= r /\ r < x2
         /\ RunEnd(r, x2, model, proto) \in r + 1 .. x2
         /\ \A p \in r .. RunEnd(r, x2, model, proto) - 1 :
               ProtoCell(p, model, proto) = ProtoCell(r, model, proto)
         /\ \A e \in r + 1 .. x2 :
               (\A p \in r .. e - 1 : ProtoCell(p, model, proto) = ProtoCell(r, model, proto))
                 => e <= RunEnd(r, x2, model, proto)
<1> DEFINE ends == {e \in r + 1 .. x2 : \A p \in r .. e - 1 :
                                   ProtoCell(p, model, proto) = ProtoCell(r, model, proto)}
<1>1. r \in Nat /\ x1 <= r /\ r < x2
  BY DEF RunStarts
<1>2. r + 1 \in ends
  <2>1. r + 1 \in r + 1 .. x2 /\ \A p \in r .. (r + 1) - 1 : p = r
    BY <1>1
  <2> QED
    BY <2>1
<1>3. ends \in SUBSET Int /\ ends # {} /\ \A e \in ends : e <= x2
  BY <1>1, <1>2
<1>4. Max(ends) \in ends /\ \A e \in ends : e <= Max(ends)
  <2> HIDE DEF ends
  <2> QED
    BY <1>3, GreatestIs
<1>5. RunEnd(r, x2, model, proto) = Max(ends)
  BY DEF RunEnd
<1> QED
  BY <1>1, <1>4, <1>5

(* Every pixel of a row of a box lies in one of its runs. *)
LEMMA RunsCover ==
  ASSUME NEW x1 \in Nat, NEW x2 \in Int, NEW model, NEW proto, NEW p \in x1 .. x2 - 1
  PROVE  \E r \in RunStarts(x1, x2, model, proto) : p \in r .. RunEnd(r, x2, model, proto) - 1
<1> DEFINE cell(x) == ProtoCell(x, model, proto)
           same == {r \in x1 .. p : \A k \in r .. p : cell(k) = cell(p)}
<1> HIDE DEF cell
<1>1. p \in Nat /\ x1 <= p /\ p < x2
  OBVIOUS
<1>2. same \in SUBSET Nat /\ p \in same
  <2>1. p \in x1 .. p /\ \A k \in p .. p : k = p
    BY <1>1
  <2> QED
    BY <1>1, <2>1
<1>3. PICK r \in same : \A s \in same : r <= s
  <2>1. same # {}
    BY <1>2
  <2> HIDE DEF same
  <2> QED
    BY <1>2, <2>1, FirstExists
<1>4. r \in Nat /\ r \in x1 .. p /\ \A k \in r .. p : cell(k) = cell(p)
  BY <1>1
<1>5. r = x1 \/ cell(r - 1) # cell(r)
  <2> SUFFICES ASSUME r # x1, cell(r - 1) = cell(r) PROVE FALSE
    OBVIOUS
  <2>1. r - 1 \in x1 .. p /\ \A k \in r - 1 .. p : k = r - 1 \/ k \in r .. p
    BY <1>1, <1>4
  <2>2. r \in r .. p
    BY <1>1, <1>4
  <2>3. r - 1 \in same
    BY <1>4, <2>1, <2>2
  <2> QED
    BY <1>3, <1>4, <2>3
<1>6. r \in RunStarts(x1, x2, model, proto)
  BY <1>1, <1>4, <1>5 DEF RunStarts, cell
<1>7. p + 1 \in r + 1 .. x2 /\ \A k \in r .. (p + 1) - 1 : cell(k) = cell(r)
  <2>1. r \in r .. p /\ (p + 1) - 1 = p
    BY <1>1, <1>4
  <2> QED
    BY <1>1, <1>4, <2>1
<1>8. RunEnd(r, x2, model, proto) \in r + 1 .. x2 /\ p + 1 <= RunEnd(r, x2, model, proto)
  BY <1>6, <1>7, RunEnds DEF cell
<1>9. p \in r .. RunEnd(r, x2, model, proto) - 1
  <2>1. PICK e : e = RunEnd(r, x2, model, proto)
    OBVIOUS
  <2>2. e \in Int /\ p + 1 <= e
    BY <1>1, <1>4, <1>8, <2>1
  <2> QED
    BY <1>1, <1>4, <2>1, <2>2
<1> QED
  BY <1>6, <1>9

(* The part of a side of a box that is painted. *)
LEMMA ClampedSide ==
  ASSUME NEW model \in Nat \ {0}, NEW mask \in Nat, NEW from \in Int, NEW to \in Int,
         from < model
  PROVE  LET x1 == Clamped(from, 0, model - 1)
             x2 == Min({Clamped(to, 0, model), mask})
         IN  /\ x1 \in Nat /\ x2 \in Int
             /\ \A p \in 0 .. mask - 1 : p \in x1 .. x2 - 1 <=> from <= p /\ p < to /\ p < model
             /\ \A p \in x1 .. x2 - 1 : p \in 0 .. mask - 1 /\ p \in 0 .. model - 1
<1> DEFINE x1 == Clamped(from, 0, model - 1)
           c == Clamped(to, 0, model)
           x2 == Min({c, mask})
<1>1. x1 = IF from < 0 THEN 0 ELSE from
  BY DEF Clamped
<1>2. c \in Nat /\ c = IF to < 0 THEN 0 ELSE IF to > model THEN model ELSE to
  BY DEF Clamped
<1> HIDE DEF c, x1
<1>3. x2 = IF c <= mask THEN c ELSE mask
  BY <1>2 DEF Min
<1> HIDE DEF x2
<1>4. /\ x1 \in Nat /\ x2 \in Int
      /\ \A p \in 0 .. mask - 1 : p \in x1 .. x2 - 1 <=> from <= p /\ p < to /\ p < model
      /\ \A p \in x1 .. x2 - 1 : p \in 0 .. mask - 1 /\ p \in 0 .. model - 1
  BY <1>1, <1>2, <1>3
<1> QED
  BY <1>4 DEF c, x1, x2

(* The pixels of the mask. *)
Pixels(g) == (0 .. g.mask_h - 1) \X (0 .. g.mask_w - 1)

(* One box paints every free pixel it covers, and no other. *)
LEMMA BoxIsSampled ==
  ASSUME NEW g \in Sizes, NEW b \in SegBoxes, b.x1 < g.model_w, b.y1 < g.model_h,
         NEW mask \in [Pixels(g) -> Nat], NEW p \in Pixels(g)
  PROVE  PaintBox(mask, b, g)[p] = IF Covers(b, p, g) /\ mask[p] = 0 THEN b.cls + 1 ELSE mask[p]
<1> DEFINE x1 == Clamped(b.x1, 0, g.model_w - 1)
           y1 == Clamped(b.y1, 0, g.model_h - 1)
           x2 == Min({Clamped(b.x2, 0, g.model_w), g.mask_w})
           y2 == Min({Clamped(b.y2, 0, g.model_h), g.mask_h})
           rows == RunStarts(y1, y2, g.model_h, g.proto_h)
           cols == RunStarts(x1, x2, g.model_w, g.proto_w)
           row(y) == ProtoCell(y, g.model_h, g.proto_h)
           col(x) == ProtoCell(x, g.model_w, g.proto_w)
           down(y) == RunEnd(y, y2, g.model_h, g.proto_h)
           right(x) == RunEnd(x, x2, g.model_w, g.proto_w)
           blocks == {bl \in rows \X cols : <<row(bl[1]), col(bl[2])>> \in b.inside}
           painted == UNION {(bl[1] .. down(bl[1]) - 1) \X (bl[2] .. right(bl[2]) - 1) :
                            bl \in blocks}
<1>1. /\ g.model_w \in Nat \ {0} /\ g.model_h \in Nat \ {0} /\ g.proto_w \in Nat \ {0}
      /\ g.proto_h \in Nat \ {0} /\ g.mask_w \in Nat /\ g.mask_h \in Nat
      /\ b.x1 \in Int /\ b.y1 \in Int /\ b.x2 \in Int /\ b.y2 \in Int
  BY DEF Sizes, SegBoxes
<1>2. PaintBox(mask, b, g) = [q \in DOMAIN mask |-> IF q \in painted /\ mask[q] = 0
                                                    THEN b.cls + 1 ELSE mask[q]]
  BY DEF PaintBox
<1>3. p \in DOMAIN mask /\ p[1] \in 0 .. g.mask_h - 1 /\ p[2] \in 0 .. g.mask_w - 1
      /\ p = <<p[1], p[2]>>
  BY DEF Pixels
<1>4. /\ x1 \in Nat /\ x2 \in Int
      /\ p[2] \in x1 .. x2 - 1 <=> b.x1 <= p[2] /\ p[2] < b.x2 /\ p[2] < g.model_w
      /\ \A x \in x1 .. x2 - 1 : x \in 0 .. g.model_w - 1
  BY <1>1, <1>3, ClampedSide
<1>5. /\ y1 \in Nat /\ y2 \in Int
      /\ p[1] \in y1 .. y2 - 1 <=> b.y1 <= p[1] /\ p[1] < b.y2 /\ p[1] < g.model_h
      /\ \A y \in y1 .. y2 - 1 : y \in 0 .. g.model_h - 1
  BY <1>1, <1>3, ClampedSide
<1> HIDE DEF x1, x2, y1, y2
<1>6. /\ p[2] \in x1 .. x2 - 1 => col(p[2]) = (p[2] * g.proto_w) \div g.model_w
      /\ p[1] \in y1 .. y2 - 1 => row(p[1]) = (p[1] * g.proto_h) \div g.model_h
  BY <1>1, <1>4, <1>5, CellInside
<1>7. Covers(b, p, g) <=> /\ p[1] \in y1 .. y2 - 1 /\ p[2] \in x1 .. x2 - 1
                          /\ <<row(p[1]), col(p[2])>> \in b.inside
  BY <1>1, <1>3, <1>4, <1>5, <1>6 DEF Covers
<1> HIDE DEF rows, cols, row, col, down, right
<1>8. ASSUME Covers(b, p, g) PROVE p \in painted
  <2>1. PICK y \in rows : p[1] \in y .. down(y) - 1
    BY <1>5, <1>7, <1>8, RunsCover DEF rows, down
  <2>2. PICK x \in cols : p[2] \in x .. right(x) - 1
    BY <1>4, <1>7, <1>8, RunsCover DEF cols, right
  <2>3. row(p[1]) = row(y) /\ col(p[2]) = col(x)
    BY <1>4, <1>5, <2>1, <2>2, RunEnds DEF rows, cols, row, col, down, right
  <2>4. <<y, x>> \in blocks
    BY <1>7, <1>8, <2>3
  <2>5. p \in (y .. down(y) - 1) \X (x .. right(x) - 1)
    BY <1>3, <2>1, <2>2
  <2> QED
    BY <2>4, <2>5
<1>9. ASSUME p \in painted PROVE Covers(b, p, g)
  <2>1. PICK bl \in blocks : p \in (bl[1] .. down(bl[1]) - 1) \X (bl[2] .. right(bl[2]) - 1)
    BY <1>9
  <2>2. bl[1] \in rows /\ bl[2] \in cols /\ <<row(bl[1]), col(bl[2])>> \in b.inside
        /\ p[1] \in bl[1] .. down(bl[1]) - 1 /\ p[2] \in bl[2] .. right(bl[2]) - 1
    BY <2>1
  <2>3. row(p[1]) = row(bl[1]) /\ col(p[2]) = col(bl[2])
    BY <1>4, <1>5, <2>2, RunEnds DEF rows, cols, row, col, down, right
  <2>4. /\ bl[1] \in Nat /\ y1 <= bl[1] /\ down(bl[1]) \in bl[1] + 1 .. y2
        /\ bl[2] \in Nat /\ x1 <= bl[2] /\ right(bl[2]) \in bl[2] + 1 .. x2
    BY <1>4, <1>5, <2>2, RunEnds DEF rows, cols, down, right
  <2>5. p[1] \in y1 .. y2 - 1 /\ p[2] \in x1 .. x2 - 1
    BY <1>3, <1>4, <1>5, <2>2, <2>4
  <2> QED
    BY <1>7, <2>2, <2>3, <2>5
<1> HIDE DEF painted
<1> QED
  BY <1>2, <1>3, <1>8, <1>9

(* The boxes of a frame, painted one after the other. *)
LEMMA MaskFolds ==
  ASSUME NEW of, Paintable(of)
  PROVE  LET g == of.geometry
             boxes == of.boxes
         IN  \E h : /\ h[0] = [p \in Pixels(g) |-> 0]
                    /\ \A m \in 1 .. Len(boxes) :
                          /\ h[m - 1] \in [Pixels(g) -> Nat]
                          /\ h[m] = PaintBox(h[m - 1], boxes[m], g)
                    /\ h[Len(boxes)] \in [Pixels(g) -> Nat]
                    /\ paint_seg_mask(boxes, g) = h[Len(boxes)]
<1> DEFINE g == of.geometry
           boxes == of.boxes
           n == Len(boxes)
           V == [Pixels(g) -> Nat]
           blank == [p \in Pixels(g) |-> 0]
           F == [m \in 1 .. n |-> [v \in V |-> PaintBox(v, boxes[m], g)]]
<1>1. n \in Nat /\ DOMAIN boxes = 1 .. n /\ \A m \in 1 .. n : boxes[m] \in SegBoxes
  <2>1. boxes \in Seq(SegBoxes)
    BY DEF Paintable
  <2> HIDE DEF boxes
  <2> QED
    BY <2>1
<1>2. blank \in V
  OBVIOUS
<1> HIDE DEF boxes, g
<1>3. ASSUME NEW m \in 1 .. n, NEW v \in V
      PROVE  PaintBox(v, boxes[m], g) \in V
  <2>1. boxes[m].cls + 1 \in Nat
    <3>1. boxes[m] \in SegBoxes
      BY <1>1
    <3>2. boxes[m].cls \in Nat
      BY <3>1 DEF SegBoxes
    <3> QED
      BY <3>2
  <2>2. DOMAIN v = Pixels(g) /\ \A p \in Pixels(g) : v[p] \in Nat
    OBVIOUS
  <2> QED
    BY <2>1, <2>2 DEF PaintBox
<1>4. F \in [1 .. n -> [V -> V]]
  BY <1>3
<1>5. \A m \in 1 .. n, v \in V : F[m][v] = PaintBox(v, boxes[m], g)
  OBVIOUS
<1> HIDE DEF F, V, blank
<1>6. PICK f \in [SUBSET (1 .. n) -> V] : FoldsPlaces(f, n, blank, F)
  BY <1>1, <1>2, <1>4, FoldExists
<1> DEFINE Fold(k) == [s \in SUBSET (1 .. n) |->
                         IF s = {} THEN blank
                         ELSE PaintBox(k[s \ {Max(s)}], boxes[Max(s)], g)]
<1>7. f = Fold(f)
  <2>1. ASSUME NEW s \in SUBSET (1 .. n), s # {}
        PROVE  Max(s) \in 1 .. n /\ f[s \ {Max(s)}] \in V
    <3>1. n \in Int /\ s \in SUBSET Int /\ \A x \in s : x <= n
      BY <1>1
    <3>2. Max(s) \in s
      BY <2>1, <3>1, GreatestIs
    <3> QED
      BY <1>6, <3>2
  <2>2. ASSUME NEW s \in SUBSET (1 .. n)
        PROVE  f[s] = IF s = {} THEN blank
                      ELSE PaintBox(f[s \ {Max(s)}], boxes[Max(s)], g)
    BY <1>5, <1>6, <2>1 DEF FoldsPlaces
  <2> QED
    BY <2>2
<1> DEFINE iter == CHOOSE k : k = Fold(k)
<1>8. iter = Fold(iter)
  BY <1>7
<1>9. \A s \in SUBSET (1 .. n) :
         iter[s] = IF s = {} THEN blank ELSE PaintBox(iter[s \ {Max(s)}], boxes[Max(s)], g)
  <2> HIDE DEF iter
  <2> QED
    BY <1>8
<1>10. paint_seg_mask(boxes, g) = iter[1 .. n]
  BY <1>1 DEF paint_seg_mask, FoldLeft, MapThenFoldSet, blank, Pixels
<1> HIDE DEF iter
<1> DEFINE h == [m \in 0 .. n |-> iter[1 .. m]]
<1>11. h[0] = blank /\ h[n] = iter[1 .. n]
  <2>1. 1 .. 0 = {} /\ 1 .. 0 \in SUBSET (1 .. n) /\ 0 \in 0 .. n /\ n \in 0 .. n
    BY <1>1
  <2> QED
    BY <1>9, <2>1
<1>12. ASSUME NEW m \in 1 .. n
       PROVE  h[m] = PaintBox(h[m - 1], boxes[m], g)
  <2>1. m \in 0 .. n /\ m - 1 \in 0 .. n
    BY <1>1
  <2>2. iter[1 .. m] = PaintBox(iter[1 .. m - 1], boxes[m], g)
    <3>1. /\ Max(1 .. m) = m /\ (1 .. m) \ {m} = 1 .. m - 1
          /\ 1 .. m # {} /\ 1 .. m \in SUBSET (1 .. n)
      BY <1>1, PlacesUpTo
    <3> QED
      BY <1>9, <3>1
  <2> QED
    BY <2>1, <2>2
<1> HIDE DEF h
<1>13. \A m \in 0 .. n : h[m] \in V
  <2> DEFINE S == {m \in 0 .. n : h[m] \in V}
  <2>1. 0 \in S
    BY <1>1, <1>2, <1>11
  <2>2. \A m \in 1 .. n : m - 1 \in S => m \in S
    <3>1. \A m \in 1 .. n : m \in 0 .. n
      OBVIOUS
    <3> QED
      BY <1>3, <1>12, <3>1
  <2> HIDE DEF S
  <2>3. 0 .. n \subseteq S
    BY <1>1, <2>1, <2>2, CountingFromZero
  <2> QED
    BY <2>3 DEF S
<1>14. n \in 0 .. n /\ \A m \in 1 .. n : m - 1 \in 0 .. n
  BY <1>1
<1> HIDE DEF n
<1>15. \E k : /\ k[0] = blank
              /\ \A m \in 1 .. n : k[m - 1] \in V /\ k[m] = PaintBox(k[m - 1], boxes[m], g)
              /\ k[n] \in V
              /\ paint_seg_mask(boxes, g) = k[n]
  BY <1>10, <1>11, <1>12, <1>13, <1>14
<1> QED
  BY <1>15 DEF n, V, blank, boxes, g

(* A pixel keeps the class of the first box painted over it, and a box paints   *)
(* the pixels whose cell of the prototype its coefficients light up.        *)
LEMMA MaskIsSampled ==
  ASSUME NEW of, Paintable(of)
  PROVE  LET mask == paint_seg_mask(of.boxes, of.geometry)
         IN  \A p \in DOMAIN mask : mask[p] = MaskReference(of.boxes, p, of.geometry)
<1> DEFINE g == of.geometry
           boxes == of.boxes
           n == Len(boxes)
           over(p, m) == {i \in 1 .. m : Covers(boxes[i], p, g)}
           shown(p, m) == IF over(p, m) = {} THEN 0 ELSE boxes[Min(over(p, m))].cls + 1
<1>1. n \in Nat /\ DOMAIN boxes = 1 .. n /\ g \in Sizes
      /\ \A m \in 1 .. n : /\ boxes[m] \in SegBoxes /\ boxes[m].cls \in Nat
                           /\ boxes[m].x1 < g.model_w /\ boxes[m].y1 < g.model_h
  <2>1. boxes \in Seq(SegBoxes) /\ g \in Sizes
        /\ \A i \in DOMAIN boxes : boxes[i].x1 < g.model_w /\ boxes[i].y1 < g.model_h
    BY DEF Paintable
  <2> HIDE DEF boxes, g
  <2>2. n \in Nat /\ DOMAIN boxes = 1 .. n /\ \A m \in 1 .. n : boxes[m] \in SegBoxes
    BY <2>1
  <2>3. \A b \in SegBoxes : b.cls \in Nat
    BY DEF SegBoxes
  <2> QED
    BY <2>1, <2>2, <2>3
<1>2. PICK h : /\ h[0] = [p \in Pixels(g) |-> 0]
               /\ \A m \in 1 .. n : /\ h[m - 1] \in [Pixels(g) -> Nat]
                                    /\ h[m] = PaintBox(h[m - 1], boxes[m], g)
               /\ h[n] \in [Pixels(g) -> Nat]
               /\ paint_seg_mask(boxes, g) = h[n]
  BY MaskFolds
<1> HIDE DEF boxes, g, n
<1> SUFFICES ASSUME NEW p \in Pixels(g) PROVE h[n][p] = shown(p, n)
  <2>1. DOMAIN h[n] = Pixels(g)
    BY <1>2
  <2>2. \A p \in Pixels(g) : MaskReference(boxes, p, g) = shown(p, n)
    BY <1>1 DEF MaskReference
  <2> QED
    BY <1>2, <2>1, <2>2 DEF boxes, g
<1>3. h[0][p] = shown(p, 0)
  BY <1>2
<1>4. ASSUME NEW m \in 1 .. n, h[m - 1][p] = shown(p, m - 1)
      PROVE  h[m][p] = shown(p, m)
  <2> DEFINE b == boxes[m]
             old == over(p, m - 1)
             new == over(p, m)
  <2>1. h[m][p] = IF Covers(b, p, g) /\ h[m - 1][p] = 0 THEN b.cls + 1 ELSE h[m - 1][p]
    <3>1. PICK mask : mask = h[m - 1]
      OBVIOUS
    <3>2. mask \in [Pixels(g) -> Nat] /\ h[m] = PaintBox(mask, b, g)
      BY <1>2, <3>1
    <3>3. g \in Sizes /\ b \in SegBoxes /\ b.x1 < g.model_w /\ b.y1 < g.model_h
      BY <1>1
    <3> HIDE DEF b
    <3>4. PaintBox(mask, b, g)[p] = IF Covers(b, p, g) /\ mask[p] = 0 THEN b.cls + 1 ELSE mask[p]
      BY <3>2, <3>3, BoxIsSampled
    <3> QED
      BY <3>1, <3>2, <3>4
  <2>2. m \in Nat /\ \A i \in 1 .. m : i = m \/ i \in 1 .. m - 1
    BY <1>1
  <2>3. old \in SUBSET Nat /\ \A i \in old : i \in 1 .. n /\ i < m
    BY <1>1, <2>2
  <2>4. new = IF Covers(b, p, g) THEN old \cup {m} ELSE old
    BY <2>2
  <2> HIDE DEF old, new, b, over
  <2>5. CASE old = {}
    <3>1. Min({m}) = m
      BY <2>2 DEF Min
    <3>2. h[m - 1][p] = 0
      BY <1>4, <2>5 DEF old
    <3>3. Covers(b, p, g) => new = {m}
      BY <2>4, <2>5
    <3> QED
      BY <2>1, <2>4, <2>5, <3>1, <3>2, <3>3 DEF new, b
  <2>6. CASE old # {}
    <3>1. PICK i \in old : \A j \in old : i <= j
      BY <2>3, <2>6, FirstExists
    <3>2. Min(old) = i
      <4>1. \A k \in old : (\A j \in old : k <= j) => k = i
        BY <2>3, <3>1
      <4> QED
        BY <3>1, <4>1 DEF Min
    <3>3. Min(old \cup {m}) = i
      <4>1. i \in old \cup {m} /\ \A j \in old \cup {m} : i <= j
        BY <2>2, <2>3, <3>1
      <4>2. \A k \in old \cup {m} : (\A j \in old \cup {m} : k <= j) => k = i
        BY <2>2, <2>3, <3>1, <4>1
      <4> QED
        BY <4>1, <4>2 DEF Min
    <3>4. Min(new) = i /\ new # {}
      BY <2>4, <2>6, <3>2, <3>3
    <3>5. boxes[i].cls + 1 # 0
      BY <1>1, <2>3, <3>1
    <3>6. h[m - 1][p] = boxes[i].cls + 1
      BY <1>4, <2>6, <3>2 DEF old
    <3>7. shown(p, m) = boxes[i].cls + 1
      BY <3>4 DEF new
    <3> HIDE DEF shown
    <3> QED
      BY <2>1, <3>5, <3>6, <3>7
  <2> QED
    BY <2>5, <2>6
<1>5. h[n][p] = shown(p, n)
  <2> DEFINE S == {m \in 0 .. n : h[m][p] = shown(p, m)}
  <2>1. 0 \in S
    BY <1>1, <1>3
  <2>2. \A m \in 1 .. n : m - 1 \in S => m \in S
    <3> HIDE DEF shown
    <3>1. \A m \in 1 .. n : m \in 0 .. n
      OBVIOUS
    <3> QED
      BY <1>4, <3>1
  <2>3. n \in 0 .. n
    BY <1>1
  <2> HIDE DEF S
  <2>4. n \in S
    BY <1>1, <2>1, <2>2, <2>3, CountingFromZero
  <2> QED
    BY <2>4 DEF S
<1> QED
  BY <1>5

(* For every picture, prototype and list of boxes: painting runs of pixels,     *)
(* clamped to the picture and the mask, shows at every pixel the class of   *)
(* the first box that covers it, as sampling the prototype there would      *)
(* (paint_seg_mask).                                                        *)
THEOREM MasksAreAlwaysSampled == Spec => []MasksAreSampled
<1>1. Init => MasksAreSampled
  <2>1. Init => ~result.done
    BY DEF Init, NotYet
  <2> QED
    BY <2>1 DEF MasksAreSampled, Returned
<1>2. ASSUME Legal(input), MasksAreSampled, [Next]_vars
      PROVE  MasksAreSampled'
  <2>1. CASE UNCHANGED vars
    BY <1>2, <2>1 DEF MasksAreSampled, Returned, vars
  <2>2. CASE Next /\ ~Returned("mask")'
    BY <2>2 DEF MasksAreSampled
  <2>3. CASE Next /\ Returned("mask")'
    <3>1. /\ input' = input /\ input.task = "mask"
          /\ result'.of = [mask |-> paint_seg_mask(input.of.boxes, input.of.geometry)]
      BY <2>3, OneCall DEF PaintMask, Called, Returns
    <3>2. Paintable(input.of)
      BY <1>2, <3>1 DEF Legal
    <3>3. PICK of : of = input.of
      OBVIOUS
    <3>4. \A p \in DOMAIN paint_seg_mask(of.boxes, of.geometry) :
             paint_seg_mask(of.boxes, of.geometry)[p] = MaskReference(of.boxes, p, of.geometry)
      BY <3>2, <3>3, MaskIsSampled
    <3> QED
      BY <3>1, <3>3, <3>4 DEF MasksAreSampled
  <2> QED
    BY <1>2, <2>1, <2>2, <2>3
<1> QED
  BY <1>1, <1>2, CallsStayLegal, PTL DEF Spec

-----------------------------------------------------------------------------
(* An order of n boxes some of which are struck out, and the step of           *)
(* nms_by_class at the box in place i.                                      *)
Orders(n) == [1 .. n -> (1 .. n) \cup {-1}]

StrikeFrom(dets, o, i, c, num, den) ==
    LET other(k) == o[k] = -1 \/ dets[o[k]].cls # c
    IN  IF other(i) THEN o
        ELSE [j \in DOMAIN o |->
                IF j > i /\ ~other(j) /\ Overlaps(dets[o[i]], dets[o[j]], num, den)
                THEN -1 ELSE o[j]]

(* nms_by_class takes these steps one after the other. *)
StruckInTurn(h, dets, n, o, c, num, den) ==
    /\ h[0] = o
    /\ \A m \in 0 .. n : h[m] \in Orders(n)
    /\ \A m \in 1 .. n : h[m] = StrikeFrom(dets, h[m - 1], m, c, num, den)
    /\ nms_by_class(dets, o, c, num, den) = h[n]

(* The folds of nms_by_class, step by step. *)
LEMMA SuppressionFolds ==
  ASSUME NEW dets, NEW n \in Nat, NEW o \in Orders(n), NEW c, NEW num, NEW den
  PROVE  \E h : StruckInTurn(h, dets, n, o, c, num, den)
<1> DEFINE V == Orders(n)
           step(v, m) == StrikeFrom(dets, v, m, c, num, den)
           F == [m \in 1 .. n |-> [v \in V |-> step(v, m)]]
           seq == [i \in 1 .. n |-> i]
<1>1. ASSUME NEW m \in 1 .. n, NEW v \in V
      PROVE  step(v, m) \in V
  BY DEF StrikeFrom, Orders
<1>2. F \in [1 .. n -> [V -> V]]
  BY <1>1
<1>3. \A m \in 1 .. n, v \in V : F[m][v] = step(v, m)
  OBVIOUS
<1>4. DOMAIN o = 1 .. n /\ o \in V
  BY DEF Orders
<1> HIDE DEF F, V, step
<1>5. PICK f \in [SUBSET (1 .. n) -> V] : FoldsPlaces(f, n, o, F)
  BY <1>2, <1>4, FoldExists
<1> DEFINE Fold(k) == [s \in SUBSET (1 .. n) |->
                         IF s = {} THEN o ELSE step(k[s \ {Max(s)}], seq[Max(s)])]
<1>60. ASSUME NEW s \in SUBSET (1 .. n), s # {}
       PROVE  Max(s) \in 1 .. n /\ seq[Max(s)] = Max(s)
  <2>1. n \in Int /\ s \in SUBSET Int /\ \A x \in s : x <= n
    OBVIOUS
  <2>2. Max(s) \in s
    BY <1>60, <2>1, GreatestIs
  <2>3. PICK i : i = Max(s)
    OBVIOUS
  <2>4. i \in 1 .. n
    BY <2>2, <2>3
  <2>5. seq[i] = i
    BY <2>4
  <2> QED
    BY <2>3, <2>4, <2>5
<1> HIDE DEF seq
<1>6. f = Fold(f)
  <2>1. ASSUME NEW s \in SUBSET (1 .. n), s # {}
        PROVE  Max(s) \in 1 .. n /\ f[s \ {Max(s)}] \in V
    BY <1>5, <1>60, <2>1
  <2>2. ASSUME NEW s \in SUBSET (1 .. n)
        PROVE  f[s] = IF s = {} THEN o ELSE step(f[s \ {Max(s)}], seq[Max(s)])
    BY <1>3, <1>5, <1>60, <2>1 DEF FoldsPlaces
  <2> QED
    BY <2>2
<1> DEFINE iter == CHOOSE k : k = Fold(k)
<1>7. iter = Fold(iter)
  BY <1>6
<1>8. \A s \in SUBSET (1 .. n) :
         iter[s] = IF s = {} THEN o ELSE step(iter[s \ {Max(s)}], Max(s))
  <2>1. \A s \in SUBSET (1 .. n) :
           iter[s] = IF s = {} THEN o ELSE step(iter[s \ {Max(s)}], seq[Max(s)])
    <3> HIDE DEF iter
    <3> QED
      BY <1>7
  <2> HIDE DEF iter
  <2> QED
    BY <1>60, <2>1
<1>9. nms_by_class(dets, o, c, num, den) = iter[1 .. n]
  BY <1>4 DEF nms_by_class, FoldLeft, MapThenFoldSet, StrikeFrom, step, seq
<1> HIDE DEF iter
<1> DEFINE h == [m \in 0 .. n |-> iter[1 .. m]]
<1>10. h[0] = o /\ h[n] = iter[1 .. n]
  <2>1. 1 .. 0 = {} /\ 1 .. 0 \in SUBSET (1 .. n) /\ 0 \in 0 .. n /\ n \in 0 .. n
    OBVIOUS
  <2> QED
    BY <1>8, <2>1
<1>11. ASSUME NEW m \in 1 .. n
       PROVE  h[m] = step(h[m - 1], m)
  <2>1. m \in 0 .. n /\ m - 1 \in 0 .. n
    OBVIOUS
  <2>2. iter[1 .. m] = step(iter[1 .. m - 1], m)
    <3>1. /\ Max(1 .. m) = m /\ (1 .. m) \ {m} = 1 .. m - 1
          /\ 1 .. m # {} /\ 1 .. m \in SUBSET (1 .. n)
      BY PlacesUpTo
    <3> QED
      BY <1>8, <3>1
  <2> QED
    BY <2>1, <2>2
<1> HIDE DEF h
<1>12. \A m \in 0 .. n : h[m] \in V
  <2> DEFINE S == {m \in 0 .. n : h[m] \in V}
  <2>1. 0 \in S
    BY <1>4, <1>10
  <2>2. \A m \in 1 .. n : m - 1 \in S => m \in S
    <3>1. \A m \in 1 .. n : m \in 0 .. n
      OBVIOUS
    <3> QED
      BY <1>1, <1>11, <3>1
  <2> HIDE DEF S
  <2>3. 0 .. n \subseteq S
    BY <2>1, <2>2, CountingFromZero
  <2> QED
    BY <2>3 DEF S
<1> QED
  BY <1>9, <1>10, <1>11, <1>12 DEF step, V, StruckInTurn

(* Suppression among the boxes of class c, none of which is struck out yet: a   *)
(* box goes exactly when an earlier one of the class that stays overlaps    *)
(* it, and the other classes are left alone.                                *)
Struck(dets, w, o, j, num, den) ==
    \E i \in DOMAIN w : /\ i < j /\ o[i] # -1
                        /\ dets[w[i]].cls = dets[w[j]].cls
                        /\ Overlaps(dets[w[i]], dets[w[j]], num, den)

ClassUntouched(dets, n, w, o, c) ==
    \A j \in 1 .. n : o[j] = w[j] \/ (o[j] = -1 /\ dets[w[j]].cls # c)

ClassSuppressed(dets, n, w, o, c, num, den, r) ==
    /\ \A j \in 1 .. n : dets[w[j]].cls # c => r[j] = o[j]
    /\ \A j \in 1 .. n : dets[w[j]].cls = c =>
          r[j] = IF Struck(dets, w, r, j, num, den) THEN -1 ELSE w[j]

(* Suppressing a class leaves the others alone and strikes out exactly those   *)
(* of its objects that overlap an earlier one that stays.                   *)
LEMMA ClassIsSuppressed ==
  ASSUME NEW dets, NEW n \in Nat, NEW w \in [1 .. n -> 1 .. n], NEW o \in Orders(n),
         NEW c, NEW num, NEW den, ClassUntouched(dets, n, w, o, c)
  PROVE  ClassSuppressed(dets, n, w, o, c, num, den, nms_by_class(dets, o, c, num, den))
<1> USE DEF ClassUntouched
<1> DEFINE of(j) == dets[w[j]].cls = c
           over(i, j) == Overlaps(dets[w[i]], dets[w[j]], num, den)
<1>0. PICK h : StruckInTurn(h, dets, n, o, c, num, den)
  BY SuppressionFolds
<1>1. /\ h[0] = o
      /\ \A m \in 0 .. n : h[m] \in Orders(n)
      /\ \A m \in 1 .. n : h[m] = StrikeFrom(dets, h[m - 1], m, c, num, den)
      /\ nms_by_class(dets, o, c, num, den) = h[n]
  BY <1>0 DEF StruckInTurn
<1> DEFINE Gone(v, m, j) == \E i \in 1 .. m : i < j /\ v[i] # -1 /\ of(i) /\ over(i, j)
           Right(v, m) == /\ \A j \in 1 .. n : ~of(j) => v[j] = o[j]
                          /\ \A j \in 1 .. n : of(j) => v[j] = IF Gone(v, m, j) THEN -1 ELSE w[j]
           S == {m \in 0 .. n : Right(h[m], m)}
<1>2. 0 \in S
  <2>1. 0 \in 0 .. n /\ \A i \in 1 .. 0 : FALSE
    OBVIOUS
  <2>2. \A j \in 1 .. n : ~Gone(h[0], 0, j)
    BY <2>1
  <2>3. Right(h[0], 0)
    <3> HIDE DEF Gone
    <3> QED
      BY <1>1, <2>2
  <2> HIDE DEF Right
  <2> QED
    BY <2>1, <2>3
<1>3. ASSUME NEW m \in 1 .. n, m - 1 \in S
      PROVE  m \in S
  <2> DEFINE v == h[m - 1]
             u == h[m]
  <2>1. /\ Right(v, m - 1) /\ v \in Orders(n) /\ m \in 0 .. n /\ m - 1 \in 0 .. n
        /\ u = StrikeFrom(dets, v, m, c, num, den) /\ u \in Orders(n)
    <3>1. m \in 0 .. n /\ m - 1 \in 0 .. n
      OBVIOUS
    <3> HIDE DEF Right
    <3> QED
      BY <1>1, <1>3, <3>1
  <2> SUFFICES Right(u, m)
    BY <2>1
  <2> HIDE DEF u, v
  <2>2. DOMAIN v = 1 .. n /\ \A j \in 1 .. n : v[j] = -1 \/ v[j] = w[j]
    BY <2>1 DEF Orders
  <2>3. \A j \in 1 .. n : w[j] # -1
    OBVIOUS
  <2>4. \A j \in 1 .. n : (v[j] = -1 \/ dets[v[j]].cls # c) <=> (v[j] = -1 \/ ~of(j))
    BY <2>2
  <2>5. CASE v[m] = -1 \/ ~of(m)
    <3>1. u = v
      BY <2>1, <2>4, <2>5 DEF StrikeFrom
    <3>2. ASSUME NEW j \in 1 .. n PROVE Gone(v, m, j) <=> Gone(v, m - 1, j)
      <4>1. \A i \in 1 .. m : i = m \/ i \in 1 .. m - 1
        OBVIOUS
      <4>2. \A i \in 1 .. m - 1 : i \in 1 .. m
        OBVIOUS
      <4> HIDE DEF of, over
      <4> QED
        BY <2>5, <4>1, <4>2
    <3> HIDE DEF Gone, of
    <3> QED
      BY <2>1, <3>1, <3>2
  <2>6. CASE v[m] # -1 /\ of(m)
    <3>1. \A j \in 1 .. n : u[j] = IF j > m /\ v[j] # -1 /\ of(j) /\ over(m, j) THEN -1 ELSE v[j]
      <4>1. v[m] = w[m]
        BY <2>2, <2>6
      <4>2. u = [j \in 1 .. n |->
                   IF j > m /\ ~(v[j] = -1 \/ dets[v[j]].cls # c)
                        /\ Overlaps(dets[v[m]], dets[v[j]], num, den)
                   THEN -1 ELSE v[j]]
        BY <2>1, <2>2, <2>4, <2>6 DEF StrikeFrom
      <4>3. ASSUME NEW j \in 1 .. n, v[j] # -1
            PROVE  v[j] = w[j]
        BY <2>2, <4>3
      <4> QED
        BY <2>4, <4>1, <4>2, <4>3
    <3>2. \A i \in 1 .. m : u[i] = v[i]
      <4>1. \A i \in 1 .. m : i \in 1 .. n /\ ~(i > m)
        OBVIOUS
      <4> QED
        BY <3>1, <4>1
    <3>3. ASSUME NEW j \in 1 .. n
          PROVE  Gone(u, m, j) <=> Gone(v, m - 1, j) \/ (m < j /\ over(m, j))
      <4>1. \A i \in 1 .. m : i = m \/ i \in 1 .. m - 1
        OBVIOUS
      <4>2. m \in 1 .. m /\ \A i \in 1 .. m - 1 : i \in 1 .. m
        OBVIOUS
      <4> HIDE DEF of, over
      <4> QED
        BY <2>6, <3>2, <4>1, <4>2
    <3>4. ASSUME NEW j \in 1 .. n, ~of(j)
          PROVE  u[j] = o[j]
      BY <2>1, <3>1, <3>4
    <3>5. ASSUME NEW j \in 1 .. n, of(j)
          PROVE  u[j] = IF Gone(u, m, j) THEN -1 ELSE w[j]
      <4>1. v[j] = IF Gone(v, m - 1, j) THEN -1 ELSE w[j]
        BY <2>1, <3>5
      <4>2. u[j] = IF j > m /\ v[j] # -1 /\ over(m, j) THEN -1 ELSE v[j]
        BY <3>1, <3>5
      <4>3. j > m <=> m < j
        OBVIOUS
      <4> HIDE DEF Gone, over, of
      <4> QED
        BY <2>3, <3>3, <4>1, <4>2, <4>3
    <3> HIDE DEF Gone, of
    <3> QED
      BY <3>4, <3>5
  <2> QED
    BY <2>5, <2>6
<1>4. Right(h[n], n)
  <2> HIDE DEF S
  <2>1. \A m \in 1 .. n : m - 1 \in S => m \in S
    BY <1>3
  <2>2. 0 .. n \subseteq S
    BY <1>2, <2>1, CountingFromZero
  <2>3. n \in S
    <3>1. n \in 0 .. n
      OBVIOUS
    <3> QED
      BY <2>2, <3>1
  <2> HIDE DEF Right
  <2> QED
    BY <2>3 DEF S
<1> DEFINE r == nms_by_class(dets, o, c, num, den)
<1>5. r = h[n]
  BY <1>1
<1> HIDE DEF r, S
<1>6. ASSUME NEW j \in 1 .. n, of(j)
      PROVE  Struck(dets, w, r, j, num, den) <=> Gone(r, n, j)
  BY <1>6 DEF Struck
<1> HIDE DEF Gone
<1>7. /\ \A j \in 1 .. n : ~of(j) => r[j] = o[j]
      /\ \A j \in 1 .. n : of(j) => r[j] = IF Struck(dets, w, r, j, num, den) THEN -1 ELSE w[j]
  BY <1>4, <1>5, <1>6
<1> QED
  BY <1>7 DEF r, ClassSuppressed

(* The list of the classes of a frame holds each of them once. *)
LEMMA ClassesListed ==
  ASSUME NEW C, IsFiniteSet(C)
  PROVE  /\ Cardinality(C) \in Nat
         /\ SetToSeq(C) \in [1 .. Cardinality(C) -> C]
         /\ \A a, b \in 1 .. Cardinality(C) : SetToSeq(C)[a] = SetToSeq(C)[b] => a = b
         /\ \A c \in C : \E m \in 1 .. Cardinality(C) : SetToSeq(C)[m] = c
<1> DEFINE k == Cardinality(C)
           lists == {f \in [1 .. k -> C] : IsInjective(f)}
           cs == CHOOSE f \in [1 .. k -> C] : IsInjective(f)
<1>1. k \in Nat /\ ExistsBijection(1 .. k, C)
  BY FS_CardinalityType
<1>2. PICK f : f \in Bijection(1 .. k, C)
  BY <1>1 DEF ExistsBijection
<1>3. f \in [1 .. k -> C] /\ IsInjective(f)
  BY <1>2 DEF Bijection, Injection
<1>4. cs \in [1 .. k -> C] /\ IsInjective(cs)
  BY <1>3
<1>5. cs = SetToSeq(C)
  BY DEF SetToSeq
<1> HIDE DEF cs
<1>6. \A a, b \in 1 .. k : cs[a] = cs[b] => a = b
  BY <1>4 DEF IsInjective
<1>7. \A c \in C : \E m \in 1 .. k : cs[m] = c
  <2>1. cs \in Injection(1 .. k, C)
    BY <1>4 DEF Injection
  <2>2. Cardinality(1 .. k) = k
    BY <1>1, FS_Interval
  <2>3. cs \in Surjection(1 .. k, C)
    BY <2>1, <2>2, FS_Injection
  <2> QED
    BY <2>3 DEF Surjection
<1> QED
  BY <1>1, <1>4, <1>5, <1>6, <1>7

(* sort_and_nms goes through the classes one after the other. *)
ByClassInTurn(h, dets, n, w, num, den) ==
    LET C == {dets[i].cls : i \in DOMAIN dets}
        cs == SetToSeq(C)
        k == Cardinality(C)
    IN  /\ h[0] = w
        /\ \A m \in 0 .. k : h[m] \in Orders(n)
        /\ \A m \in 1 .. k : h[m] = nms_by_class(dets, h[m - 1], cs[m], num, den)
        /\ sort_and_nms(dets, w, num, den) = h[k]

(* The classes one after the other, as sort_and_nms folds over them. *)
LEMMA ClassesFold ==
  ASSUME NEW dets, NEW n \in Nat, NEW w \in Orders(n), NEW num, NEW den,
         IsFiniteSet({dets[i].cls : i \in DOMAIN dets})
  PROVE  \E h : ByClassInTurn(h, dets, n, w, num, den)
<1> DEFINE C == {dets[i].cls : i \in DOMAIN dets}
           cs == SetToSeq(C)
           k == Cardinality(C)
           V == Orders(n)
           step(v, c) == nms_by_class(dets, v, c, num, den)
           F == [m \in 1 .. k |-> [v \in V |-> step(v, cs[m])]]
<1>1. k \in Nat /\ DOMAIN cs = 1 .. k
  BY ClassesListed
<1>2. ASSUME NEW c, NEW v \in V
      PROVE  step(v, c) \in V
  <2>1. PICK h : StruckInTurn(h, dets, n, v, c, num, den)
    BY SuppressionFolds
  <2>2. n \in 0 .. n
    OBVIOUS
  <2> QED
    BY <2>1, <2>2 DEF StruckInTurn
<1> HIDE DEF C, cs, k, V
<1>3. F \in [1 .. k -> [V -> V]]
  BY <1>2
<1>4. \A m \in 1 .. k, v \in V : F[m][v] = step(v, cs[m])
  OBVIOUS
<1>5. w \in V
  BY DEF V
<1> HIDE DEF F, step
<1>6. PICK f \in [SUBSET (1 .. k) -> V] : FoldsPlaces(f, k, w, F)
  BY <1>1, <1>3, <1>5, FoldExists
<1> DEFINE Fold(q) == [s \in SUBSET (1 .. k) |->
                         IF s = {} THEN w ELSE step(q[s \ {Max(s)}], cs[Max(s)])]
<1>7. f = Fold(f)
  <2>1. ASSUME NEW s \in SUBSET (1 .. k), s # {}
        PROVE  Max(s) \in 1 .. k /\ f[s \ {Max(s)}] \in V
    <3>1. k \in Int /\ s \in SUBSET Int /\ \A x \in s : x <= k
      BY <1>1
    <3>2. Max(s) \in s
      BY <2>1, <3>1, GreatestIs
    <3> QED
      BY <1>6, <3>2
  <2>2. ASSUME NEW s \in SUBSET (1 .. k)
        PROVE  f[s] = IF s = {} THEN w ELSE step(f[s \ {Max(s)}], cs[Max(s)])
    BY <1>4, <1>6, <2>1 DEF FoldsPlaces
  <2> QED
    BY <2>2
<1> DEFINE iter == CHOOSE q : q = Fold(q)
<1>8. iter = Fold(iter)
  BY <1>7
<1>9. \A s \in SUBSET (1 .. k) :
         iter[s] = IF s = {} THEN w ELSE step(iter[s \ {Max(s)}], cs[Max(s)])
  <2> HIDE DEF iter
  <2> QED
    BY <1>8
<1>10. sort_and_nms(dets, w, num, den) = iter[1 .. k]
  BY <1>1 DEF sort_and_nms, FoldLeft, MapThenFoldSet, step, cs, C
<1> HIDE DEF iter
<1> DEFINE h == [m \in 0 .. k |-> iter[1 .. m]]
<1>11. h[0] = w /\ h[k] = iter[1 .. k]
  <2>1. 1 .. 0 = {} /\ 1 .. 0 \in SUBSET (1 .. k) /\ 0 \in 0 .. k /\ k \in 0 .. k
    BY <1>1
  <2> QED
    BY <1>9, <2>1
<1>12. ASSUME NEW m \in 1 .. k
       PROVE  h[m] = step(h[m - 1], cs[m])
  <2>1. m \in 0 .. k /\ m - 1 \in 0 .. k
    BY <1>1
  <2>2. iter[1 .. m] = step(iter[1 .. m - 1], cs[m])
    <3>1. /\ Max(1 .. m) = m /\ (1 .. m) \ {m} = 1 .. m - 1
          /\ 1 .. m # {} /\ 1 .. m \in SUBSET (1 .. k)
      BY <1>1, PlacesUpTo
    <3> QED
      BY <1>9, <3>1
  <2> QED
    BY <2>1, <2>2
<1> HIDE DEF h
<1>13. \A m \in 0 .. k : h[m] \in V
  <2> DEFINE S == {m \in 0 .. k : h[m] \in V}
  <2>1. 0 \in S
    BY <1>1, <1>5, <1>11
  <2>2. \A m \in 1 .. k : m - 1 \in S => m \in S
    <3>1. \A m \in 1 .. k : m \in 0 .. k
      OBVIOUS
    <3> QED
      BY <1>2, <1>12, <3>1
  <2> HIDE DEF S
  <2>3. 0 .. k \subseteq S
    BY <1>1, <2>1, <2>2, CountingFromZero
  <2> QED
    BY <2>3 DEF S
<1>14. ByClassInTurn(h, dets, n, w, num, den)
  BY <1>10, <1>11, <1>12, <1>13 DEF ByClassInTurn, C, cs, k, V, step
<1> QED
  BY <1>14

(* When all classes are through, a box is struck out exactly when an earlier   *)
(* one of its class that stays overlaps it.                                 *)
LEMMA AllAreSuppressed ==
  ASSUME NEW dets, NEW n \in Nat, DOMAIN dets = 1 .. n, NEW w \in [1 .. n -> 1 .. n],
         NEW num, NEW den
  PROVE  LET r == sort_and_nms(dets, w, num, den)
         IN  /\ r \in Orders(n)
             /\ \A j \in 1 .. n : r[j] = IF Struck(dets, w, r, j, num, den) THEN -1 ELSE w[j]
<1> DEFINE C == {dets[i].cls : i \in DOMAIN dets}
           cs == SetToSeq(C)
           k == Cardinality(C)
           cls(j) == dets[w[j]].cls
           struck(o, j) == Struck(dets, w, o, j, num, den)
<1>1. IsFiniteSet(C)
  <2> DEFINE f == [i \in 1 .. n |-> dets[i].cls]
  <2>1. IsFiniteSet(1 .. n)
    BY FS_Interval
  <2>2. f \in Surjection(1 .. n, C)
    BY DEF Surjection
  <2> HIDE DEF f, C
  <2> QED
    BY <2>1, <2>2, FS_Surjection
<1>2. /\ k \in Nat /\ cs \in [1 .. k -> C]
      /\ \A a, b \in 1 .. k : cs[a] = cs[b] => a = b
      /\ \A c \in C : \E m \in 1 .. k : cs[m] = c
  BY <1>1, ClassesListed
<1>3. w \in Orders(n)
  BY DEF Orders
<1>4. PICK h : ByClassInTurn(h, dets, n, w, num, den)
  BY <1>1, <1>3, ClassesFold
<1>5. /\ h[0] = w
      /\ \A m \in 0 .. k : h[m] \in Orders(n)
      /\ \A m \in 1 .. k : h[m] = nms_by_class(dets, h[m - 1], cs[m], num, den)
      /\ sort_and_nms(dets, w, num, den) = h[k]
  BY <1>4 DEF ByClassInTurn
<1>6. \A j \in 1 .. n : cls(j) \in C
  OBVIOUS
<1> HIDE DEF C, cs, k
<1> DEFINE through(m) == {cs[i] : i \in 1 .. m}
           Right(o, m) ==
             \A j \in 1 .. n : o[j] = IF cls(j) \in through(m) /\ struck(o, j) THEN -1 ELSE w[j]
           S == {m \in 0 .. k : Right(h[m], m)}
<1>7. 0 \in S
  <2>1. 0 \in 0 .. k /\ through(0) = {}
    BY <1>2
  <2>2. Right(h[0], 0)
    <3> HIDE DEF through, struck
    <3> QED
      BY <1>5, <2>1
  <2> HIDE DEF Right
  <2> QED
    BY <2>1, <2>2
<1>8. ASSUME NEW m \in 1 .. k, m - 1 \in S
      PROVE  m \in S
  <2> DEFINE o == h[m - 1]
             r == h[m]
             c == cs[m]
  <2>1. /\ Right(o, m - 1) /\ o \in Orders(n) /\ r \in Orders(n)
        /\ m \in 0 .. k /\ r = nms_by_class(dets, o, c, num, den)
    <3>1. m \in 0 .. k /\ m - 1 \in 0 .. k
      BY <1>2
    <3> HIDE DEF Right
    <3> QED
      BY <1>5, <1>8, <3>1
  <2> SUFFICES Right(r, m)
    <3> HIDE DEF Right
    <3> QED
      BY <2>1
  <2> HIDE DEF o, r
  <2>2. c \notin through(m - 1) /\ through(m) = through(m - 1) \cup {c}
    <3>1. m \in 1 .. k /\ m \in Nat /\ \A i \in 1 .. m - 1 : i \in 1 .. k /\ i # m
      BY <1>2
    <3>2. 1 .. m = (1 .. m - 1) \cup {m}
      BY <3>1
    <3> QED
      BY <1>2, <3>1, <3>2
  <2> HIDE DEF through, c
  <2>3. \A j \in 1 .. n : o[j] = w[j] \/ (o[j] = -1 /\ cls(j) # c)
    <3> HIDE DEF struck, cls
    <3> QED
      BY <2>1, <2>2
  <2>4. /\ \A j \in 1 .. n : cls(j) # c => r[j] = o[j]
        /\ \A j \in 1 .. n : cls(j) = c => r[j] = IF struck(r, j) THEN -1 ELSE w[j]
    <3>1. ClassUntouched(dets, n, w, o, c)
      BY <2>3 DEF ClassUntouched
    <3>2. ClassSuppressed(dets, n, w, o, c, num, den, nms_by_class(dets, o, c, num, den))
      BY <2>1, <3>1, ClassIsSuppressed
    <3> QED
      BY <2>1, <3>2 DEF ClassSuppressed
  <2>5. ASSUME NEW j \in 1 .. n, cls(j) # c
        PROVE  struck(r, j) <=> struck(o, j)
    BY <2>4, <2>5 DEF Struck
  <2> HIDE DEF struck, cls
  <2> QED
    BY <2>1, <2>2, <2>4, <2>5
<1>9. Right(h[k], k)
  <2> HIDE DEF S
  <2>1. \A m \in 1 .. k : m - 1 \in S => m \in S
    BY <1>8
  <2>2. 0 .. k \subseteq S
    BY <1>2, <1>7, <2>1, CountingFromZero
  <2>3. k \in S
    <3>1. k \in 0 .. k
      BY <1>2
    <3> QED
      BY <2>2, <3>1
  <2> HIDE DEF Right
  <2> QED
    BY <2>3 DEF S
<1>10. \A j \in 1 .. n : cls(j) \in through(k)
  BY <1>2, <1>6
<1> DEFINE r == sort_and_nms(dets, w, num, den)
<1>11. r = h[k] /\ r \in Orders(n)
  <2>1. k \in 0 .. k
    BY <1>2
  <2> QED
    BY <1>5, <2>1
<1> HIDE DEF r
<1>12. \A j \in 1 .. n : r[j] = IF struck(r, j) THEN -1 ELSE w[j]
  <2> HIDE DEF through, struck, cls
  <2> QED
    BY <1>9, <1>10, <1>11
<1> QED
  BY <1>11, <1>12 DEF r

(* An order holds as many boxes as it has places for them. *)
LEMMA PlacesCount ==
  ASSUME NEW n \in Nat, NEW w \in [1 .. n -> 1 .. n], \A i, j \in 1 .. n : w[i] = w[j] => i = j,
         NEW A \in SUBSET (1 .. n)
  PROVE  Cardinality({w[j] : j \in A}) = Cardinality(A)
<1> DEFINE B == {w[j] : j \in A}
           f == [j \in A |-> w[j]]
<1>1. IsFiniteSet(A)
  <2>1. IsFiniteSet(1 .. n)
    BY FS_Interval
  <2> QED
    BY <2>1, FS_Subset
<1>2. f \in Bijection(A, B)
  BY DEF Bijection, Injection, Surjection, IsInjective
<1> HIDE DEF f, B
<1>3. ExistsBijection(A, B)
  BY <1>2 DEF ExistsBijection
<1>4. Cardinality(B) = Cardinality(A)
  BY <1>1, <1>3, FS_Bijection
<1> QED
  BY <1>4 DEF B

(* The limit on the objects of a frame cuts off the last of those that are     *)
(* left.                                                                    *)
FirstOf(left) == {i \in left : Cardinality({j \in left : j < i}) < OBJ_NUMB_MAX_SIZE}

(* There are as many as fit, and those that are cut off come after them. *)
LEMMA LimitCutsTheLast ==
  ASSUME NEW n \in Nat, NEW left \in SUBSET (1 .. n)
  PROVE  /\ Cardinality(FirstOf(left)) = Min({Cardinality(left), OBJ_NUMB_MAX_SIZE})
         /\ \A a \in FirstOf(left), b \in left \ FirstOf(left) : a < b
<1> DEFINE M == OBJ_NUMB_MAX_SIZE
           L(m) == {j \in left : j <= m}
           P(m) == {i \in FirstOf(left) : i <= m}
           least(k) == IF k <= M THEN k ELSE M
<1>0. M \in Nat
  BY PostprocessAssumption
<1>1. ASSUME NEW T \in SUBSET left
      PROVE  IsFiniteSet(T) /\ Cardinality(T) \in Nat
  <2>1. IsFiniteSet(1 .. n) /\ T \in SUBSET (1 .. n)
    BY FS_Interval
  <2> QED
    BY <2>1, FS_Subset, FS_CardinalityType
<1>2. \A a \in FirstOf(left), b \in left \ FirstOf(left) : a < b
  <2> SUFFICES ASSUME NEW a \in FirstOf(left), NEW b \in left \ FirstOf(left), ~(a < b)
               PROVE  FALSE
    OBVIOUS
  <2> DEFINE A == {j \in left : j < a}
             B == {j \in left : j < b}
  <2>1. a \in left /\ a \in Int /\ b \in Int /\ Cardinality(A) < M /\ ~(Cardinality(B) < M)
    BY DEF FirstOf
  <2>2. B \in SUBSET A
    <3>1. \A j \in left : j \in Int /\ (j < b => j < a)
      BY <2>1
    <3> QED
      BY <3>1
  <2>3. A \in SUBSET left /\ B \in SUBSET left
    OBVIOUS
  <2> HIDE DEF A, B
  <2>4. Cardinality(B) <= Cardinality(A) /\ Cardinality(A) \in Nat /\ Cardinality(B) \in Nat
    BY <1>1, <2>2, <2>3, FS_Subset
  <2> QED
    BY <1>0, <2>1, <2>4
<1> DEFINE S == {m \in 0 .. n : Cardinality(P(m)) = least(Cardinality(L(m)))}
<1>3. 0 \in S
  <2>1. P(0) = {} /\ L(0) = {} /\ 0 \in 0 .. n
    <3>1. FirstOf(left) \in SUBSET left /\ \A j \in left : ~(j <= 0)
      BY DEF FirstOf
    <3>2. PICK B : B = FirstOf(left)
      OBVIOUS
    <3>3. P(0) = {} /\ L(0) = {}
      BY <3>1, <3>2
    <3> QED
      BY <3>3
  <2>2. Cardinality(P(0)) = 0 /\ Cardinality(L(0)) = 0
    BY <2>1, FS_EmptySet
  <2> HIDE DEF P, L
  <2> QED
    BY <1>0, <2>1, <2>2
<1>4. ASSUME NEW m \in 1 .. n, m - 1 \in S
      PROVE  m \in S
  <2> DEFINE k == Cardinality(L(m - 1))
  <2>1. \A j \in 1 .. n : /\ j <= m <=> j <= m - 1 \/ j = m
                          /\ j < m <=> j <= m - 1
    OBVIOUS
  <2>2. /\ L(m) = IF m \in left THEN L(m - 1) \cup {m} ELSE L(m - 1)
        /\ P(m) = IF m \in FirstOf(left) THEN P(m - 1) \cup {m} ELSE P(m - 1)
        /\ m \notin L(m - 1) /\ m \notin P(m - 1)
    <3>1. ~(m <= m - 1) /\ FirstOf(left) \in SUBSET left
      BY DEF FirstOf
    <3>2. \A j \in left : j <= m <=> j <= m - 1 \/ j = m
      BY <2>1
    <3>3. PICK B : B = FirstOf(left)
      OBVIOUS
    <3> QED
      BY <3>1, <3>2, <3>3
  <2>3. m \in FirstOf(left) <=> m \in left /\ k < M
    <3>1. {j \in left : j < m} = L(m - 1)
      BY <2>1
    <3> QED
      BY <3>1 DEF FirstOf
  <2>4. /\ IsFiniteSet(L(m - 1)) /\ k \in Nat
        /\ IsFiniteSet(P(m - 1)) /\ Cardinality(P(m - 1)) = least(k)
    <3>1. P(m - 1) \in SUBSET left /\ L(m - 1) \in SUBSET left
      BY DEF FirstOf
    <3> QED
      BY <1>1, <1>4, <3>1
  <2> HIDE DEF L, P
  <2>5. /\ Cardinality(L(m)) = IF m \in left THEN k + 1 ELSE k
        /\ Cardinality(P(m)) = IF m \in FirstOf(left) THEN least(k) + 1 ELSE least(k)
    <3>1. ASSUME NEW T, IsFiniteSet(T), m \notin T
          PROVE  Cardinality(T \cup {m}) = Cardinality(T) + 1
      BY <3>1, FS_AddElement
    <3>2. /\ Cardinality(L(m - 1) \cup {m}) = k + 1
          /\ Cardinality(P(m - 1) \cup {m}) = least(k) + 1
      BY <2>2, <2>4, <3>1
    <3> HIDE DEF least
    <3> QED
      BY <2>2, <2>4, <3>2
  <2>6. Cardinality(P(m)) = least(Cardinality(L(m)))
    <3> HIDE DEF k
    <3> QED
      BY <1>0, <2>3, <2>4, <2>5
  <2>7. m \in 0 .. n
    OBVIOUS
  <2> HIDE DEF least
  <2> QED
    BY <2>6, <2>7
<1>5. Cardinality(P(n)) = least(Cardinality(L(n)))
  <2> HIDE DEF S
  <2>1. \A m \in 1 .. n : m - 1 \in S => m \in S
    BY <1>4
  <2>2. 0 .. n \subseteq S
    BY <1>3, <2>1, CountingFromZero
  <2>3. n \in S
    <3>1. n \in 0 .. n
      OBVIOUS
    <3> QED
      BY <2>2, <3>1
  <2> QED
    BY <2>3 DEF S
<1>6. P(n) = FirstOf(left) /\ L(n) = left
  <2>1. \A j \in left : j <= n
    OBVIOUS
  <2> QED
    BY <2>1 DEF FirstOf
<1>7. Min({Cardinality(left), M}) = least(Cardinality(left))
  <2>1. PICK k : k = Cardinality(left)
    OBVIOUS
  <2>2. k \in Nat
    BY <1>1, <2>1
  <2>3. Min({k, M}) = least(k)
    BY <1>0, <2>2 DEF Min
  <2> QED
    BY <2>1, <2>3
<1> QED
  BY <1>2, <1>5, <1>6, <1>7

(* It does not matter which of two boxes is compared with the other. *)
LEMMA OverlapIsMutual ==
  ASSUME NEW a, NEW b, NEW num, NEW den,
         a.w \in Int, a.h \in Int, b.w \in Int, b.h \in Int, a.x \in Int, a.y \in Int,
         b.x \in Int, b.y \in Int
  PROVE  Overlaps(a, b, num, den) <=> Overlaps(b, a, num, den)
<1>1. ASSUME NEW p, NEW q, NEW r, NEW s
      PROVE  inter_length(p, q, r, s) = inter_length(r, s, p, q)
  <2>1. {p + q, r + s} = {r + s, p + q} /\ {p, r} = {r, p}
    OBVIOUS
  <2> QED
    BY <2>1 DEF inter_length
<1>2. PICK i : i = inter_length(a.x, a.w, b.x, b.w) * inter_length(a.y, a.h, b.y, b.h)
  OBVIOUS
<1>3. i = inter_length(b.x, b.w, a.x, a.w) * inter_length(b.y, b.h, a.y, a.h)
  BY <1>1, <1>2
<1>4. PICK p, q : p = (a.w + 1) * (a.h + 1) /\ q = (b.w + 1) * (b.h + 1)
  OBVIOUS
<1>5. p \in Int /\ q \in Int
  BY <1>4
<1>6. PICK u : u = p + q /\ u = q + p
  BY <1>5
<1>7. /\ Overlaps(a, b, num, den) <=> u - i > 0 /\ i * den > num * (u - i)
      /\ Overlaps(b, a, num, den) <=> u - i > 0 /\ i * den > num * (u - i)
  BY <1>2, <1>3, <1>4, <1>6 DEF Overlaps
<1> QED
  BY <1>7

(* What is kept of a frame is what the property asks for, in whatever order    *)
(* objects of equal score were sorted.                                      *)
LEMMA KeptAreSound ==
  ASSUME NEW of \in Candidates, NEW w \in SortedOrders(of.dets)
  PROVE  LET r == sort_and_nms(of.dets, w, of.num, of.den)
         IN  SoundlyKept(of, r, fill_box_result(r))
<1> DEFINE dets == of.dets
           num == of.num
           den == of.den
           n == Len(dets)
           r == sort_and_nms(dets, w, num, den)
           left == {j \in 1 .. n : r[j] # -1}
           stay == Range(r) \ {-1}
           kept == fill_box_result(r)
           clash(i, j) == dets[i].cls = dets[j].cls /\ Overlaps(dets[i], dets[j], num, den)
<1>1. /\ n \in Nat /\ DOMAIN dets = 1 .. n
      /\ \A i \in 1 .. n : /\ dets[i].x \in Int /\ dets[i].y \in Int /\ dets[i].w \in Int
                           /\ dets[i].h \in Int /\ dets[i].score \in Int
  <2> DEFINE Boxes == [x : Int, y : Int, w : Int, h : Int, score : Int, cls : Nat]
  <2>1. dets \in Seq(Boxes)
    BY DEF Candidates
  <2>2. \A b \in Boxes : /\ b.x \in Int /\ b.y \in Int /\ b.w \in Int
                         /\ b.h \in Int /\ b.score \in Int
    OBVIOUS
  <2> HIDE DEF dets, Boxes
  <2>3. n \in Nat /\ DOMAIN dets = 1 .. n /\ \A i \in 1 .. n : dets[i] \in Boxes
    BY <2>1
  <2> QED
    BY <2>2, <2>3
<1>2. /\ w \in [1 .. n -> 1 .. n] /\ \A i, j \in 1 .. n : w[i] = w[j] => i = j
      /\ \A i, j \in 1 .. n : i < j => dets[w[i]].score >= dets[w[j]].score
  BY <1>1 DEF SortedOrders
<1> HIDE DEF dets, num, den, n
<1>3. \A i \in 1 .. n : \E j \in 1 .. n : w[j] = i
  <2>1. IsFiniteSet(1 .. n)
    BY <1>1, FS_Interval
  <2>2. w \in Injection(1 .. n, 1 .. n)
    BY <1>2 DEF Injection, IsInjective
  <2>3. w \in Surjection(1 .. n, 1 .. n)
    BY <2>1, <2>2, FS_Injection
  <2> QED
    BY <2>3 DEF Surjection
<1>4. /\ r \in Orders(n)
      /\ \A j \in 1 .. n : r[j] = IF Struck(dets, w, r, j, num, den) THEN -1 ELSE w[j]
  BY <1>1, <1>2, AllAreSuppressed
<1> HIDE DEF r
<1>5. DOMAIN r = 1 .. n /\ \A j \in 1 .. n : r[j] = -1 \/ r[j] \in 1 .. n
  BY <1>4 DEF Orders
<1>6. \A j \in left : r[j] = w[j] /\ ~Struck(dets, w, r, j, num, den)
  BY <1>4
<1>7. stay = {w[j] : j \in left}
  <2>1. stay = {r[j] : j \in left}
    BY <1>5 DEF Range
  <2> QED
    BY <1>6, <2>1
<1>8. kept = {w[j] : j \in FirstOf(left)}
  <2>1. ASSUME NEW j \in 1 .. n
        PROVE  r[j] >= 0 <=> r[j] # -1
    BY <1>1, <1>5
  <2>2. {i \in DOMAIN r : r[i] >= 0} = left
    BY <1>5, <2>1
  <2>3. kept = {r[i] : i \in FirstOf(left)}
    <3> HIDE DEF left
    <3> QED
      BY <2>2 DEF fill_box_result, FirstOf
  <2>4. FirstOf(left) \in SUBSET left
    BY DEF FirstOf
  <2> HIDE DEF left
  <2> QED
    BY <1>6, <2>3, <2>4
<1>9. left \in SUBSET (1 .. n) /\ FirstOf(left) \in SUBSET left
  BY DEF FirstOf
<1>10. /\ Cardinality(FirstOf(left)) = Min({Cardinality(left), OBJ_NUMB_MAX_SIZE})
       /\ \A a \in FirstOf(left), b \in left \ FirstOf(left) : a < b
  BY <1>1, <1>9, LimitCutsTheLast
<1>11. \A j \in 1 .. n : r[j] = -1 <=> Struck(dets, w, r, j, num, den)
  BY <1>2, <1>4
<1> HIDE DEF left, stay, kept
<1>12. \A i, j \in stay : i # j => ~clash(i, j)
  <2> SUFFICES ASSUME NEW i \in stay, NEW j \in stay, i # j, clash(i, j)
               PROVE  FALSE
    OBVIOUS
  <2>1. PICK a \in left, b \in left : i = w[a] /\ j = w[b]
    BY <1>7
  <2>2. a \in 1 .. n /\ b \in 1 .. n /\ a # b /\ w[a] \in 1 .. n /\ w[b] \in 1 .. n
    BY <1>2, <1>9, <2>1
  <2>3. Overlaps(dets[w[a]], dets[w[b]], num, den) /\ Overlaps(dets[w[b]], dets[w[a]], num, den)
    <3>1. PICK x, y : x = dets[w[a]] /\ y = dets[w[b]]
      OBVIOUS
    <3>2. /\ x.w \in Int /\ x.h \in Int /\ y.w \in Int /\ y.h \in Int
          /\ x.x \in Int /\ x.y \in Int /\ y.x \in Int /\ y.y \in Int
      BY <1>1, <2>2, <3>1
    <3>3. Overlaps(x, y, num, den)
      BY <2>1, <3>1
    <3>4. Overlaps(y, x, num, den)
      BY <3>2, <3>3, OverlapIsMutual
    <3> QED
      BY <3>1, <3>3, <3>4
  <2>4. r[a] # -1 /\ r[b] # -1
    BY <2>1 DEF left
  <2>5. dets[w[a]].cls = dets[w[b]].cls
    BY <2>1
  <2>6. DOMAIN w = 1 .. n
    BY <1>2
  <2>7. CASE a < b
    <3>1. Struck(dets, w, r, b, num, den)
      BY <2>2, <2>3, <2>4, <2>5, <2>6, <2>7 DEF Struck
    <3> QED
      BY <1>6, <2>1, <3>1
  <2>8. CASE b < a
    <3>1. Struck(dets, w, r, a, num, den)
      BY <2>2, <2>3, <2>4, <2>5, <2>6, <2>8 DEF Struck
    <3> QED
      BY <1>6, <2>1, <3>1
  <2> QED
    BY <1>1, <2>2, <2>7, <2>8
<1>13. ASSUME NEW i \in DOMAIN dets \ stay
       PROVE  \E j \in stay : clash(j, i) /\ dets[j].score >= dets[i].score
  <2>1. PICK b \in 1 .. n : w[b] = i
    BY <1>1, <1>3
  <2>2. r[b] = -1
    <3>1. b \notin left
      BY <1>7, <2>1
    <3> QED
      BY <3>1 DEF left
  <2>3. Struck(dets, w, r, b, num, den)
    BY <1>11, <2>2
  <2>4. PICK a \in 1 .. n : /\ a < b /\ r[a] # -1 /\ dets[w[a]].cls = dets[w[b]].cls
                            /\ Overlaps(dets[w[a]], dets[w[b]], num, den)
    BY <1>2, <2>3 DEF Struck
  <2>5. a \in left
    BY <2>4 DEF left
  <2>6. w[a] \in stay
    BY <1>7, <2>5
  <2>7. dets[w[a]].score >= dets[i].score
    BY <1>2, <2>1, <2>4
  <2> QED
    BY <2>1, <2>4, <2>6, <2>7
<1>14. kept \subseteq stay
  BY <1>7, <1>8, <1>9
<1>15. Cardinality(kept) = Min({Cardinality(stay), OBJ_NUMB_MAX_SIZE})
  <2>1. Cardinality({w[j] : j \in left}) = Cardinality(left)
    BY <1>1, <1>2, <1>9, PlacesCount
  <2>2. Cardinality({w[j] : j \in FirstOf(left)}) = Cardinality(FirstOf(left))
    <3>1. FirstOf(left) \in SUBSET (1 .. n)
      BY <1>9
    <3> QED
      BY <1>1, <1>2, <3>1, PlacesCount
  <2> QED
    BY <1>7, <1>8, <1>10, <2>1, <2>2
<1>16. ASSUME NEW i \in kept, NEW j \in stay \ kept
       PROVE  dets[i].score >= dets[j].score
  <2>1. PICK a \in FirstOf(left) : i = w[a]
    BY <1>8
  <2>2. PICK b \in left : j = w[b]
    BY <1>7
  <2>3. b \notin FirstOf(left)
    BY <1>8, <2>2, <1>16
  <2>4. a < b /\ a \in 1 .. n /\ b \in 1 .. n
    BY <1>9, <1>10, <2>3
  <2> QED
    BY <1>2, <2>1, <2>2, <2>4
<1>17. SoundlyKept(of, r, kept)
  BY <1>12, <1>13, <1>14, <1>15, <1>16 DEF SoundlyKept, stay, dets, num, den
<1> QED
  BY <1>17 DEF r, kept, dets, num, den

(* For every list of detections, every order of equal scores and every limit:  *)
(* no two objects that stay overlap, whatever was suppressed gave way to a  *)
(* better object that stays, and the limit cuts off the worst               *)
(* (nms_by_class, fill_box_result).                                         *)
THEOREM KeptObjectsAreAlwaysSound == Spec => []KeptObjectsAreSound
<1>1. Init => KeptObjectsAreSound
  <2>1. Init => ~result.done
    BY DEF Init, NotYet
  <2> QED
    BY <2>1 DEF KeptObjectsAreSound, Returned
<1>2. ASSUME Legal(input), KeptObjectsAreSound, [Next]_vars
      PROVE  KeptObjectsAreSound'
  <2>1. CASE UNCHANGED vars
    BY <1>2, <2>1 DEF KeptObjectsAreSound, Returned, vars
  <2>2. CASE Next /\ ~Returned("suppress")'
    BY <2>2 DEF KeptObjectsAreSound
  <2>3. CASE Next /\ Returned("suppress")'
    <3>1. input' = input /\ Suppress
      BY <2>3, OneCall
    <3>2. PICK of : of = input.of
      OBVIOUS
    <3>3. PICK order \in SortedOrders(of.dets) :
            Returns([left |-> sort_and_nms(of.dets, order, of.num, of.den),
                     kept |-> fill_box_result(sort_and_nms(of.dets, order, of.num, of.den))])
      BY <3>1, <3>2 DEF Suppress
    <3>4. PICK r : r = sort_and_nms(of.dets, order, of.num, of.den)
      OBVIOUS
    <3>5. result'.of = [left |-> r, kept |-> fill_box_result(r)]
      BY <3>3, <3>4 DEF Returns
    <3>6. of \in Candidates
      BY <1>2, <3>1, <3>2 DEF Legal, Suppress, Called
    <3>7. SoundlyKept(of, r, fill_box_result(r))
      BY <3>4, <3>6, KeptAreSound
    <3>8. input'.of = of /\ result'.of.left = r /\ result'.of.kept = fill_box_result(r)
      BY <3>1, <3>2, <3>5
    <3> QED
      BY <3>7, <3>8 DEF KeptObjectsAreSound
  <2> QED
    BY <1>2, <2>1, <2>2, <2>3
<1> QED
  BY <1>1, <1>2, CallsStayLegal, PTL DEF Spec

(* Both decodings, of boxes and of poses, for every input. *)
THEOREM DecodingIsAlwaysSound == Spec => []DecodingIsSound
<1>1. QuantizedAgreesWithFloat /\ PosesFindTheirKeypoints => DecodingIsSound
  BY DEF DecodingIsSound
<1> QED
  BY <1>1, DecodingAlwaysAgrees, PosesAlwaysFindTheirKeypoints, PTL

(* The objects that are kept and the mask they are shown by, for every input. *)
THEOREM ObjectsAreAlwaysSound == Spec => []ObjectsAreSound
<1>1. KeptObjectsAreSound /\ MasksAreSampled => ObjectsAreSound
  BY DEF ObjectsAreSound
<1> QED
  BY <1>1, KeptObjectsAreAlwaysSound, MasksAreAlwaysSampled, PTL

-----------------------------------------------------------------------------
(* A list of stages without gaps keeps its places. *)
LEMMA StagesInPlace ==
  ASSUME NEW N \in Nat, NEW stages \in [0 .. N - 1 -> Stages],
         \A i \in 0 .. N - 1 : ~stages[i].null
  PROVE  /\ DOMAIN toCfg(stages) = 0 .. N - 1
         /\ Size(stages) = N /\ Size(toCfg(stages)) = N
         /\ \A k \in 0 .. N - 1 :
              toCfg(stages)[k] =
                [stages[k] EXCEPT !.parent = IF stages[k].parent # NoParent THEN stages[k].parent
                                             ELSE IF k = 0 THEN -1 ELSE k - 1]
<1> DEFINE given == {i \in DOMAIN stages : ~stages[i].null}
           place(k) == CHOOSE i \in given : Cardinality({j \in given : j < i}) = k
           parent(k) == IF stages[k].parent # NoParent THEN stages[k].parent
                        ELSE IF k = 0 THEN -1 ELSE k - 1
<1>1. given = 0 .. N - 1 /\ Cardinality(0 .. N - 1) = N
  <2>1. Cardinality(0 .. N - 1) = N
    BY FS_Interval
  <2> QED
    BY <2>1
<1>2. toCfg(stages) = [k \in 0 .. Cardinality(given) - 1 |->
                         [stages[place(k)] EXCEPT !.parent = parent(place(k))]]
  BY DEF toCfg
<1>3. \A i \in 0 .. N - 1 : Cardinality({j \in 0 .. N - 1 : j < i}) = i
  <2> TAKE i \in 0 .. N - 1
  <2>1. {j \in 0 .. N - 1 : j < i} = 0 .. i - 1
    OBVIOUS
  <2>2. Cardinality(0 .. i - 1) = i
    BY FS_Interval
  <2> QED
    BY <2>1, <2>2
<1> HIDE DEF given, parent
<1>4. ASSUME NEW k \in 0 .. N - 1
      PROVE  place(k) = k
  <2> DEFINE q == CHOOSE i \in 0 .. N - 1 : Cardinality({j \in 0 .. N - 1 : j < i}) = k
  <2>1. q \in 0 .. N - 1 /\ Cardinality({j \in 0 .. N - 1 : j < q}) = k
    BY <1>3
  <2>2. place(k) = q
    BY <1>1
  <2> HIDE DEF q
  <2> QED
    BY <1>3, <2>1, <2>2
<1> HIDE DEF place
<1>5. toCfg(stages) = [k \in 0 .. N - 1 |-> [stages[k] EXCEPT !.parent = parent(k)]]
  BY <1>1, <1>2, <1>4
<1> QED
  BY <1>1, <1>5 DEF Size, parent

(* Without gaps the API and the runner agree about a list but for its depth. *)
LEMMA ApiAgreesWithRunner ==
  ASSUME NEW N \in Nat, NEW stages \in [0 .. N - 1 -> Stages],
         \A i \in 0 .. N - 1 : ~stages[i].null
  PROVE  /\ validateStages(stages) /\ depthOf(toCfg(stages)) <= kMaxDepth => init(toCfg(stages))
         /\ \/ ~init(toCfg(stages))
            \/ \E i \in 0 .. N - 1 : stages[i].conf \notin 0 .. MaxConf
            \/ stages[0].transform = "unknown"
            \/ validateStages(stages)
<1> DEFINE cfg == toCfg(stages)
           parent(k) == IF stages[k].parent # NoParent THEN stages[k].parent
                        ELSE IF k = 0 THEN -1 ELSE k - 1
<1>1. /\ DOMAIN cfg = 0 .. N - 1 /\ Size(stages) = N /\ Size(cfg) = N
      /\ \A k \in 0 .. N - 1 : cfg[k] = [stages[k] EXCEPT !.parent = parent(k)]
  BY StagesInPlace
<1> HIDE DEF cfg
<1>2. \A k \in 0 .. N - 1 : /\ cfg[k].model = stages[k].model
                            /\ cfg[k].transform = stages[k].transform
                            /\ cfg[k].parent = parent(k) /\ stages[k].parent \in Int
  BY <1>1 DEF Stages
<1>3. NoParent \in Int /\ NoParent < 0
  BY DEF NoParent
<1>4. kMaxStages \in Nat /\ (N \in 1 .. kMaxStages => 0 \in 0 .. N - 1)
  BY StageTreeAssumption
<1>5. ASSUME validateStages(stages), depthOf(cfg) <= kMaxDepth
      PROVE  init(cfg)
  <2>1. N \in 1 .. kMaxStages
    BY <1>1, <1>5 DEF validateStages
  <2>2. \A i \in 0 .. N - 1 : /\ stages[i].model = "known" /\ stages[i].transform # "unknown"
                              /\ IF i = 0 THEN stages[i].parent < 0
                                 ELSE stages[i].parent = NoParent \/ stages[i].parent \in 0 .. i - 1
    BY <1>5 DEF validateStages
  <2>3. cfg[0].parent < 0
    BY <1>2, <1>3, <1>4, <2>1, <2>2
  <2>4. ASSUME NEW i \in 0 .. N - 1
        PROVE  StageLoads(cfg, i)
    <3>1. i > 0 => parent(i) \in 0 .. i - 1
      BY <2>2
    <3> HIDE DEF parent
    <3> QED
      BY <1>2, <2>2, <3>1 DEF StageLoads
  <2> QED
    BY <1>1, <1>5, <2>1, <2>3, <2>4 DEF init
<1>6. ASSUME init(cfg), \A i \in 0 .. N - 1 : stages[i].conf \in 0 .. MaxConf,
             stages[0].transform # "unknown"
      PROVE  validateStages(stages)
  <2>1. /\ N \in 1 .. kMaxStages /\ cfg[0].parent < 0
        /\ \A i \in 0 .. N - 1 : StageLoads(cfg, i)
    BY <1>1, <1>6 DEF init
  <2>2. stages[0].parent < 0
    BY <1>2, <1>3, <1>4, <2>1
  <2>3. ASSUME NEW i \in 0 .. N - 1, i # 0
        PROVE  stages[i].parent = NoParent \/ stages[i].parent \in 0 .. i - 1
    <3>1. cfg[i].parent \in 0 .. i - 1
      BY <2>1, <2>3 DEF StageLoads
    <3> QED
      BY <1>2, <3>1
  <2>4. ASSUME NEW i \in 0 .. N - 1
        PROVE  stages[i].model = "known" /\ stages[i].transform # "unknown"
    <3>1. StageLoads(cfg, i)
      BY <2>1
    <3>2. i > 0 \/ i = 0
      OBVIOUS
    <3> QED
      BY <1>2, <1>6, <3>1, <3>2 DEF StageLoads
  <2>5. DOMAIN stages = 0 .. N - 1
    OBVIOUS
  <2> QED
    BY <1>1, <1>6, <2>1, <2>2, <2>3, <2>4, <2>5 DEF validateStages
<1> QED
  BY <1>5, <1>6 DEF cfg

(* A configuration the runner takes: parents stand before their children. *)
Tree(cfg, K) ==
    /\ K \in Nat \ {0} /\ DOMAIN cfg = 0 .. K - 1
    /\ \A i \in 1 .. K - 1 : cfg[i].parent \in 0 .. i - 1

(* Every stage has a depth, and depthOf is no less. *)
DepthsOf(depth, cfg, K) ==
    /\ depth \in [0 .. K - 1 -> Nat \ {0}] /\ depth[0] = 1
    /\ \A i \in 1 .. K - 1 : depth[i] = 1 + depth[cfg[i].parent]
    /\ depthOf(cfg) \in Nat /\ \A i \in 0 .. K - 1 : depth[i] <= depthOf(cfg)

(* The recursive function inside depthOf exists and gives these depths. *)
LEMMA DepthsBuilt ==
  ASSUME NEW cfg, NEW K, Tree(cfg, K)
  PROVE  \E depth : DepthsOf(depth, cfg, K)
<1>1. /\ K \in Nat \ {0} /\ DOMAIN cfg = 0 .. K - 1
      /\ \A i \in 1 .. K - 1 : cfg[i].parent \in 0 .. i - 1
  BY DEF Tree
<1> DEFINE N == K - 1
           Obeys(f, m) == /\ f \in [0 .. m -> Nat \ {0}] /\ f[0] = 1
                          /\ \A i \in 1 .. m : f[i] = 1 + f[cfg[i].parent]
           S == {m \in 0 .. N : \E f : Obeys(f, m)}
<1>2. N \in Nat
  BY <1>1
<1>3. 0 \in S
  <2> DEFINE f == [i \in 0 .. 0 |-> 1]
  <2>1. f \in [0 .. 0 -> Nat \ {0}] /\ f[0] = 1 /\ \A i \in 1 .. 0 : FALSE
    OBVIOUS
  <2>2. Obeys(f, 0)
    <3> HIDE DEF f
    <3> QED
      BY <2>1
  <2> HIDE DEF Obeys, f
  <2> QED
    BY <1>2, <2>2
<1>4. ASSUME NEW m \in 1 .. N, m - 1 \in S
      PROVE  m \in S
  <2>1. PICK f : Obeys(f, m - 1)
    BY <1>4
  <2> DEFINE g == [i \in 0 .. m |-> IF i = m THEN 1 + f[cfg[m].parent] ELSE f[i]]
  <2>2. cfg[m].parent \in 0 .. m - 1
    BY <1>1
  <2>3. \A i \in 0 .. m - 1 : i \in 0 .. m /\ i # m /\ g[i] = f[i] /\ f[i] \in Nat \ {0}
    BY <2>1
  <2>4. m \in 0 .. m /\ g[m] = 1 + f[cfg[m].parent] /\ f[cfg[m].parent] \in Nat
    BY <2>1, <2>2
  <2>5. \A i \in 0 .. m : i = m \/ i \in 0 .. m - 1
    OBVIOUS
  <2>6. g \in [0 .. m -> Nat \ {0}]
    <3>1. \A i \in 0 .. m : g[i] \in Nat \ {0}
      <4> HIDE DEF g
      <4> QED
        BY <2>3, <2>4, <2>5
    <3> QED
      BY <3>1
  <2> HIDE DEF g
  <2>7. g[0] = 1
    BY <2>1, <2>3
  <2>8. ASSUME NEW i \in 1 .. m
        PROVE  g[i] = 1 + g[cfg[i].parent]
    <3>1. cfg[i].parent \in 0 .. i - 1
      BY <1>1
    <3>2. cfg[i].parent \in 0 .. m - 1
      BY <3>1
    <3>3. g[cfg[i].parent] = f[cfg[i].parent]
      BY <2>3, <3>2
    <3>4. CASE i = m
      BY <2>4, <3>3, <3>4
    <3>5. CASE i \in 1 .. m - 1
      <4>1. i \in 0 .. m - 1
        BY <3>5
      <4> QED
        BY <2>1, <2>3, <3>3, <3>5, <4>1
    <3> QED
      BY <3>4, <3>5
  <2>9. Obeys(g, m) /\ m \in 0 .. N
    BY <1>2, <2>6, <2>7, <2>8
  <2> HIDE DEF Obeys
  <2> QED
    BY <2>9
<1>5. PICK f : Obeys(f, N)
  <2> HIDE DEF S, N
  <2>1. \A m \in 1 .. N : m - 1 \in S => m \in S
    BY <1>4
  <2>2. 0 .. N \subseteq S
    BY <1>2, <1>3, <2>1, CountingFromZero
  <2>3. N \in S
    <3>1. N \in 0 .. N
      BY <1>2
    <3> QED
      BY <2>2, <3>1
  <2> QED
    BY <2>3 DEF S
<1> DEFINE Eq(g) == [i \in DOMAIN cfg |-> IF i = 0 THEN 1 ELSE 1 + g[cfg[i].parent]]
           depth == CHOOSE g : g = Eq(g)
<1>6. f = Eq(f)
  <2>1. \A i \in 0 .. N : i = 0 \/ i \in 1 .. N
    OBVIOUS
  <2>2. \A i \in 0 .. N : f[i] = IF i = 0 THEN 1 ELSE 1 + f[cfg[i].parent]
    BY <1>5, <2>1
  <2>3. f = [i \in 0 .. N |-> f[i]]
    BY <1>5
  <2> QED
    BY <1>1, <2>2, <2>3
<1>7. depth = Eq(depth)
  BY <1>6
<1>8. depthOf(cfg) = CHOOSE d \in {depth[i] : i \in DOMAIN cfg} :
                        \A i \in DOMAIN cfg : depth[i] <= d
  BY DEF depthOf
<1> HIDE DEF depth
<1>9. /\ depth[0] = 1 /\ DOMAIN depth = 0 .. N
      /\ depth = [i \in 0 .. N |-> depth[i]]
      /\ \A i \in 1 .. N : depth[i] = 1 + depth[cfg[i].parent]
  <2>1. 0 \in DOMAIN cfg /\ \A i \in 1 .. N : i \in DOMAIN cfg /\ i # 0
    BY <1>1
  <2> QED
    BY <1>1, <1>7, <2>1
<1>10. \A m \in 0 .. N : depth[m] \in Nat \ {0} /\ depth[m] = f[m]
  <2> DEFINE Same == {m \in 0 .. N : \A i \in 0 .. m : depth[i] = f[i]}
  <2>1. 0 \in Same
    BY <1>2, <1>5, <1>9
  <2>2. ASSUME NEW m \in 1 .. N, m - 1 \in Same
        PROVE  m \in Same
    <3>1. \A i \in 0 .. m - 1 : depth[i] = f[i]
      BY <2>2
    <3>2. cfg[m].parent \in 0 .. m - 1
      BY <1>1
    <3>3. depth[m] = f[m]
      BY <1>5, <1>9, <3>1, <3>2
    <3>4. \A i \in 0 .. m : i = m \/ i \in 0 .. m - 1
      OBVIOUS
    <3>5. m \in 0 .. N
      OBVIOUS
    <3> QED
      BY <3>1, <3>3, <3>4, <3>5
  <2> HIDE DEF Same, N
  <2>3. \A m \in 1 .. N : m - 1 \in Same => m \in Same
    BY <2>2
  <2>4. 0 .. N \subseteq Same
    BY <1>2, <2>1, <2>3, CountingFromZero
  <2>5. \A m \in 0 .. N : m \in 0 .. m
    OBVIOUS
  <2>6. \A m \in 0 .. N : depth[m] = f[m]
    BY <2>4, <2>5 DEF Same
  <2> QED
    BY <1>5, <2>6
<1>11. depthOf(cfg) \in Nat /\ \A i \in 0 .. K - 1 : depth[i] <= depthOf(cfg)
  <2> DEFINE D == {depth[i] : i \in DOMAIN cfg}
  <2>1. D \in SUBSET Nat /\ D # {} /\ \A d \in D : d <= 1 + N
    <3> DEFINE T == {m \in 0 .. N : \A i \in 0 .. m : depth[i] <= 1 + m}
    <3>1. 0 \in T
      BY <1>2, <1>9
    <3>2. ASSUME NEW m \in 1 .. N, m - 1 \in T
          PROVE  m \in T
      <4>1. \A i \in 0 .. m - 1 : depth[i] <= 1 + (m - 1) /\ depth[i] \in Nat
        <5>1. \A i \in 0 .. m - 1 : i \in 0 .. N
          <6> HIDE DEF N
          <6> QED
            BY <1>2
        <5>2. \A i \in 0 .. m - 1 : depth[i] <= 1 + (m - 1)
          BY <3>2
        <5> QED
          BY <1>10, <5>1, <5>2
      <4>2. PICK p \in 0 .. m - 1 : p = cfg[m].parent
        BY <1>1
      <4>3. depth[m] <= 1 + m
        <5>1. depth[m] = 1 + depth[p] /\ depth[p] <= 1 + (m - 1) /\ depth[p] \in Nat
          BY <1>9, <4>1, <4>2
        <5> QED
          BY <5>1
      <4>4. \A i \in 0 .. m : i = m \/ i \in 0 .. m - 1
        OBVIOUS
      <4>5. \A i \in 0 .. m : depth[i] <= 1 + m
        BY <4>1, <4>3, <4>4
      <4>6. m \in 0 .. N
        OBVIOUS
      <4> QED
        BY <4>5, <4>6
    <3> HIDE DEF T, N
    <3>3. \A m \in 1 .. N : m - 1 \in T => m \in T
      BY <3>2
    <3>4. 0 .. N \subseteq T
      BY <1>2, <3>1, <3>3, CountingFromZero
    <3>5. N \in T
      <4>1. N \in 0 .. N
        BY <1>2
      <4> QED
        BY <3>4, <4>1
    <3>6. \A i \in 0 .. N : depth[i] <= 1 + N
      BY <3>5 DEF T
    <3>7. DOMAIN cfg = 0 .. N /\ 0 \in 0 .. N
      BY <1>1, <1>2 DEF N
    <3> QED
      BY <1>10, <3>6, <3>7
  <2>2. 1 + N \in Int /\ D \in SUBSET Int
    BY <1>2, <2>1
  <2> HIDE DEF D, N
  <2>3. Max(D) \in D /\ \A d \in D : d <= Max(D)
    BY <2>1, <2>2, GreatestIs
  <2>4. depthOf(cfg) \in D /\ \A i \in DOMAIN cfg : depth[i] <= depthOf(cfg)
    BY <1>8, <2>3 DEF D
  <2> QED
    BY <1>1, <2>1, <2>4
<1>12. depth \in [0 .. K - 1 -> Nat \ {0}]
  BY <1>9, <1>10
<1>13. DepthsOf(depth, cfg, K)
  BY <1>9, <1>11, <1>12 DEF DepthsOf
<1> QED
  BY <1>13

(* The classes a stage finds and keeps, and the detections it runs on. *)
Keeps(cfg, sees, i) ==
    {d.cls : d \in {x \in sees[i] : /\ x.score >= cfg[i].conf
                                    /\ cfg[i].classFilter # {} => x.cls \in cfg[i].classFilter
                                    /\ i = 0 => ~x.empty}}
Takes(cfg, i, p) == cfg[i].inputClasses = {} \/ p[Len(p)][2] \in cfg[i].inputClasses

Extended(cfg, sees, i, parents) ==
    {Append(p, <<i, c>>) : p \in {q \in parents : Takes(cfg, i, q)}, c \in Keeps(cfg, sees, i)}

Found(sees, K) == \A i \in 0 .. K - 1 : sees[i] \in SUBSET [cls : Int, score : Int, empty : BOOLEAN]

(* The paths of the reference: each ends in a detection of its stage. *)
PathsTo(paths, cfg, sees, K) ==
    /\ paths[0] = {<<<<0, c>>>> : c \in Keeps(cfg, sees, 0)}
    /\ \A i \in 1 .. K - 1 :
          paths[i] = Extended(cfg, sees, i, paths[cfg[i].parent])
    /\ PathsReference(cfg, sees) = UNION {paths[i] : i \in 0 .. K - 1}

EndsIn(p, cfg, sees, i) ==
    /\ p \in Seq(Nat \X Int) /\ Len(p) \in Nat \ {0}
    /\ p[Len(p)][1] = i /\ p[Len(p)][2] \in Keeps(cfg, sees, i)

(* The same for the paths of the reference. *)
LEMMA PathsBuilt ==
  ASSUME NEW cfg, NEW K, Tree(cfg, K), NEW sees
  PROVE  \E paths : PathsTo(paths, cfg, sees, K)
<1>1. /\ K \in Nat \ {0} /\ DOMAIN cfg = 0 .. K - 1
      /\ \A i \in 1 .. K - 1 : cfg[i].parent \in 0 .. i - 1
  BY DEF Tree
<1> DEFINE N == K - 1
           first == {<<<<0, c>>>> : c \in Keeps(cfg, sees, 0)}
           More(i, of) == Extended(cfg, sees, i, of)
           Obeys(f, m) == /\ DOMAIN f = 0 .. m /\ f[0] = first
                          /\ f = [i \in 0 .. m |-> f[i]]
                          /\ \A i \in 1 .. m : f[i] = More(i, f[cfg[i].parent])
           S == {m \in 0 .. N : \E f : Obeys(f, m)}
<1>2. N \in Nat
  BY <1>1
<1> HIDE DEF More, first
<1>3. 0 \in S
  <2> DEFINE f == [i \in 0 .. 0 |-> first]
  <2>1. /\ DOMAIN f = 0 .. 0 /\ f[0] = first /\ f = [i \in 0 .. 0 |-> f[i]]
        /\ \A i \in 1 .. 0 : FALSE
    OBVIOUS
  <2>2. Obeys(f, 0)
    <3> HIDE DEF f
    <3> QED
      BY <2>1
  <2> HIDE DEF Obeys, f
  <2> QED
    BY <1>2, <2>2
<1>4. ASSUME NEW m \in 1 .. N, m - 1 \in S
      PROVE  m \in S
  <2>1. PICK f : Obeys(f, m - 1)
    BY <1>4
  <2> DEFINE g == [i \in 0 .. m |-> IF i = m THEN More(m, f[cfg[m].parent]) ELSE f[i]]
  <2>2. \A i \in 0 .. m - 1 : i \in 0 .. m /\ i # m /\ g[i] = f[i]
    OBVIOUS
  <2>3. m \in 0 .. m /\ g[m] = More(m, f[cfg[m].parent])
    OBVIOUS
  <2>4. DOMAIN g = 0 .. m /\ g = [i \in 0 .. m |-> g[i]]
    OBVIOUS
  <2> HIDE DEF g
  <2>5. g[0] = first
    BY <2>1, <2>2
  <2>6. ASSUME NEW i \in 1 .. m
        PROVE  g[i] = More(i, g[cfg[i].parent])
    <3>1. cfg[i].parent \in 0 .. i - 1
      BY <1>1
    <3>2. cfg[i].parent \in 0 .. m - 1
      BY <3>1
    <3>3. g[cfg[i].parent] = f[cfg[i].parent]
      BY <2>2, <3>2
    <3>4. CASE i = m
      BY <2>3, <3>3, <3>4
    <3>5. CASE i \in 1 .. m - 1
      <4>1. i \in 0 .. m - 1
        BY <3>5
      <4> QED
        BY <2>1, <2>2, <3>3, <3>5, <4>1
    <3> QED
      BY <3>4, <3>5
  <2>7. Obeys(g, m) /\ m \in 0 .. N
    <3>1. \A i \in 1 .. m : g[i] = More(i, g[cfg[i].parent])
      BY <2>6
    <3>2. Obeys(g, m)
      BY <2>4, <2>5, <3>1
    <3>3. m \in 0 .. N
      OBVIOUS
    <3> QED
      BY <3>2, <3>3
  <2> HIDE DEF Obeys
  <2> QED
    BY <2>7
<1>5. PICK f : Obeys(f, N)
  <2> HIDE DEF S, N
  <2>1. \A m \in 1 .. N : m - 1 \in S => m \in S
    BY <1>4
  <2>2. 0 .. N \subseteq S
    BY <1>2, <1>3, <2>1, CountingFromZero
  <2>3. N \in S
    <3>1. N \in 0 .. N
      BY <1>2
    <3> QED
      BY <2>2, <3>1
  <2> QED
    BY <2>3 DEF S
<1> DEFINE Eq(g) == [i \in DOMAIN cfg |-> IF i = 0 THEN first ELSE More(i, g[cfg[i].parent])]
           paths == CHOOSE g : g = Eq(g)
<1>6. f = Eq(f)
  <2>1. \A i \in 0 .. N : i = 0 \/ i \in 1 .. N
    OBVIOUS
  <2>2. \A i \in 0 .. N : f[i] = IF i = 0 THEN first ELSE More(i, f[cfg[i].parent])
    BY <1>5, <2>1
  <2> QED
    BY <1>1, <1>5, <2>2
<1>7. paths = Eq(paths)
  BY <1>6
<1>8. PathsReference(cfg, sees) = UNION {paths[i] : i \in DOMAIN cfg}
  BY DEF PathsReference, Extended, Keeps, Takes, More, first
<1> HIDE DEF paths
<1>9. 0 \in DOMAIN cfg /\ \A i \in 1 .. K - 1 : i \in DOMAIN cfg /\ i # 0
  BY <1>1
<1>10. /\ paths[0] = first
       /\ \A i \in 1 .. K - 1 : paths[i] = More(i, paths[cfg[i].parent])
  BY <1>7, <1>9
<1>11. PathsTo(paths, cfg, sees, K)
  <2>1. paths[0] = {<<<<0, c>>>> : c \in Keeps(cfg, sees, 0)}
    BY <1>10 DEF first
  <2>2. \A i \in 1 .. K - 1 : paths[i] = Extended(cfg, sees, i, paths[cfg[i].parent])
    BY <1>10 DEF More
  <2>3. PathsReference(cfg, sees) = UNION {paths[i] : i \in 0 .. K - 1}
    BY <1>1, <1>8
  <2> QED
    BY <2>1, <2>2, <2>3 DEF PathsTo
<1> QED
  BY <1>11

(* Every path to a stage ends in a detection the stage keeps. *)
LEMMA PathsEnd ==
  ASSUME NEW cfg, NEW K, Tree(cfg, K), NEW sees, Found(sees, K),
         NEW paths, PathsTo(paths, cfg, sees, K)
  PROVE  \A i \in 0 .. K - 1 : \A p \in paths[i] : EndsIn(p, cfg, sees, i)
<1>1. /\ K \in Nat \ {0} /\ DOMAIN cfg = 0 .. K - 1
      /\ \A i \in 1 .. K - 1 : cfg[i].parent \in 0 .. i - 1
  BY DEF Tree
<1> DEFINE N == K - 1
           S == {m \in 0 .. N : \A i \in 0 .. m : \A p \in paths[i] : EndsIn(p, cfg, sees, i)}
<1>2. N \in Nat
  BY <1>1
<1>3. ASSUME NEW i \in 0 .. N, NEW c \in Keeps(cfg, sees, i)
      PROVE  <<i, c>> \in Nat \X Int
  <2>1. sees[i] \in SUBSET [cls : Int, score : Int, empty : BOOLEAN]
    BY DEF Found
  <2>2. c \in Int
    BY <2>1 DEF Keeps
  <2> QED
    BY <1>2, <2>2
<1>4. 0 \in S
  <2>1. ASSUME NEW p \in paths[0] PROVE EndsIn(p, cfg, sees, 0)
    <3>1. PICK c \in Keeps(cfg, sees, 0) : p = <<<<0, c>>>>
      BY DEF PathsTo
    <3>2. PICK x : x = <<0, c>>
      OBVIOUS
    <3>3. x \in Nat \X Int
      <4>1. 0 \in 0 .. N
        BY <1>2
      <4> QED
        BY <1>3, <3>2, <4>1
    <3>4. p = <<x>> /\ x[1] = 0 /\ x[2] = c
      BY <3>1, <3>2
    <3>5. p \in Seq(Nat \X Int) /\ Len(p) = 1 /\ p[1] = x
      BY <3>3, <3>4
    <3> QED
      BY <3>4, <3>5 DEF EndsIn
  <2>2. 0 \in 0 .. N /\ \A i \in 0 .. 0 : i = 0
    BY <1>2
  <2> QED
    BY <2>1, <2>2
<1>5. ASSUME NEW m \in 1 .. N, m - 1 \in S
      PROVE  m \in S
  <2>1. PICK s \in 0 .. m - 1 : s = cfg[m].parent
    BY <1>1
  <2>2. ASSUME NEW p \in paths[m] PROVE EndsIn(p, cfg, sees, m)
    <3>1. PICK q \in paths[s], c \in Keeps(cfg, sees, m) : p = Append(q, <<m, c>>)
      <4>1. m \in 1 .. K - 1
        OBVIOUS
      <4>2. p \in Extended(cfg, sees, m, paths[s])
        BY <2>1, <2>2, <4>1 DEF PathsTo
      <4> QED
        BY <4>2 DEF Extended
    <3>2. q \in Seq(Nat \X Int) /\ Len(q) \in Nat
      BY <1>5, <2>1 DEF EndsIn
    <3>3. PICK x : x = <<m, c>>
      OBVIOUS
    <3>4. x \in Nat \X Int /\ x[1] = m /\ x[2] = c
      <4>1. m \in 0 .. N
        OBVIOUS
      <4> QED
        BY <1>3, <3>3, <4>1
    <3>5. p \in Seq(Nat \X Int) /\ Len(p) = Len(q) + 1 /\ p[Len(q) + 1] = x
      BY <3>1, <3>2, <3>3, <3>4
    <3> QED
      BY <3>2, <3>4, <3>5 DEF EndsIn
  <2>3. m \in 0 .. N /\ \A i \in 0 .. m : i = m \/ i \in 0 .. m - 1
    OBVIOUS
  <2> QED
    BY <1>5, <2>2, <2>3
<1> HIDE DEF S, N
<1>6. \A m \in 1 .. N : m - 1 \in S => m \in S
  BY <1>5
<1>7. 0 .. N \subseteq S
  BY <1>2, <1>4, <1>6, CountingFromZero
<1>8. N \in S
  <2>1. N \in 0 .. N
    BY <1>2
  <2> QED
    BY <1>7, <2>1
<1> QED
  BY <1>8 DEF S, N

(* What is below the detections of every stage, level by level from the        *)
(* deepest up.                                                              *)
Classes(sees) == {d.cls : d \in UNION {sees[i] : i \in DOMAIN sees}}
Wanting(cfg, s, c) ==
    {i \in Children(cfg, s) : cfg[i].inputClasses = {} \/ c \in cfg[i].inputClasses}
RowBelow(cfg, sees, d, lower) ==
    [s \in DOMAIN cfg |-> [c \in Classes(sees) |->
        IF d > kMaxDepth THEN {}
        ELSE UNION {runStage(cfg, sees, i, lower) : i \in Wanting(cfg, s, c)}]]

(* The recursive function inside runChildren exists: a level of the code is    *)
(* made from the one below it.                                              *)
LEMMA RowsBuilt ==
  ASSUME NEW cfg, NEW sees
  PROVE  \A d \in 1 .. kMaxDepth + 1 :
           runChildren(cfg, sees)[d] = RowBelow(cfg, sees, d, runChildren(cfg, sees)[d + 1])
<1> DEFINE N == kMaxDepth
           Row(d, lower) == RowBelow(cfg, sees, d, lower)
           Obeys(f, m) == f = [d \in N + 1 - m .. N + 1 |-> Row(d, f[d + 1])]
           S == {m \in 0 .. N : \E f : Obeys(f, m)}
<1>1. N \in Nat \ {0}
  BY StageTreeAssumption
<1>2. \A lower, v : Row(N + 1, lower) = Row(N + 1, v)
  <2>1. N + 1 > kMaxDepth
    BY <1>1
  <2> QED
    BY <2>1 DEF RowBelow
<1> HIDE DEF N, Row
<1>3. 0 \in S
  <2> DEFINE f == [d \in N + 1 - 0 .. N + 1 |-> Row(N + 1, {})]
  <2>1. \A d \in N + 1 - 0 .. N + 1 : d = N + 1
    BY <1>1
  <2>2. Obeys(f, 0)
    <3>1. \A d \in N + 1 - 0 .. N + 1 : Row(N + 1, {}) = Row(d, f[d + 1])
      BY <1>2, <2>1
    <3> HIDE DEF f
    <3> QED
      BY <3>1 DEF f
  <2>3. 0 \in 0 .. N
    BY <1>1
  <2> HIDE DEF Obeys, f
  <2> QED
    BY <2>2, <2>3
<1>4. ASSUME NEW m \in 1 .. N, m - 1 \in S
      PROVE  m \in S
  <2>1. PICK f : Obeys(f, m - 1)
    BY <1>4
  <2> DEFINE k == N + 1 - m
             g == [d \in k .. N + 1 |-> IF d = k THEN Row(k, f[k + 1]) ELSE f[d]]
  <2>2. /\ k \in Nat \ {0} /\ N + 1 - (m - 1) = k + 1 /\ k \in k .. N + 1 /\ k < N + 1
        /\ k + 1 \in k + 1 .. N + 1 /\ k + 1 \in k .. N + 1 /\ m \in 0 .. N
    BY <1>1
  <2> HIDE DEF k
  <2>3. f = [d \in k + 1 .. N + 1 |-> Row(d, f[d + 1])]
    BY <2>1, <2>2
  <2>4. \A d \in k + 1 .. N + 1 : d \in k .. N + 1 /\ d # k /\ g[d] = f[d]
    BY <2>2
  <2>5. g[k] = Row(k, f[k + 1])
    BY <2>2
  <2>6. \A d \in k .. N + 1 : g[d] = Row(d, g[d + 1])
    <3> TAKE d \in k .. N + 1
    <3>1. CASE d = k
      BY <2>2, <2>4, <2>5, <3>1
    <3>2. CASE d \in k + 1 .. N
      <4>1. d \in k + 1 .. N + 1 /\ d + 1 \in k + 1 .. N + 1
        BY <1>1, <2>2, <3>2
      <4>2. g[d] = f[d] /\ g[d + 1] = f[d + 1]
        BY <2>4, <4>1
      <4> HIDE DEF g
      <4> QED
        BY <2>3, <4>1, <4>2
    <3>3. CASE d = N + 1
      <4>1. d \in k + 1 .. N + 1
        BY <1>1, <2>2, <3>3
      <4>2. g[d] = Row(d, f[d + 1])
        <5>1. g[d] = f[d]
          BY <2>4, <4>1
        <5> HIDE DEF g
        <5> QED
          BY <2>3, <4>1, <5>1
      <4> HIDE DEF g
      <4> QED
        BY <1>2, <3>3, <4>2
    <3>4. d = k \/ d \in k + 1 .. N \/ d = N + 1
      BY <1>1, <2>2
    <3> QED
      BY <3>1, <3>2, <3>3, <3>4
  <2>7. g = [d \in k .. N + 1 |-> g[d]]
    OBVIOUS
  <2> HIDE DEF g
  <2>8. g = [d \in k .. N + 1 |-> Row(d, g[d + 1])]
    BY <2>6, <2>7
  <2>9. Obeys(g, m)
    BY <2>8 DEF k
  <2> HIDE DEF Obeys
  <2> QED
    BY <2>2, <2>9
<1>5. PICK f : Obeys(f, N)
  <2> HIDE DEF S
  <2>1. \A m \in 1 .. N : m - 1 \in S => m \in S
    BY <1>4
  <2>2. N \in Nat /\ N \in 0 .. N
    BY <1>1
  <2>3. 0 .. N \subseteq S
    BY <1>3, <2>1, <2>2, CountingFromZero
  <2>4. N \in S
    BY <2>2, <2>3
  <2> QED
    BY <2>4 DEF S
<1> DEFINE Eq(f1) == [depth \in 1 .. N + 1 |-> Row(depth, f1[depth + 1])]
           below == CHOOSE f1 : f1 = Eq(f1)
<1>6. f = Eq(f)
  <2>1. N + 1 - N = 1
    BY <1>1
  <2> QED
    BY <1>5, <2>1
<1>7. below = Eq(below)
  BY <1>6
<1>8. runChildren(cfg, sees) = below
  BY DEF runChildren, Row, RowBelow, Classes, Wanting, N
<1> HIDE DEF below
<1>9. \A d \in 1 .. N + 1 : below[d] = Row(d, below[d + 1])
  BY <1>7
<1> QED
  BY <1>8, <1>9 DEF N, Row

(* The levels of a tree of detections. *)
Under(path, nodes) == {<<Append(path, <<x.stage, x.cls>>), x.children>> : x \in nodes}
Lower(level) == UNION {Under(x[1], x[2]) : x \in level}

LevelsOf(level, tree) ==
    /\ level[0] = Under(<<>>, tree)
    /\ \A n \in 1 .. kMaxDepth : level[n] = Lower(level[n - 1])
    /\ PathsOf(tree) = {x[1] : x \in UNION {level[n] : n \in 0 .. kMaxDepth}}

(* The same for the levels of a tree. *)
LEMMA LevelsBuilt ==
  ASSUME NEW tree
  PROVE  \E level : LevelsOf(level, tree)
<1> DEFINE N == kMaxDepth
           first == Under(<<>>, tree)
           Obeys(f, m) == f = [n \in 0 .. m |-> IF n = 0 THEN first ELSE Lower(f[n - 1])]
           S == {m \in 0 .. N : \E f : Obeys(f, m)}
<1>1. N \in Nat \ {0}
  BY StageTreeAssumption
<1> HIDE DEF N, first
<1>3. 0 \in S
  <2> DEFINE f == [n \in 0 .. 0 |-> first]
  <2>1. \A n \in 0 .. 0 : n = 0
    OBVIOUS
  <2>2. Obeys(f, 0)
    BY <2>1
  <2>3. 0 \in 0 .. N
    BY <1>1
  <2> HIDE DEF Obeys, f
  <2> QED
    BY <2>2, <2>3
<1>4. ASSUME NEW m \in 1 .. N, m - 1 \in S
      PROVE  m \in S
  <2>1. PICK f : Obeys(f, m - 1)
    BY <1>4
  <2> DEFINE g == [n \in 0 .. m |-> IF n = m THEN Lower(f[m - 1]) ELSE f[n]]
  <2>2. \A n \in 0 .. m - 1 : n \in 0 .. m /\ n # m /\ g[n] = f[n]
    OBVIOUS
  <2>3. m \in 0 .. m /\ m # 0 /\ g[m] = Lower(f[m - 1]) /\ m - 1 \in 0 .. m - 1 /\ m \in 0 .. N
    OBVIOUS
  <2>4. g = [n \in 0 .. m |-> g[n]]
    OBVIOUS
  <2> HIDE DEF g
  <2>5. ASSUME NEW n \in 0 .. m
        PROVE  g[n] = IF n = 0 THEN first ELSE Lower(g[n - 1])
    <3>1. CASE n = m
      BY <2>2, <2>3, <3>1
    <3>2. CASE n \in 0 .. m - 1
      <4>1. f[n] = IF n = 0 THEN first ELSE Lower(f[n - 1])
        BY <2>1, <3>2
      <4>2. n # 0 => n - 1 \in 0 .. m - 1
        BY <3>2
      <4> QED
        BY <2>2, <3>2, <4>1, <4>2
    <3> QED
      BY <3>1, <3>2
  <2>6. g = [n \in 0 .. m |-> IF n = 0 THEN first ELSE Lower(g[n - 1])]
    BY <2>4, <2>5
  <2>7. Obeys(g, m)
    BY <2>6
  <2> HIDE DEF Obeys
  <2> QED
    BY <2>3, <2>7
<1>5. PICK f : Obeys(f, N)
  <2> HIDE DEF S
  <2>1. \A m \in 1 .. N : m - 1 \in S => m \in S
    BY <1>4
  <2>2. N \in Nat /\ N \in 0 .. N
    BY <1>1
  <2>3. 0 .. N \subseteq S
    BY <1>3, <2>1, <2>2, CountingFromZero
  <2>4. N \in S
    BY <2>2, <2>3
  <2> QED
    BY <2>4 DEF S
<1> DEFINE Eq(g) == [n \in 0 .. N |-> IF n = 0 THEN first ELSE Lower(g[n - 1])]
           level == CHOOSE g : g = Eq(g)
<1>6. f = Eq(f)
  BY <1>5
<1>7. level = Eq(level)
  BY <1>6
<1>8. PathsOf(tree) = {x[1] : x \in UNION {level[n] : n \in 0 .. N}}
  BY DEF PathsOf, first, Under, Lower, N
<1> HIDE DEF level
<1>9. 0 \in 0 .. N /\ \A n \in 1 .. N : n \in 0 .. N /\ n # 0
  BY <1>1
<1>10. level[0] = first /\ \A n \in 1 .. N : level[n] = Lower(level[n - 1])
  BY <1>7, <1>9
<1>11. LevelsOf(level, tree)
  BY <1>8, <1>10 DEF LevelsOf, first, N
<1> QED
  BY <1>11

Node(i, c, lower) == [stage |-> i, cls |-> c, children |-> lower[i][c]]

(* What a stage adds are the classes it keeps, and below a detection stand the *)
(* stages that want its class.                                              *)
LEMMA StageAdds ==
  ASSUME NEW cfg, NEW sees, NEW lower, NEW i, i # 0
  PROVE  runStage(cfg, sees, i, lower) = {Node(i, c, lower) : c \in Keeps(cfg, sees, i)}
<1> DEFINE D == {x \in sees[i] : Kept(cfg[i], x)}
<1>1. runStage(cfg, sees, i, lower) = {Node(i, d.cls, lower) : d \in D}
  BY DEF runStage, Node
<1>2. Keeps(cfg, sees, i) = {d.cls : d \in D}
  BY DEF Keeps, Kept
<1> HIDE DEF D
<1> QED
  BY <1>1, <1>2

(* The same for stage 0, which works on the frame. *)
LEMMA RootAdds ==
  ASSUME NEW cfg, NEW sees
  PROVE  run(cfg, sees) = {Node(0, c, runChildren(cfg, sees)[1]) : c \in Keeps(cfg, sees, 0)}
<1> DEFINE D == {x \in sees[0] : Kept(cfg[0], x) /\ ~x.empty}
<1>1. run(cfg, sees) = {Node(0, d.cls, runChildren(cfg, sees)[1]) : d \in D}
  BY DEF run, Node
<1>2. Keeps(cfg, sees, 0) = {d.cls : d \in D}
  BY DEF Keeps, Kept
<1> HIDE DEF D
<1> QED
  BY <1>1, <1>2

(* Level n of the tree of a job holds the paths to the stages at depth n + 1,   *)
(* so the whole tree holds all the paths.                                   *)
LEMMA PathsAreTaken ==
  ASSUME NEW cfg, NEW K, Tree(cfg, K), NEW sees, Found(sees, K),
         \A i \in 0 .. K - 1 : i \in DOMAIN sees, depthOf(cfg) <= kMaxDepth
  PROVE  PathsOf(run(cfg, sees)) = PathsReference(cfg, sees)
<1> DEFINE M == kMaxDepth
           B == runChildren(cfg, sees)
           Keep(i) == Keeps(cfg, sees, i)
<1>1. /\ K \in Nat \ {0} /\ DOMAIN cfg = 0 .. K - 1 /\ M \in Nat \ {0}
      /\ \A i \in 1 .. K - 1 : cfg[i].parent \in 0 .. i - 1
  BY StageTreeAssumption DEF Tree
<1>2. PICK depth : DepthsOf(depth, cfg, K)
  BY DepthsBuilt
<1>3. PICK paths : PathsTo(paths, cfg, sees, K)
  BY PathsBuilt
<1>4. PICK level : LevelsOf(level, run(cfg, sees))
  BY LevelsBuilt
<1>5. ASSUME NEW i \in 0 .. K - 1, NEW p \in paths[i]
      PROVE  /\ p \in Seq(Nat \X Int) /\ Len(p) \in Nat \ {0}
             /\ p[Len(p)][1] = i /\ p[Len(p)][2] \in Keep(i) /\ Keep(i) \subseteq Classes(sees)
  <2>1. EndsIn(p, cfg, sees, i)
    BY <1>3, PathsEnd
  <2>2. Keep(i) \subseteq Classes(sees)
    BY DEF Keeps, Classes
  <2> QED
    BY <2>1, <2>2 DEF EndsIn
<1>6. /\ depth[0] = 1 /\ \A i \in 1 .. K - 1 : depth[i] = 1 + depth[cfg[i].parent]
      /\ \A i \in 0 .. K - 1 : depth[i] \in Nat \ {0} /\ depth[i] <= M
  BY <1>1, <1>2 DEF DepthsOf
<1> DEFINE At(n) == {i \in 0 .. K - 1 : depth[i] = n + 1}
           Entry(p, n) == <<p, B[n + 1][p[Len(p)][1]][p[Len(p)][2]]>>
           Right(n) == level[n] = {Entry(p, n) : p \in UNION {paths[i] : i \in At(n)}}
<1> HIDE DEF B
<1>7. Right(0)
  <2>1. At(0) = {0}
    <3>1. 0 \in 0 .. K - 1 /\ \A i \in 0 .. K - 1 : i = 0 \/ i \in 1 .. K - 1
      BY <1>1
    <3>2. \A i \in 1 .. K - 1 : cfg[i].parent \in 0 .. K - 1
      BY <1>1
    <3>3. ASSUME NEW i \in 1 .. K - 1 PROVE depth[i] # 1
      <4>1. PICK s \in 0 .. K - 1 : s = cfg[i].parent
        BY <3>2
      <4>2. depth[i] = 1 + depth[s] /\ depth[s] \in Nat \ {0}
        BY <1>6, <4>1
      <4> QED
        BY <4>2
    <3> QED
      BY <1>6, <3>1, <3>3
  <2>2. level[0] = Under(<<>>, {Node(0, c, B[1]) : c \in Keep(0)})
    BY <1>4, RootAdds DEF LevelsOf, B
  <2>3. level[0] = {<<<<<<0, c>>>>, B[1][0][c]>> : c \in Keep(0)}
    <3>1. ASSUME NEW c
          PROVE  /\ Node(0, c, B[1]).stage = 0 /\ Node(0, c, B[1]).cls = c
                 /\ Node(0, c, B[1]).children = B[1][0][c]
      BY DEF Node
    <3>2. \A x : Append(<<>>, x) = <<x>>
      OBVIOUS
    <3>3. level[0] = {<<Append(<<>>, <<y.stage, y.cls>>), y.children>> :
                        y \in {Node(0, c, B[1]) : c \in Keep(0)}}
      BY <2>2 DEF Under
    <3>4. level[0] = {<<Append(<<>>, <<0, c>>), B[1][0][c]>> : c \in Keep(0)}
      <4> HIDE DEF Keep
      <4> QED
        BY <3>1, <3>3
    <3> HIDE DEF Keep
    <3> QED
      BY <3>2, <3>4
  <2>4. paths[0] = {<<<<0, c>>>> : c \in Keep(0)}
    BY <1>3 DEF PathsTo
  <2>5. ASSUME NEW c
        PROVE  Entry(<<<<0, c>>>>, 0) = <<<<<<0, c>>>>, B[1][0][c]>>
    <3>1. PICK p : p = <<<<0, c>>>>
      OBVIOUS
    <3>2. Len(p) = 1 /\ p[1] = <<0, c>> /\ 0 + 1 = 1
      BY <3>1
    <3>3. p[Len(p)][1] = 0 /\ p[Len(p)][2] = c
      BY <3>2
    <3>4. Entry(p, 0) = <<p, B[1][0][c]>>
      BY <3>2, <3>3
    <3> HIDE DEF Entry
    <3> QED
      BY <3>1, <3>4
  <2> HIDE DEF Entry, At, Keep
  <2> QED
    BY <2>1, <2>3, <2>4, <2>5
<1>8. ASSUME NEW n \in 1 .. M, Right(n - 1)
      PROVE  Right(n)
  <2>0. n \in Nat \ {0} /\ (n - 1) + 1 = n /\ n \in 1 .. M + 1 /\ ~(n > kMaxDepth)
    BY <1>1
  <2>1. level[n] = Lower(level[n - 1])
    BY <1>4 DEF LevelsOf
  <2>2. ASSUME NEW s \in 0 .. K - 1, NEW c \in Classes(sees)
        PROVE  B[n][s][c] = UNION {runStage(cfg, sees, i, B[n + 1]) : i \in Wanting(cfg, s, c)}
    <3>1. B[n] = RowBelow(cfg, sees, n, B[n + 1])
      BY <2>0, RowsBuilt DEF B
    <3> QED
      BY <1>1, <2>0, <3>1 DEF RowBelow
  <2>3. ASSUME NEW s \in 0 .. K - 1, NEW c, NEW i
        PROVE  i \in Wanting(cfg, s, c) <=>
                 /\ i \in 1 .. K - 1 /\ cfg[i].parent = s
                 /\ cfg[i].inputClasses = {} \/ c \in cfg[i].inputClasses
    <3>1. i \in DOMAIN cfg \ {0} <=> i \in 1 .. K - 1
      BY <1>1
    <3> QED
      BY <3>1 DEF Wanting, Children
  <2>4. ASSUME NEW i \in 1 .. K - 1
        PROVE  /\ i \in 0 .. K - 1 /\ i # 0 /\ cfg[i].parent \in 0 .. K - 1
               /\ i \in At(n) <=> cfg[i].parent \in At(n - 1)
    <3>1. PICK s : s = cfg[i].parent
      OBVIOUS
    <3>2. s \in 0 .. K - 1 /\ i \in 0 .. K - 1 /\ i # 0
      BY <1>1, <3>1
    <3>3. depth[i] = 1 + depth[s] /\ depth[s] \in Nat
      BY <1>6, <3>1, <3>2
    <3>4. depth[i] = n + 1 <=> depth[s] = (n - 1) + 1
      BY <2>0, <3>3
    <3> QED
      BY <3>1, <3>2, <3>4
  <2>5. ASSUME NEW i \in At(n)
        PROVE  i \in 1 .. K - 1
    <3>1. i \in 0 .. K - 1 /\ depth[i] = n + 1
      OBVIOUS
    <3>2. i # 0
      BY <1>6, <2>0, <3>1
    <3> QED
      BY <1>1, <3>1, <3>2
  <2> HIDE DEF At
  <2>6. ASSUME NEW q \in Seq(Nat \X Int), NEW i \in 1 .. K - 1, NEW c \in Keep(i)
        PROVE  Entry(Append(q, <<i, c>>), n) = <<Append(q, <<i, c>>), B[n + 1][i][c]>>
    <3>1. PICK x : x = <<i, c>>
      OBVIOUS
    <3>2. x \in Nat \X Int /\ x[1] = i /\ x[2] = c
      <4>1. i \in 0 .. K - 1 /\ sees[i] \in SUBSET [cls : Int, score : Int, empty : BOOLEAN]
        BY <2>4 DEF Found
      <4>2. c \in Int
        BY <4>1 DEF Keeps
      <4> QED
        BY <3>1, <4>2
    <3>3. PICK p : p = Append(q, x)
      OBVIOUS
    <3>4. Len(p) = Len(q) + 1 /\ p[Len(q) + 1] = x
      BY <3>2, <3>3
    <3>5. p[Len(p)][1] = i /\ p[Len(p)][2] = c
      BY <3>2, <3>4
    <3>6. Entry(p, n) = <<p, B[n + 1][i][c]>>
      BY <3>5
    <3> HIDE DEF Entry
    <3> QED
      BY <3>1, <3>3, <3>6
  <2>7. ASSUME NEW s \in 0 .. K - 1, NEW q \in paths[s], s \in At(n - 1),
               NEW i \in Wanting(cfg, s, q[Len(q)][2]), NEW c \in Keep(i)
        PROVE  /\ i \in At(n) /\ Append(q, <<i, c>>) \in paths[i]
               /\ Entry(Append(q, <<i, c>>), n) = <<Append(q, <<i, c>>), B[n + 1][i][c]>>
    <3>1. i \in 1 .. K - 1 /\ cfg[i].parent = s /\ Takes(cfg, i, q)
      BY <2>3 DEF Takes
    <3>2. i \in At(n)
      BY <2>4, <2>7, <3>1
    <3>3. paths[i] = Extended(cfg, sees, i, paths[s])
      BY <1>3, <3>1 DEF PathsTo
    <3>4. Append(q, <<i, c>>) \in paths[i]
      BY <3>1, <3>3 DEF Extended
    <3>5. q \in Seq(Nat \X Int)
      BY <1>5
    <3> HIDE DEF Entry, Keep
    <3> QED
      BY <2>6, <3>1, <3>2, <3>4, <3>5
  <2>8. ASSUME NEW i \in At(n), NEW p \in paths[i]
        PROVE  \E s \in 0 .. K - 1 : \E q \in paths[s] : \E c \in Keep(i) :
                  /\ s \in At(n - 1) /\ i \in Wanting(cfg, s, q[Len(q)][2])
                  /\ p = Append(q, <<i, c>>)
    <3>1. i \in 1 .. K - 1
      BY <2>5
    <3>2. PICK s : s = cfg[i].parent
      OBVIOUS
    <3>3. s \in 0 .. K - 1 /\ s \in At(n - 1)
      BY <2>4, <3>1, <3>2
    <3>4. p \in Extended(cfg, sees, i, paths[s])
      BY <1>3, <3>1, <3>2 DEF PathsTo
    <3>5. PICK q \in paths[s], c \in Keep(i) : Takes(cfg, i, q) /\ p = Append(q, <<i, c>>)
      BY <3>4 DEF Extended
    <3>6. i \in Wanting(cfg, s, q[Len(q)][2])
      BY <2>3, <3>1, <3>2, <3>3, <3>5 DEF Takes
    <3> HIDE DEF Keep
    <3> QED
      BY <3>3, <3>5, <3>6
  <2>9. ASSUME NEW s \in 0 .. K - 1, NEW q \in paths[s], NEW x
        PROVE  x \in Under(q, B[n][s][q[Len(q)][2]]) <=>
                 \E i \in Wanting(cfg, s, q[Len(q)][2]) : \E c \in Keep(i) :
                    x = <<Append(q, <<i, c>>), B[n + 1][i][c]>>
    <3>1. PICK d : d = q[Len(q)][2]
      OBVIOUS
    <3>2. d \in Classes(sees)
      BY <1>5, <3>1
    <3>3. B[n][s][d] = UNION {runStage(cfg, sees, i, B[n + 1]) : i \in Wanting(cfg, s, d)}
      BY <2>2, <3>2
    <3>4. \A i \in Wanting(cfg, s, d) :
             runStage(cfg, sees, i, B[n + 1]) = {Node(i, c, B[n + 1]) : c \in Keep(i)}
      BY <2>3, <2>4, StageAdds
    <3>5. ASSUME NEW y
          PROVE  y \in B[n][s][d] <=>
                   \E i \in Wanting(cfg, s, d) : \E c \in Keep(i) : y = Node(i, c, B[n + 1])
      <4> HIDE DEF Keep
      <4> QED
        BY <3>3, <3>4
    <3>6. ASSUME NEW i, NEW c
          PROVE  /\ Node(i, c, B[n + 1]).stage = i /\ Node(i, c, B[n + 1]).cls = c
                 /\ Node(i, c, B[n + 1]).children = B[n + 1][i][c]
      BY DEF Node
    <3>7. x \in Under(q, B[n][s][d]) <=>
            \E y \in B[n][s][d] : x = <<Append(q, <<y.stage, y.cls>>), y.children>>
      BY DEF Under
    <3> HIDE DEF Keep
    <3> QED
      BY <3>1, <3>5, <3>6, <3>7
  <2> DEFINE Here == {Entry(p, n) : p \in UNION {paths[i] : i \in At(n)}}
             There == {Entry(p, n - 1) : p \in UNION {paths[i] : i \in At(n - 1)}}
  <2>10. ASSUME NEW s \in 0 .. K - 1, NEW q \in paths[s]
         PROVE  Entry(q, n - 1) = <<q, B[n][s][q[Len(q)][2]]>>
    BY <1>5, <2>0
  <2>11. ASSUME NEW x
         PROVE  x \in Lower(There) <=>
                  \E s \in At(n - 1) : \E q \in paths[s] : x \in Under(q, B[n][s][q[Len(q)][2]])
    <3>1. \A s \in At(n - 1) : s \in 0 .. K - 1
      BY DEF At
    <3> HIDE DEF Entry
    <3> QED
      BY <2>10, <3>1 DEF Lower
  <2> HIDE DEF Entry, Keep
  <2>12. \A s \in At(n - 1) : s \in 0 .. K - 1
    BY DEF At
  <2>13. ASSUME NEW x \in Lower(There)
         PROVE  x \in Here
    <3>0. PICK s \in At(n - 1) : \E q \in paths[s] : x \in Under(q, B[n][s][q[Len(q)][2]])
      BY <2>11
    <3>1. PICK q \in paths[s] : x \in Under(q, B[n][s][q[Len(q)][2]])
      BY <3>0
    <3>20. PICK i \in Wanting(cfg, s, q[Len(q)][2]) : \E c \in Keep(i) :
             x = <<Append(q, <<i, c>>), B[n + 1][i][c]>>
      BY <2>9, <2>12, <3>1
    <3>2. PICK c \in Keep(i) : x = <<Append(q, <<i, c>>), B[n + 1][i][c]>>
      BY <3>20
    <3>3. /\ i \in At(n) /\ Append(q, <<i, c>>) \in paths[i]
          /\ Entry(Append(q, <<i, c>>), n) = x
      BY <2>7, <2>12, <3>1, <3>2
    <3> QED
      BY <3>3
  <2>14. ASSUME NEW x \in Here
         PROVE  x \in Lower(There)
    <3>0. PICK i \in At(n) : \E p \in paths[i] : x = Entry(p, n)
      OBVIOUS
    <3>1. PICK p \in paths[i] : x = Entry(p, n)
      BY <3>0
    <3>20. PICK s \in 0 .. K - 1 : \E q \in paths[s] : \E c \in Keep(i) :
             /\ s \in At(n - 1) /\ i \in Wanting(cfg, s, q[Len(q)][2])
             /\ p = Append(q, <<i, c>>)
      BY <2>8
    <3>2. PICK q \in paths[s], c \in Keep(i) :
             /\ s \in At(n - 1) /\ i \in Wanting(cfg, s, q[Len(q)][2])
             /\ p = Append(q, <<i, c>>)
      BY <3>20
    <3>3. x = <<Append(q, <<i, c>>), B[n + 1][i][c]>>
      BY <2>7, <3>1, <3>2
    <3>4. x \in Under(q, B[n][s][q[Len(q)][2]])
      BY <2>9, <3>2, <3>3
    <3> QED
      BY <2>11, <3>2, <3>4
  <2> QED
    BY <1>8, <2>1, <2>13, <2>14
<1>9. \A n \in 0 .. M : Right(n)
  <2> DEFINE S == {n \in 0 .. M : Right(n)}
  <2> HIDE DEF Right, M
  <2>1. 0 \in S
    BY <1>1, <1>7
  <2>2. \A n \in 1 .. M : n - 1 \in S => n \in S
    <3>1. \A n \in 1 .. M : n \in 0 .. M
      OBVIOUS
    <3> QED
      BY <1>8, <3>1
  <2> HIDE DEF S
  <2>3. 0 .. M \subseteq S
    BY <1>1, <2>1, <2>2, CountingFromZero
  <2> QED
    BY <2>3 DEF S
<1>10. PathsOf(run(cfg, sees)) = {x[1] : x \in UNION {level[n] : n \in 0 .. M}}
  BY <1>4 DEF LevelsOf
<1>11. PathsReference(cfg, sees) = UNION {paths[i] : i \in 0 .. K - 1}
  BY <1>3 DEF PathsTo
<1>12. \A p, n : Entry(p, n)[1] = p
  OBVIOUS
<1> HIDE DEF Entry, M
<1>13. \A i \in 0 .. K - 1 : \E n \in 0 .. M : i \in At(n)
  <2> TAKE i \in 0 .. K - 1
  <2>1. PICK d : d = depth[i]
    OBVIOUS
  <2>2. d - 1 \in 0 .. M /\ d = (d - 1) + 1
    BY <1>1, <1>6, <2>1
  <2> QED
    BY <2>1, <2>2
<1>14. \A n : \A i \in At(n) : i \in 0 .. K - 1
  OBVIOUS
<1> HIDE DEF At
<1> QED
  BY <1>9, <1>10, <1>11, <1>12, <1>13, <1>14

(* What is loaded is a tree with no more stages than the request, which may    *)
(* hold empty places.                                                       *)
LEMMA LoadedIsTree ==
  ASSUME NEW N \in Nat, NEW stages, DOMAIN stages = 0 .. N - 1, init(toCfg(stages))
  PROVE  \E K \in 1 .. N : Tree(toCfg(stages), K)
<1> DEFINE given == {i \in DOMAIN stages : ~stages[i].null}
           cfg == toCfg(stages)
           K == Cardinality(given)
<1>1. IsFiniteSet(0 .. N - 1) /\ Cardinality(0 .. N - 1) = N
  BY FS_Interval
<1>2. K \in Nat /\ K <= N
  <2>1. PICK S \in SUBSET (0 .. N - 1) : S = given
    OBVIOUS
  <2>2. IsFiniteSet(S) /\ Cardinality(S) <= Cardinality(0 .. N - 1)
    BY <1>1, FS_Subset
  <2>3. Cardinality(S) \in Nat
    BY <2>2, FS_CardinalityType
  <2>4. K = Cardinality(S)
    BY <2>1
  <2> HIDE DEF K
  <2> QED
    BY <1>1, <2>2, <2>3, <2>4
<1>3. DOMAIN cfg = 0 .. K - 1
  BY DEF toCfg
<1> HIDE DEF given, cfg, K
<1>4. Size(cfg) \in 1 .. kMaxStages /\ \A i \in DOMAIN cfg : StageLoads(cfg, i)
  BY DEF init, cfg
<1>5. Cardinality(0 .. K - 1) = K
  BY <1>2, FS_Interval
<1>6. K \in Nat \ {0}
  <2>1. K \in 1 .. kMaxStages /\ kMaxStages \in Nat
    BY <1>3, <1>4, <1>5, StageTreeAssumption DEF Size
  <2> QED
    BY <2>1
<1>7. \A i \in 1 .. K - 1 : cfg[i].parent \in 0 .. i - 1
  <2> TAKE i \in 1 .. K - 1
  <2>1. i \in 0 .. K - 1 /\ i > 0
    BY <1>6
  <2> QED
    BY <1>3, <1>4, <2>1 DEF StageLoads
<1>8. Tree(cfg, K) /\ K \in 1 .. N
  BY <1>2, <1>3, <1>6, <1>7 DEF Tree
<1> QED
  BY <1>8 DEF cfg

(* For every list of stages, within the limits and beyond, and all that the    *)
(* models may find: what the API accepts the runner loads unless it is too  *)
(* deep, what the runner loads and is well formed the API accepts, and a    *)
(* loaded job takes every detection down every path of stages that want it  *)
(* (validateStages, toCfg, init, runStage, runChildren).                    *)
THEOREM SavedJobsAlwaysRun == Spec => []SavedJobsRun
<1>1. Init => SavedJobsRun
  <2>1. Init => ~result.done
    BY DEF Init, NotYet
  <2> QED
    BY <2>1 DEF SavedJobsRun, Returned
<1>2. ASSUME Legal(input), SavedJobsRun, [Next]_vars
      PROVE  SavedJobsRun'
  <2>1. CASE UNCHANGED vars
    BY <1>2, <2>1 DEF SavedJobsRun, Returned, vars
  <2>2. CASE Next /\ ~Returned("stages")'
    BY <2>2 DEF SavedJobsRun
  <2>3. CASE Next /\ Returned("stages")'
    <3>1. input' = input /\ StartJob
      BY <2>3, OneCall
    <3>2. PICK stages, sees : stages = input.of.stages /\ sees = input.of.sees
      OBVIOUS
    <3> DEFINE cfg == toCfg(stages)
               tree == IF init(cfg) THEN run(cfg, sees) ELSE {}
               N == Size(stages)
               plain == /\ \A i \in DOMAIN stages :
                              ~stages[i].null /\ stages[i].conf \in 0 .. MaxConf
                        /\ stages[0].transform # "unknown"
    <3>3. result'.of = [saved |-> validateStages(stages), loads |-> init(cfg), tree |-> tree]
      BY <3>1, <3>2 DEF StartJob, Returns
    <3>4. input.task = "stages"
      BY <3>1 DEF StartJob, Called
    <3>5. /\ IsFiniteSet(DOMAIN stages) /\ stages \in [0 .. N - 1 -> Stages]
          /\ sees \in [0 .. N - 1 -> SUBSET [cls : Int, score : Int, empty : BOOLEAN]]
      BY <1>2, <3>2, <3>4 DEF Legal, Requested
    <3>6. N \in Nat
      BY <3>5, FS_CardinalityType DEF Size
    <3> HIDE DEF N
    <3>7. validateStages(stages) /\ depthOf(cfg) <= kMaxDepth => init(cfg)
      <4> SUFFICES ASSUME validateStages(stages), depthOf(cfg) <= kMaxDepth
                   PROVE  init(cfg)
        OBVIOUS
      <4>1. \A i \in 0 .. N - 1 : ~stages[i].null
        BY <3>5 DEF validateStages
      <4> QED
        BY <3>5, <3>6, <4>1, ApiAgreesWithRunner
    <3>8. init(cfg) /\ plain => validateStages(stages)
      <4> SUFFICES ASSUME init(cfg), plain
                   PROVE  validateStages(stages)
        OBVIOUS
      <4>1. \A i \in 0 .. N - 1 : ~stages[i].null /\ stages[i].conf \in 0 .. MaxConf
        BY <3>5
      <4>2. stages[0].transform # "unknown"
        OBVIOUS
      <4> HIDE DEF plain
      <4> QED
        BY <3>5, <3>6, <4>1, <4>2, ApiAgreesWithRunner
    <3>9. init(cfg) => PathsOf(tree) = PathsReference(cfg, sees)
      <4> SUFFICES ASSUME init(cfg)
                   PROVE  PathsOf(run(cfg, sees)) = PathsReference(cfg, sees)
        OBVIOUS
      <4>1. PICK K \in 1 .. N : Tree(cfg, K)
        BY <3>5, <3>6, LoadedIsTree
      <4>2. \A i \in 0 .. K - 1 : i \in 0 .. N - 1
        BY <3>6
      <4>3. Found(sees, K) /\ \A i \in 0 .. K - 1 : i \in DOMAIN sees
        BY <3>5, <4>2 DEF Found
      <4>4. depthOf(cfg) <= kMaxDepth
        BY DEF init
      <4> HIDE DEF cfg
      <4> QED
        BY <4>1, <4>3, <4>4, PathsAreTaken
    <3>10. /\ result'.of.saved = validateStages(stages) /\ result'.of.loads = init(cfg)
           /\ result'.of.tree = tree
      BY <3>3
    <3> HIDE DEF tree
    <3> QED
      BY <3>1, <3>2, <3>7, <3>8, <3>9, <3>10 DEF SavedJobsRun
  <2> QED
    BY <1>2, <2>1, <2>2, <2>3
<1> QED
  BY <1>1, <1>2, CallsStayLegal, PTL DEF Spec
=============================================================================
