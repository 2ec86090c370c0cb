---------------------------- MODULE MotionZones ----------------------------
(***************************************************************************)
(* From two pictures to a motion event: the detector (MotionDetector.hpp)   *)
(* compares sample points and reports the cells of a grid that moved; the   *)
(* recording session (CameraRecordingSession::evaluateZones) counts them in *)
(* the zones the user drew (RecordingTypes.hpp) and reports the cells of    *)
(* the zones that reach their level.  Both sides clamp the grid of the      *)
(* camera's row on their own and have to agree on it.                       *)
(*                                                                          *)
(* A point or cell is <<row, column>>, from 0.  A zone as the user sent it   *)
(* is [r1, c1, r2, c2, level], -1 where a number is missing.                *)
(***************************************************************************)
EXTENDS Integers, Sequences, FiniteSets

CONSTANTS kSample,             \* 320: sample points on each side of a picture
          kCellPercent,        \* 15: per cent of the points of a cell that moved
          GridMin, GridMax     \* 8 and 32: the bounds of the grid

ASSUME MotionZonesAssumption ==
    /\ GridMin \in Nat \ {0} /\ GridMax \in Nat /\ GridMin <= GridMax
    /\ kSample \in Nat /\ GridMax <= kSample
    /\ kCellPercent \in 1 .. 100

Within(i, lo, hi) == IF i < lo THEN lo ELSE IF i > hi THEN hi ELSE i

clampMotionGrid(value) == Within(value, GridMin, GridMax)

Samples == (0 .. kSample - 1) \X (0 .. kSample - 1)

(* The cell of a sample point. *)
CellOf(p, gridX, gridY) == <<(gridY * p[1]) \div kSample, (gridX * p[2]) \div kSample>>

(* MotionDetector::submit: the cells of which enough points changed; none    *)
(* for the first picture.                                                   *)
MovedCells(havePrev, changed, gridX, gridY) ==
    LET points(cell) == {p \in Samples : CellOf(p, gridX, gridY) = cell}
        moved(cell) ==
            /\ points(cell) # {}
            /\ Cardinality(points(cell) \cap changed) * 100
                 >= Cardinality(points(cell)) * kCellPercent
    IN  IF ~havePrev THEN {}
        ELSE {cell \in (0 .. gridY - 1) \X (0 .. gridX - 1) : moved(cell)}

-----------------------------------------------------------------------------
cellCount(z) == (z.r2 - z.r1 + 1) * (z.c2 - z.c1 + 1)

RoundedDown(z) == Within((Within(z.level, 1, 10) * cellCount(z)) \div 10, 1, cellCount(z))

(* How many cells of the zone have to move: level * 10 per cent, rounded up. *)
needCells(z) ==
    LET lv == Within(z.level, 1, 10)
        need == (lv * cellCount(z) + 9) \div 10
    IN  Within(need, 1, cellCount(z))

contains(z, cell) == cell[1] \in z.r1 .. z.r2 /\ cell[2] \in z.c1 .. z.c2

Least(a, b) == IF a <= b THEN a ELSE b
Greatest(a, b) == IF a >= b THEN a ELSE b

(* A zone drawn from right to left is turned round, one that leaves the grid *)
(* is moved to its edge.                                                    *)
Normalized(z, gridX, gridY) ==
    [r1 |-> Within(Least(z.r1, z.r2), 0, gridY - 1),
     c1 |-> Within(Least(z.c1, z.c2), 0, gridX - 1),
     r2 |-> Within(Greatest(z.r1, z.r2), 0, gridY - 1),
     c2 |-> Within(Greatest(z.c1, z.c2), 0, gridX - 1),
     level |-> Within(z.level, 1, 10)]

(* Zones of which a number is missing or negative are left out. *)
parseMotionZones(zones, gridX, gridY) ==
    LET readable(z) == z.r1 >= 0 /\ z.c1 >= 0 /\ z.r2 >= 0 /\ z.c2 >= 0
    IN  {Normalized(z, gridX, gridY) : z \in {x \in zones : readable(x)}}

motionZonesOf(camera) ==
    parseMotionZones(camera.zones, clampMotionGrid(camera.gridX), clampMotionGrid(camera.gridY))

(* What is recorded as having moved: the cells of every zone that reaches    *)
(* its level.  An event starts or goes on when there is one.                *)
evaluateZones(zones, moved) ==
    UNION {{cell \in moved : contains(z, cell)} : z \in
        {x \in zones : Cardinality({cell \in moved : contains(x, cell)}) >= needCells(x)}}

(* What is drawn for the user: the cells in some zone and those in none. *)
InsideCells(zones, moved) == {cell \in moved : \E z \in zones : contains(z, cell)}
OutsideCells(zones, moved) == moved \ InsideCells(zones, moved)
=============================================================================
