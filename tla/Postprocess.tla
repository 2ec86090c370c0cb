---------------------------- MODULE Postprocess ----------------------------
(***************************************************************************)
(* src/src/ai/detect_ai/postprocess.cc: from the output tensors of a        *)
(* YOLOv8 network to the objects of a frame.  The tensors come either as    *)
(* floats or still quantized (int8), and the quantized ones in one of two   *)
(* layouts; the quantized decoding skips most anchors by a comparison of    *)
(* integers and has to select what the float decoding selects.              *)
(*                                                                          *)
(* Quantized numbers are Lo..Hi (int8 in the code).  A real number is       *)
(* measured in quarters of one quantization step of the scores, so a        *)
(* dequantized score is 4 * (q - zp) and a threshold is an integer that may *)
(* lie between two steps; the tensor with the sums of the scores has a zero *)
(* point and a scale of its own (sumZp, sumStep).  The regression of a box (compute_dfl) and the scaling to the     *)
(* letterbox are arithmetic on the values and are left out.                 *)
(***************************************************************************)
EXTENDS Integers, Sequences, FiniteSets, SequencesExt, FiniteSetsExt

CONSTANTS Half,                \* 128: quantized numbers are -Half .. Half - 1
          OBJ_NUMB_MAX_SIZE    \* 128: the most objects of one frame

ASSUME PostprocessAssumption ==
    /\ Half \in Nat \ {0}
    /\ OBJ_NUMB_MAX_SIZE \in Nat \ {0}

Lo == -Half
Hi == Half - 1

NoClass == -1

Clamped(i, lo, hi) == IF i < lo THEN lo ELSE IF i > hi THEN hi ELSE i

(* A conversion of a float to an integer type drops the fraction. *)
Truncated(x, scale) == IF x >= 0 THEN x \div scale ELSE -((-x) \div scale)

deqnt_affine_to_f32(q, zp, scale) == scale * (q - zp)
qnt_f32_to_affine(f, zp, scale) ==
    Truncated(Clamped(f + scale * zp, scale * Lo, scale * Hi), scale)

-----------------------------------------------------------------------------
(* The two layouts of a quantized tensor of `len' anchors.  c2 = 0 stands   *)
(* for NCHW, c2 > 0 for NC1HWC2: blocks of c2 channels, the last padded.    *)

tensor_at_i8(t, c, off, len, c2) ==
    IF c2 # 0 THEN t[((c \div c2) * len + off) * c2 + (c % c2)] ELSE t[c * len + off]

(* What the accelerator stores for the scores q[anchor][class]; the padding *)
(* holds anything, here the largest number.                                 *)
Stored(q, classes, len, c2) ==
    IF c2 = 0
    THEN [i \in 0 .. classes * len - 1 |-> q[i % len][i \div len]]
    ELSE LET blocks == (classes + c2 - 1) \div c2
         IN  [i \in 0 .. blocks * len * c2 - 1 |->
                LET c == (i \div (len * c2)) * c2 + (i % c2)
                IN  IF c < classes THEN q[(i \div c2) % len][c] ELSE Hi]

(* The highest score of every anchor, never below the number it is filled   *)
(* with: by class planes, or by the lanes of a block that hold a class.     *)
max_score_per_anchor_i8(t, classes, len, fill) ==
    [o \in 0 .. len - 1 |-> Max({fill} \cup {t[c * len + o] : c \in 0 .. classes - 1})]

max_score_per_anchor_nc1hwc2(t, classes, len, c2, fill) ==
    LET lanes(b) == Min({c2, classes - b * c2})
        block(b, o) == {t[(b * len + o) * c2 + k] : k \in 0 .. lanes(b) - 1}
        blocks == 0 .. (classes - 1) \div c2
    IN  [o \in 0 .. len - 1 |-> Max({fill} \cup UNION {block(b, o) : b \in blocks})]

(* The class with the highest score above the floor, the first among equals. *)
BestClass(scores, floor) ==
    LET above == {c \in DOMAIN scores : scores[c] > floor}
        top == Max({scores[c] : c \in above})
    IN  IF above = {} THEN NoClass ELSE Min({c \in above : scores[c] = top})

(* The float decoding: the reference of the other two. *)
ClassOfScores(b, o) ==
    BestClass([c \in 0 .. b.classes - 1 |-> deqnt_affine_to_f32(b.q[o][c], b.zp, 4)],
              Max({b.threshold, 0}))

decode_detect_branch(b) == [o \in DOMAIN b.q |-> ClassOfScores(b, o)]

(* The threshold in the units of the tensor of sums. *)
InScoreUnits(b) == qnt_f32_to_affine(b.threshold, b.zp, 4)
sum_thres_i8(b) == qnt_f32_to_affine(b.threshold, b.sumZp, b.sumStep)

(* The quantized decoding of detection: the gate on the sum of the scores   *)
(* (if the network has that output), the gate on the highest score, then    *)
(* the class, all of them on integers.                                      *)
decode_detect_branch_i8(b) ==
    LET len == Cardinality(DOMAIN b.q)
        t == Stored(b.q, b.classes, len, b.c2)
        thres == qnt_f32_to_affine(b.threshold, b.zp, 4)
        best == IF b.c2 # 0 THEN max_score_per_anchor_nc1hwc2(t, b.classes, len, b.c2, thres)
                ELSE max_score_per_anchor_i8(t, b.classes, len, thres)
        scores(o) == [c \in 0 .. b.classes - 1 |-> tensor_at_i8(t, c, o, len, b.c2)]
        dropped(o) == (b.hasSum /\ b.sum[o] < sum_thres_i8(b)) \/ best[o] <= thres
    IN  [o \in DOMAIN b.q |-> IF dropped(o) THEN NoClass ELSE BestClass(scores(o), thres)]

GatedAtThreshold(b) ==
    LET gate == qnt_f32_to_affine(b.threshold, b.zp, 4)
    IN  [o \in DOMAIN b.q |->
            IF \A c \in 0 .. b.classes - 1 : b.q[o][c] <= gate THEN NoClass ELSE ClassOfScores(b, o)]

(* The quantized decoding of segmentation (always NCHW): a gate one step    *)
(* below the threshold, and the class chosen on dequantized scores.         *)
decode_seg_branch_i8(b) ==
    LET len == Cardinality(DOMAIN b.q)
        gate == Clamped((b.threshold + 4 * b.zp) \div 4 - 1, Lo, Hi)
        best == max_score_per_anchor_i8(Stored(b.q, b.classes, len, 0), b.classes, len, gate)
    IN  [o \in DOMAIN b.q |-> IF best[o] <= gate THEN NoClass ELSE ClassOfScores(b, o)]

-----------------------------------------------------------------------------
(* Pose: one class, a threshold on the logit.  Boxes of all branches share   *)
(* one tensor of keypoints, in which an anchor is found by its index over    *)
(* all branches, the skipped ones included.                                 *)
PoseKept(b) ==
    LET q == b.logit + 4 * b.zp
        lo == IF q > 4 * Lo THEN q \div 4 - 1 ELSE Lo
    IN  {o \in DOMAIN b.q : /\ q <= 4 * Hi
                           /\ b.q[o] >= lo
                           /\ deqnt_affine_to_f32(b.q[o], b.zp, 4) >= b.logit}

PoseBaseOfKept(acc, b) ==
    [base |-> acc.base + Cardinality(PoseKept(b)),
     anchors |-> acc.anchors \cup {acc.base + o - 1 : o \in PoseKept(b)}]

PoseBranch(acc, b) ==
    [base |-> acc.base + Len(b.q),
     anchors |-> acc.anchors \cup {acc.base + o - 1 : o \in PoseKept(b)}]

post_process_pose(branches) ==
    FoldLeft(PoseBranch, [base |-> 0, anchors |-> {}], branches).anchors

-----------------------------------------------------------------------------
(* Sorting and suppression of overlapping boxes of one class.  A detection  *)
(* is [x, y, w, h, score, cls]; the indices that remain are in `order'.     *)

inter_length(a, aw, b, bw) == Max({0, Min({a + aw, b + bw}) - Max({a, b}) + 1})

(* calculate_iou_xywh(..) > num/den *)
Overlaps(a, b, num, den) ==
    LET inter == inter_length(a.x, a.w, b.x, b.w) * inter_length(a.y, a.h, b.y, b.h)
        uni == (a.w + 1) * (a.h + 1) + (b.w + 1) * (b.h + 1) - inter
    IN  uni > 0 /\ inter * den > num * uni

(* quick_sort_indice_inverse: highest score first, equal scores in any order. *)
SortedOrders(dets) ==
    {o \in [DOMAIN dets -> DOMAIN dets] :
        /\ \A i, j \in DOMAIN dets : o[i] = o[j] => i = j
        /\ \A i, j \in DOMAIN dets : i < j => dets[o[i]].score >= dets[o[j]].score}

SuppressedSuppress(dets, order, cls, num, den) ==
    [j \in DOMAIN order |->
        IF \E i \in 1 .. j - 1 : /\ order[i] # -1 /\ order[j] # -1
                                 /\ dets[order[i]].cls = cls /\ dets[order[j]].cls = cls
                                 /\ Overlaps(dets[order[i]], dets[order[j]], num, den)
        THEN -1 ELSE order[j]]

nms_by_class(dets, order, cls, num, den) ==
    LET other(o, i) == o[i] = -1 \/ dets[o[i]].cls # cls
        step(o, i) == IF other(o, i) THEN o
                      ELSE [j \in DOMAIN o |->
                              IF j > i /\ ~other(o, j) /\ Overlaps(dets[o[i]], dets[o[j]], num, den)
                              THEN -1 ELSE o[j]]
    IN  FoldLeft(step, order, [i \in DOMAIN order |-> i])

sort_and_nms(dets, order, num, den) ==
    LET classes == SetToSeq({dets[i].cls : i \in DOMAIN dets})
    IN  FoldLeft(LAMBDA o, c : nms_by_class(dets, o, c, num, den), order, classes)

(* The objects of the frame: the first of the order that are left. *)
fill_box_result(order) ==
    LET left == {i \in DOMAIN order : order[i] >= 0}
        first == {i \in left : Cardinality({j \in left : j < i}) < OBJ_NUMB_MAX_SIZE}
    IN  {order[i] : i \in first}

-----------------------------------------------------------------------------
(* The mask of a segmentation.  A box is [x1, y1, x2, y2, cls, inside] where *)
(* inside holds the cells <<py, px>> of the prototype whose product with the *)
(* coefficients of the box is not negative.                                 *)

ProtoCell(x, model, proto) == Clamped((x * proto) \div model, 0, proto - 1)

RunEndOneLate(x, x2, model, proto) ==
    Max({e \in x + 1 .. x2 :
            \A p \in x .. e - 2 : ProtoCell(p, model, proto) = ProtoCell(x, model, proto)})

(* The end of the run of pixels from x that fall in one cell. *)
RunEnd(x, x2, model, proto) ==
    Max({e \in x + 1 .. x2 :
            \A p \in x .. e - 1 : ProtoCell(p, model, proto) = ProtoCell(x, model, proto)})

(* The starts of the runs from x1 to x2. *)
RunStarts(x1, x2, model, proto) ==
    {x \in x1 .. x2 - 1 :
        x = x1 \/ ProtoCell(x - 1, model, proto) # ProtoCell(x, model, proto)}

(* One box over what is painted already: run by run, pixels that are free. *)
PaintBox(mask, b, g) ==
    LET x1 == Clamped(b.x1, 0, g.model_w - 1)
        y1 == Clamped(b.y1, 0, g.model_h - 1)
        x2 == Min({Clamped(b.x2, 0, g.model_w), g.mask_w})
        y2 == Min({Clamped(b.y2, 0, g.model_h), g.mask_h})
        blocks == {bl \in RunStarts(y1, y2, g.model_h, g.proto_h)
                            \X RunStarts(x1, x2, g.model_w, g.proto_w) :
                      <<ProtoCell(bl[1], g.model_h, g.proto_h),
                        ProtoCell(bl[2], g.model_w, g.proto_w)>> \in b.inside}
        painted == UNION {(bl[1] .. RunEnd(bl[1], y2, g.model_h, g.proto_h) - 1)
                          \X (bl[2] .. RunEnd(bl[2], x2, g.model_w, g.proto_w) - 1) : bl \in blocks}
    IN  [p \in DOMAIN mask |-> IF p \in painted /\ mask[p] = 0 THEN b.cls + 1 ELSE mask[p]]

paint_seg_mask(boxes, g) ==
    FoldLeft(LAMBDA m, b : PaintBox(m, b, g),
             [p \in (0 .. g.mask_h - 1) \X (0 .. g.mask_w - 1) |-> 0], boxes)
=============================================================================
