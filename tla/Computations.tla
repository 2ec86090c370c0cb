---------------------------- MODULE Computations ----------------------------
(***************************************************************************)
(* The computations of the program that keep no state between calls, each   *)
(* with the definition its result is compared with.  A behaviour is one     *)
(* call: the input it starts with (an instance says which there are), the   *)
(* operation the code runs on it, one action each, and the result, which    *)
(* the properties compare with the input.                                   *)
(***************************************************************************)
EXTENDS Postprocess, StageTree, MotionZones, RecordedTime, Negotiation

VARIABLES input,    \* [task, of]: the operation and its arguments
          result    \* what it returned, NotYet before

vars == <<input, result>>

NotYet == [done |-> FALSE]

Called(task) == result = NotYet /\ input.task = task
Returns(r) == result' = [done |-> TRUE, of |-> r] /\ UNCHANGED input
Returned(task) == result.done /\ input.task = task

-----------------------------------------------------------------------------
(* The quantized scores of the anchors of a branch, and what the network stored *)
(* for their sums: any number, in units of its own.                         *)
Decodable(b) ==
    LET anchors == 0 .. Cardinality(DOMAIN b.q) - 1
        classes == 0 .. b.classes - 1
    IN  /\ IsFiniteSet(DOMAIN b.q)
        /\ b.classes \in Nat \ {0} /\ b.zp \in Lo .. Hi /\ b.threshold \in Nat /\ b.c2 \in Nat
        /\ b.q \in [anchors -> [classes -> Lo .. Hi]]
        /\ b.sum \in [anchors -> Lo .. Hi] /\ b.sumZp \in Lo .. Hi /\ b.sumStep \in Nat \ {0}

(* The logits of the anchors of the branches of a pose network; the boxes of a *)
(* frame before suppression, and those a mask is painted for, each with the *)
(* cells of the prototype its coefficients light up.  A box begins inside   *)
(* the picture: its anchor lies there.                                      *)
PoseBranches == [q : Seq(Lo .. Hi), zp : Lo .. Hi, logit : Int]
Candidates == [dets : Seq([x : Int, y : Int, w : Int, h : Int, score : Int, cls : Nat]),
               num : Nat, den : Nat]
SegBoxes == [x1 : Int, y1 : Int, x2 : Int, y2 : Int, cls : Nat, inside : SUBSET (Nat \X Nat)]
Sizes == [model_w : Nat \ {0}, model_h : Nat \ {0}, proto_w : Nat \ {0}, proto_h : Nat \ {0},
          mask_w : Nat, mask_h : Nat]
Paintable(of) ==
    /\ of.boxes \in Seq(SegBoxes) /\ of.geometry \in Sizes
    /\ \A i \in DOMAIN of.boxes :
          of.boxes[i].x1 < of.geometry.model_w /\ of.boxes[i].y1 < of.geometry.model_h

(* The stages of a request and what the models would find.                  *)
Stages == [null : BOOLEAN, parent : Int, model : STRING, transform : STRING, conf : Int,
           inputClasses : SUBSET Int, classFilter : SUBSET Int]
Requested(of) ==
    LET places == 0 .. Size(of.stages) - 1
    IN  /\ IsFiniteSet(DOMAIN of.stages) /\ of.stages \in [places -> Stages]
        /\ of.sees \in [places -> SUBSET [cls : Int, score : Int, empty : BOOLEAN]]

(* The zones of a camera as its row holds them, and the points in which two  *)
(* pictures differ.                                                         *)
DrawnZones == [r1 : Int, c1 : Int, r2 : Int, c2 : Int, level : Int]
Pictures == [zones : SUBSET DrawnZones, gridX : Int, gridY : Int,
             havePrev : BOOLEAN, changed : SUBSET Samples]

(* The segments of a playlist. *)
Segments == [start : Nat \cup {-1}, duration : Int, session : Nat]

(* The segments of a camera and the time of a thumbnail: a complete segment   *)
(* is longer than nothing and ends after those that began before it, and no *)
(* time falls into one whose own time cannot be read.                       *)
Rows == [start : Nat \cup {-1}, duration : Int, session : Nat, complete : BOOLEAN]
Recorded(rows, at) ==
    /\ at \in Nat /\ rows \in Seq(Rows)
    /\ \A i \in DOMAIN rows : rows[i].complete =>
          /\ rows[i].duration > 0
          /\ rows[i].start = -1 => ~RowContains(rows[i], at)
          /\ \A j \in DOMAIN rows : rows[j].complete /\ rows[j].start < rows[i].start =>
                rows[j].start + rows[j].duration <= rows[i].start + rows[i].duration

Headers == [kind : {"whole", "suffix", "open", "closed"}, from : Nat, to : Nat]

(* The address of a browser, when it is told, is one that can be connected to. *)
Codecs == {"H264", "H265"}
Offers == [lines : Seq([codec : Codecs, pt : Nat, mode1 : BOOLEAN]), camera : Codecs,
           sharedAlive : BOOLEAN, rewrite : BOOLEAN,
           candidates : Seq(STRING), hint : STRING \ {"local"}]

(* The calls there are. *)
Legal(call) ==
    /\ call.task \in {"decode", "pose", "suppress", "mask", "stages",
                      "zones", "playlist", "thumbnail", "range", "offer"}
    /\ call.task = "decode" => Decodable(call.of)
    /\ call.task = "pose" => call.of \in Seq(PoseBranches)
    /\ call.task = "suppress" => call.of \in Candidates
    /\ call.task = "mask" => Paintable(call.of)
    /\ call.task = "stages" => Requested(call.of)
    /\ call.task = "zones" => call.of \in Pictures
    /\ call.task = "playlist" => call.of \in Seq(Segments)
    /\ call.task = "thumbnail" => Recorded(call.of.rows, call.of.at)
    /\ call.task = "range" => call.of.header \in Headers /\ call.of.size \in Nat
    /\ call.task = "offer" => call.of \in Offers

Init == result = NotYet /\ Legal(input)

-----------------------------------------------------------------------------
(* The same tensor of scores through the three decodings (post_process and   *)
(* post_process_seg choose one per branch).                                 *)
Decode ==
    /\ Called("decode")
    /\ Returns([float |-> decode_detect_branch(input.of),
                detect |-> decode_detect_branch_i8(input.of),
                seg |-> decode_seg_branch_i8(input.of)])

Pose ==
    /\ Called("pose")
    /\ Returns([anchors |-> post_process_pose(input.of)])

Suppress ==
    /\ Called("suppress")
    /\ \E order \in SortedOrders(input.of.dets) :
          LET left == sort_and_nms(input.of.dets, order, input.of.num, input.of.den)
          IN  Returns([left |-> left, kept |-> fill_box_result(left)])

PaintMask ==
    /\ Called("mask")
    /\ Returns([mask |-> paint_seg_mask(input.of.boxes, input.of.geometry)])

(* A job as the API takes it and the manager starts it. *)
StartJob ==
    /\ Called("stages")
    /\ LET cfg == toCfg(input.of.stages) IN
       Returns([saved |-> validateStages(input.of.stages), loads |-> init(cfg),
                tree |-> IF init(cfg) THEN run(cfg, input.of.sees) ELSE {}])

(* A pair of pictures through the detector and the zones of the camera. *)
NotePicture ==
    /\ Called("zones")
    /\ LET zones == motionZonesOf(input.of)
           moved == MovedCells(input.of.havePrev, input.of.changed,
                               clampMotionGrid(input.of.gridX), clampMotionGrid(input.of.gridY))
       IN  Returns([recorded |-> evaluateZones(zones, moved),
                    inside |-> InsideCells(zones, moved), outside |-> OutsideCells(zones, moved)])

Playlist ==
    /\ Called("playlist")
    /\ Returns(buildVodPlaylist(input.of))

Thumbnail ==
    /\ Called("thumbnail")
    /\ Returns([thumbnail |-> playbackThumbnail(input.of.rows, input.of.at),
                seek |-> seekRecordingSegment(input.of.rows, input.of.at)])

GetFile ==
    /\ Called("range")
    /\ Returns(getRecordingFile(input.of.header, input.of.size))

Offer ==
    /\ Called("offer")
    /\ Returns([answer |-> Negotiated(input.of.lines, input.of.camera,
                                      input.of.sharedAlive, input.of.rewrite),
                candidates |-> addRemoteCandidatesFromSdp(input.of.candidates, input.of.hint)])

Next == \/ Decode \/ Pose \/ Suppress \/ PaintMask \/ StartJob
        \/ NotePicture \/ Playlist \/ Thumbnail \/ GetFile \/ Offer

Spec == Init /\ [][Next]_vars

-----------------------------------------------------------------------------
(* The highest score of an anchor, in quarters of a step. *)
BestScore(b, o) == Max({deqnt_affine_to_f32(b.q[o][c], b.zp, 4) : c \in 0 .. b.classes - 1})

(* Decoding quantized scores finds what decoding floats finds: segmentation   *)
(* the same anchors and classes, detection in either layout never another   *)
(* class, and an anchor less only where the sum the network stored for it   *)
(* is, dequantized, itself below the threshold, or within one quantization  *)
(* step above a threshold that lies below the quantized zero (the           *)
(* conversion of the threshold rounds towards zero).                        *)
SumIsBelow(b, o) ==
    b.hasSum /\ deqnt_affine_to_f32(b.sum[o], b.sumZp, b.sumStep) < b.threshold
AgreesWithFloat(b, decoded) ==
    /\ decoded.seg = decoded.float
    /\ \A o \in DOMAIN b.q :
          \/ decoded.detect[o] = decoded.float[o]
          \/ /\ decoded.detect[o] = NoClass
             /\ \/ SumIsBelow(b, o)
                \/ /\ b.threshold + 4 * b.zp < 0
                   /\ BestScore(b, o) < b.threshold + 4

QuantizedAgreesWithFloat == Returned("decode") => AgreesWithFloat(input.of, result.of)

(* Pose by definition: every anchor whose logit reaches the threshold, counted *)
(* over all branches.                                                       *)
PoseAnchors(branches) == UNION {{n} \X DOMAIN branches[n].q : n \in DOMAIN branches}
AnchorsBefore(branches, a) ==
    {x \in PoseAnchors(branches) : x[1] < a[1] \/ (x[1] = a[1] /\ x[2] < a[2])}
PoseReference(branches) ==
    LET reaches(n, o) == 4 * (branches[n].q[o] - branches[n].zp) >= branches[n].logit
    IN  {Cardinality(AnchorsBefore(branches, a)) :
            a \in {x \in PoseAnchors(branches) : reaches(x[1], x[2])}}

(* Every person finds its own keypoints: the anchors that are kept are those    *)
(* that reach the threshold and keep their place in the tensor of keypoints *)
(* whatever branches and anchors before them were skipped.                  *)
PosesFindTheirKeypoints == Returned("pose") => result.of.anchors = PoseReference(input.of)

(* What a network saw is decoded in integers as it would be in floats.       *)
DecodingIsSound == QuantizedAgreesWithFloat /\ PosesFindTheirKeypoints

(* The objects of a frame: of one class no two overlap too much, nothing is    *)
(* suppressed but by a better object that stays, and the limit cuts off the *)
(* worst.                                                                   *)
SoundlyKept(of, left, kept) ==
    LET dets == of.dets
        stay == Range(left) \ {-1}
        clash(i, j) == dets[i].cls = dets[j].cls /\ Overlaps(dets[i], dets[j], of.num, of.den)
    IN  /\ \A i, j \in stay : i # j => ~clash(i, j)
        /\ \A i \in DOMAIN dets \ stay :
              \E j \in stay : clash(j, i) /\ dets[j].score >= dets[i].score
        /\ kept \subseteq stay
        /\ Cardinality(kept) = Min({Cardinality(stay), OBJ_NUMB_MAX_SIZE})
        /\ \A i \in kept, j \in stay \ kept : dets[i].score >= dets[j].score

KeptObjectsAreSound == Returned("suppress") => SoundlyKept(input.of, result.of.left, result.of.kept)

(* The class the mask shows at a pixel by definition: of the first box in the *)
(* order of scores that covers the pixel and whose mask, read at the nearest *)
(* cell of the prototype, does.                                             *)
Covers(b, p, g) ==
    /\ p[1] < g.model_h /\ p[2] < g.model_w
    /\ p[1] >= b.y1 /\ p[1] < b.y2 /\ p[2] >= b.x1 /\ p[2] < b.x2
    /\ <<(p[1] * g.proto_h) \div g.model_h, (p[2] * g.proto_w) \div g.model_w>> \in b.inside

MaskReference(boxes, p, g) ==
    LET covering == {i \in DOMAIN boxes : Covers(boxes[i], p, g)}
    IN  IF covering = {} THEN 0 ELSE boxes[Min(covering)].cls + 1

(* The mask painted in blocks shows at every pixel what sampling the prototype *)
(* there would, and a better object is never painted over.                  *)
MasksAreSampled ==
    Returned("mask") =>
        \A p \in DOMAIN result.of.mask :
           result.of.mask[p] = MaskReference(input.of.boxes, p, input.of.geometry)

(* The objects of a frame and the mask they are shown by are those of the     *)
(* definitions, the better before the worse in both.                        *)
ObjectsAreSound == KeptObjectsAreSound /\ MasksAreSampled

-----------------------------------------------------------------------------
(* The paths of a tree of detections, as sequences of <<stage, class>>, level  *)
(* by level with what is below each.                                        *)
PathsOf(tree) ==
    LET under(path, nodes) ==
            {<<Append(path, <<x.stage, x.cls>>), x.children>> : x \in nodes}
        level[n \in 0 .. kMaxDepth] ==
            IF n = 0 THEN under(<<>>, tree) ELSE UNION {under(x[1], x[2]) : x \in level[n - 1]}
    IN  {x[1] : x \in UNION {level[n] : n \in 0 .. kMaxDepth}}

(* The same by definition, stage by stage: every path to the parent of a stage *)
(* is extended by all the stage finds there and keeps.                      *)
PathsReference(cfg, sees) ==
    LET kept(i) == {d.cls : d \in {x \in sees[i] :
                        /\ x.score >= cfg[i].conf
                        /\ cfg[i].classFilter # {} => x.cls \in cfg[i].classFilter
                        /\ i = 0 => ~x.empty}}
        takes(i, p) == cfg[i].inputClasses = {} \/ p[Len(p)][2] \in cfg[i].inputClasses
        paths[i \in DOMAIN cfg] ==
            IF i = 0 THEN {<<<<0, c>>>> : c \in kept(0)}
            ELSE {Append(p, <<i, c>>) : p \in {q \in paths[cfg[i].parent] : takes(i, q)},
                                        c \in kept(i)}
    IN  UNION {paths[i] : i \in DOMAIN cfg}

(* The API and the runner agree about a job: a saved one loads, if it is not   *)
(* too deep (which the API does not look at); the API refuses none that     *)
(* would load, if no stage is null, every confidence is in range and the    *)
(* frame itself is not transformed by something unknown; and a loaded job   *)
(* takes every detection through every stage that wants it.                 *)
SavedJobsRun ==
    Returned("stages") =>
        LET stages == input.of.stages
            cfg == toCfg(stages)
            plain == /\ \A i \in DOMAIN stages : ~stages[i].null /\ stages[i].conf \in 0 .. MaxConf
                     /\ stages[0].transform # "unknown"
        IN  /\ result.of.saved /\ depthOf(cfg) <= kMaxDepth => result.of.loads
            /\ result.of.loads /\ plain => result.of.saved
            /\ result.of.loads => PathsOf(result.of.tree) = PathsReference(cfg, input.of.sees)

-----------------------------------------------------------------------------
(* The cells of the grid a rectangle of the user stands for. *)
DrawnCells(z, gridX, gridY) ==
    {<<Within(r, 0, gridY - 1), Within(c, 0, gridX - 1)>> :
        r \in Least(z.r1, z.r2) .. Greatest(z.r1, z.r2),
        c \in Least(z.c1, z.c2) .. Greatest(z.c1, z.c2)}

FiresAtLevels(of, noted) ==
    LET gx == clampMotionGrid(of.gridX)
        gy == clampMotionGrid(of.gridY)
        moved == noted.inside \cup noted.outside
        drawn == {z \in of.zones : Least(z.r1, z.r2) >= 0 /\ Least(z.c1, z.c2) >= 0}
        fires(z) == LET cells == DrawnCells(z, gx, gy) IN
                    /\ moved \cap cells # {}
                    /\ 10 * Cardinality(moved \cap cells)
                         >= Within(z.level, 1, 10) * Cardinality(cells)
        everywhere == of.havePrev /\ of.changed = Samples
    IN  /\ noted.recorded = UNION {moved \cap DrawnCells(z, gx, gy) : z \in {x \in drawn : fires(x)}}
        /\ noted.recorded \subseteq noted.inside
        /\ everywhere => \A z \in drawn : DrawnCells(z, gx, gy) \subseteq noted.recorded

(* A zone is recorded exactly when level * 10 per cent of its own cells moved,  *)
(* and one at least; each zone counts for itself; a picture that changes    *)
(* everywhere wakes every zone the user drew, however it was drawn; and     *)
(* what is recorded is drawn as inside.                                     *)
ZonesFireAtTheirLevel == Returned("zones") => FiresAtLevels(input.of, result.of)

-----------------------------------------------------------------------------
(* The bytes a Range header asks for, by its definition. *)
RequestedBytes(h, size) ==
    {b \in 0 .. size - 1 : CASE h.kind = "whole" -> TRUE
                             [] h.kind = "suffix" -> b >= size - h.to
                             [] h.kind = "open" -> b >= h.from
                             [] h.kind = "closed" -> b >= h.from /\ b <= h.to}

Gap(prev, cur) == cur.start - (prev.start + prev.duration)

BreaksAreMarked(segments, list) ==
    /\ \A i \in DOMAIN segments : segments[i].duration <= list.target * Second
    /\ \A i \in 2 .. Len(segments) :
          LET prev == segments[i - 1]
              cur == segments[i]
              marked == list.entries[i].discontinuity
              timed == prev.start >= 0 /\ cur.start >= 0 /\ prev.duration >= 0
          IN  /\ prev.session # cur.session => marked
              /\ timed /\ Gap(prev, cur) >= 3 * Second => marked
              /\ prev.session = cur.session /\ timed /\ Gap(prev, cur) <= Second => ~marked

PictureIsThere(rows, at, t, seek) ==
    LET usable == {r \in Range(rows) : r.complete /\ r.start >= 0 /\ r.start <= at}
        containing == {r \in usable : RowContains(r, at)}
    IN  /\ t.found => /\ t.row \in usable
                      /\ t.offset >= 0 /\ t.offset < t.row.duration
        /\ containing # {} => t.found /\ t.row \in containing /\ t.row.start + t.offset = at
        /\ t.found /\ containing = {} => \A r \in usable : r.start <= t.row.start
        /\ ~t.found => \A r \in usable : r.start + r.duration <= at - WindowBack
        /\ (seek # 0) = (containing # {})

BytesAreExact(header, size, answer) ==
    LET asked == RequestedBytes(header, size)
        whole == header.kind = "whole"
    IN  /\ {answer.start + b : b \in 0 .. answer.length - 1} = asked
        /\ (answer.status = 416) = (~whole /\ asked = {})
        /\ (answer.status = 200) = whole

(* Recordings are found where they are asked for.  A playlist marks a break     *)
(* where the writing pipeline changed or three seconds are missing, and     *)
(* none where the same pipeline went on within a second; no segment is      *)
(* longer than the target.  A thumbnail is taken inside a segment: the one  *)
(* that contains the time, at that time, or else the last before it.  A     *)
(* Range is answered with exactly its bytes, or 416 when there are none.    *)
RecordingsAreAddressed ==
    /\ Returned("playlist") => BreaksAreMarked(input.of, result.of)
    /\ Returned("thumbnail") =>
          PictureIsThere(input.of.rows, input.of.at, result.of.thumbnail, result.of.seek)
    /\ Returned("range") => BytesAreExact(input.of.header, input.of.size, result.of)

-----------------------------------------------------------------------------
(* The answer to an offer, given and playable or not given. *)
Playable(of, given) ==
    LET lines == Range(of.lines)
        offered(codec) == {l.pt : l \in {x \in lines : x.codec = codec}}
        sendable == {pt \in offered("H265") : payloadTypeUsable(pt) \/ of.rewrite}
        l == given.launch
    IN  /\ given.ok =>
             /\ l.wirePt \in offered(l.encoding) /\ l.capsPt = l.wirePt
             /\ payloadTypeUsable(l.payPt)
             /\ l.source = IF given.choice.shared THEN "H264" ELSE of.camera
             /\ l.encoding = IF l.transcode THEN "H264" ELSE l.source
             /\ (given.choice.shared \/ l.transcode) <=> (of.camera = "H265" /\ sendable = {})
             /\ l.encoding = "H264" /\ (\E x \in lines : /\ x.codec = "H264" /\ x.mode1
                                                         /\ payloadTypeUsable(x.pt))
                   => \E x \in lines : x.codec = "H264" /\ x.pt = l.wirePt /\ x.mode1
        /\ ~given.ok => offered("H264") = {} /\ (of.camera = "H265" => sendable = {})

(* An answer that is given can be played: the packets carry a payload type the   *)
(* browser offered for the encoding that is sent, the caps of the answer    *)
(* say the same, the payloader runs in its range, and the source delivers   *)
(* what the pipeline expects.  A camera of H265 is encoded again only when  *)
(* the browser offers no H265 that may be sent.  An offer is refused only   *)
(* when it has nothing that could be sent.  With the address of the browser *)
(* no candidate is left as a hidden name.                                   *)
AnswerFitsOffer ==
    Returned("offer") =>
        /\ Playable(input.of, result.of.answer)
        /\ DOMAIN result.of.candidates = DOMAIN input.of.candidates
        /\ input.of.hint # "" => "local" \notin Range(result.of.candidates)
=============================================================================
