--------------------------- MODULE MCComputations ---------------------------
(***************************************************************************)
(* Computations with inputs for TLC: small worlds in which every case of    *)
(* the operations occurs.                                                   *)
(***************************************************************************)
EXTENDS Computations

Call(task, of) == input = [task |-> task, of |-> of]

Quantized == Lo .. Hi

(* Two anchors, three classes, blocks of two channels (so the last is padded); *)
(* any number is stored for the sum of the second anchor, in units finer or *)
(* coarser than those of the scores.                                        *)
Classes == 0 .. 2
FirstAnchors == {[c \in Classes |-> IF c = 2 THEN Hi ELSE Lo], [c \in Classes |-> 0]}
Sums == {[hasSum |-> FALSE, sum |-> (0 :> Lo) @@ (1 :> Lo), sumZp |-> Lo, sumStep |-> 4]}
        \cup [hasSum : {TRUE}, sum : {(0 :> Hi) @@ (1 :> s) : s \in Quantized},
              sumZp : {Lo, 0}, sumStep : {3, 10}]

AnyDecode ==
    \E f \in FirstAnchors, s \in [Classes -> Quantized], zp \in Quantized,
       t \in 0 .. 4 * (Hi - Lo) + 1, c2 \in {0, 2}, sums \in Sums :
        Call("decode", sums @@ [q |-> (0 :> f) @@ (1 :> s), classes |-> 3, zp |-> zp,
                                threshold |-> t, c2 |-> c2])

SomeBranches ==
    {[q |-> <<Lo, 0>>, zp |-> 0, logit |-> -20], [q |-> <<Hi>>, zp |-> 0, logit |-> 7],
     [q |-> <<Hi, Lo, Hi>>, zp |-> Lo, logit |-> 5]}
AnyPose ==
    \E a, c \in SomeBranches, q \in [1 .. 2 -> Quantized], zp \in {Lo, 0},
       l \in {-20, -5, -3, 0, 2, 7, 20} :
        Call("pose", <<a, [q |-> q, zp |-> zp, logit |-> l], c>>)

(* Boxes of two classes, some of which overlap by more than 45 per cent. *)
Boxes == {[x |-> 0, y |-> 0, w |-> 3, h |-> 3], [x |-> 1, y |-> 0, w |-> 3, h |-> 3],
          [x |-> 2, y |-> 1, w |-> 3, h |-> 2], [x |-> 8, y |-> 0, w |-> 2, h |-> 2]}
Det(b, s, c) == b @@ [score |-> s, cls |-> c]
AnySuppress ==
    \E b1, b2, b3 \in Boxes, s1, s2 \in 1 .. 3, s3, c2, c3 \in 1 .. 2 :
        Call("suppress", [num |-> 45, den |-> 100,
                          dets |-> <<Det(b1, s1, 1), Det(b2, s2, c2), Det(b3, s3, c3)>>])

(* A prototype of 2 x 3 cells under a picture of 3 x 5 pixels: the blocks are  *)
(* of different sizes, and the mask is one pixel narrower than the picture. *)
Geometry == [model_h |-> 3, model_w |-> 5, proto_h |-> 2, proto_w |-> 3, mask_h |-> 3, mask_w |-> 4]
ProtoCells == (0 .. 1) \X (0 .. 2)
BoxShapes == {[y1 |-> 0, x1 |-> 0, y2 |-> 3, x2 |-> 5], [y1 |-> 1, x1 |-> 1, y2 |-> 3, x2 |-> 4],
              [y1 |-> 0, x1 |-> 2, y2 |-> 2, x2 |-> 3], [y1 |-> 2, x1 |-> 2, y2 |-> 2, x2 |-> 5]}
AnyMask ==
    \E s1, s2 \in BoxShapes, i2 \in SUBSET ProtoCells,
       i1 \in {{}, {<<0, 1>>, <<1, 2>>}, {<<1, 0>>, <<1, 1>>, <<0, 2>>}} :
        Call("mask", [geometry |-> Geometry,
                      boxes |-> <<s1 @@ [cls |-> 1, inside |-> i1], s2 @@ [cls |-> 2, inside |-> i2]>>])

(* Lists of up to four stages with every choice of parents, one of them odd. *)
PlainStage(p, i) == [null |-> FALSE, parent |-> p, model |-> "known",
                     transform |-> IF i = 0 THEN "" ELSE "known", conf |-> 1,
                     inputClasses |-> {}, classFilter |-> {}]
Odd(s, oddity) ==
    CASE oddity = "null" -> [s EXCEPT !.null = TRUE]
      [] oddity = "noModel" -> [s EXCEPT !.model = "unknown"]
      [] oddity = "noTransform" -> [s EXCEPT !.transform = ""]
      [] oddity = "badTransform" -> [s EXCEPT !.transform = "unknown"]
      [] oddity = "wants" -> [s EXCEPT !.inputClasses = {1}]
      [] oddity = "keeps" -> [s EXCEPT !.classFilter = {2}]
      [] oddity = "strict" -> [s EXCEPT !.conf = 2]
      [] oddity = "badConf" -> [s EXCEPT !.conf = MaxConf + 1]
Oddities == {"null", "noModel", "noTransform", "badTransform", "wants", "keeps", "strict", "badConf"}
Seen == {[cls |-> 1, score |-> 1, empty |-> FALSE], [cls |-> 2, score |-> 1, empty |-> TRUE],
         [cls |-> 2, score |-> 2, empty |-> FALSE]}
AnyStages ==
    \E n \in 1 .. 4 : \E p \in [0 .. n - 1 -> {-2, -1, 0, 2}], k \in 0 .. n - 1, o \in Oddities :
        Call("stages",
             [stages |-> [i \in 0 .. n - 1 |->
                             IF i = k THEN Odd(PlainStage(p[i], i), o) ELSE PlainStage(p[i], i)],
              sees |-> [i \in 0 .. n - 1 |-> Seen]])

(* Rectangles of changed points under grids of two to four cells a side. *)
Spans == {<<0, 0>>, <<0, 5>>, <<1, 2>>, <<3, 5>>}
AnyZones ==
    \E h \in BOOLEAN, g \in {<<1, 9>>, <<3, 2>>}, a, b \in Spans,
       r \in {<<0, 1>>, <<2, 0>>, <<1, 9>>, <<-1, 1>>}, c \in {<<0, 0>>, <<3, 1>>}, l \in {0, 5, 6, 12} :
        Call("zones",
             [havePrev |-> h, gridX |-> g[1], gridY |-> g[2],
              zones |-> {[r1 |-> r[1], c1 |-> c[1], r2 |-> r[2], c2 |-> c[2], level |-> l],
                         [r1 |-> 1, c1 |-> 1, r2 |-> 0, c2 |-> 0, level |-> 3]},
              changed |-> (a[1] .. a[2]) \X (b[1] .. b[2])])

(* Playlists of three segments over a few seconds of four ticks. *)
AnyPlaylist ==
    \E s1 \in 0 .. 3, d1 \in 0 .. 9, g \in -2 .. 18, n1, n2 \in 0 .. 2, last \in {-1, 60} :
        Call("playlist",
             <<[start |-> s1, duration |-> d1, session |-> n1],
               [start |-> s1 + d1 + g, duration |-> 7, session |-> n2],
               [start |-> last, duration |-> 2, session |-> 2]>>)

(* Two segments, a gap or none between them, and one that is still recorded. *)
Row(s, d, c) == [start |-> s, duration |-> d, session |-> 1, complete |-> c]
AnyThumbnail ==
    \E at \in 1 .. 24, s \in {0, 2, 9}, d \in {1, 4, 6}, g \in {0, 3}, e \in {1, 4}, a, b \in BOOLEAN :
        Call("thumbnail",
             [at |-> at, rows |-> <<Row(-1, 1, TRUE), Row(s, d, a), Row(s + d + g, e, b),
                                    Row(s + d + g + e, 5, FALSE)>>])

AnyRange ==
    \E n \in 0 .. 4, k \in {"whole", "suffix", "open", "closed"}, f, t \in 0 .. 6 :
        Call("range", [size |-> n, header |-> [kind |-> k, from |-> f, to |-> t]])

(* Dynamic payload types are 4 .. 7 here. *)
Lines == {[codec |-> "H265", pt |-> p, mode1 |-> FALSE] : p \in {3, 5}}
         \cup {[codec |-> "H264", pt |-> p, mode1 |-> m] : p \in {2, 5, 6}, m \in BOOLEAN}
AnyOffer ==
    \E n \in 0 .. 3 : \E l \in [1 .. n -> Lines], c \in {"H264", "H265"},
       alive, rewrite \in BOOLEAN, h \in {"", "192.168.1.7"} :
        Call("offer", [lines |-> l, camera |-> c, sharedAlive |-> alive, rewrite |-> rewrite,
                       hint |-> h, candidates |-> <<"192.168.1.5", "local">>])

AnyCall == \/ AnyDecode \/ AnyPose \/ AnySuppress \/ AnyMask \/ AnyStages
           \/ AnyZones \/ AnyPlaylist \/ AnyThumbnail \/ AnyRange \/ AnyOffer

MCInit == AnyCall /\ Init

MCSpec == MCInit /\ [][Next]_vars
=============================================================================
