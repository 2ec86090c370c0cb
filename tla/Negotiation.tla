---------------------------- MODULE Negotiation ----------------------------
(***************************************************************************)
(* What a WebRTC session decides from the offer of a browser before it      *)
(* builds its pipeline (WebRtcSession.hpp): which codec is sent, in which   *)
(* RTP payload type, whether the picture is encoded again, and which remote *)
(* candidates are tried.                                                    *)
(*                                                                          *)
(* An offer is the sequence of its codec lines [codec, pt, mode1], mode1    *)
(* telling that the line asks for packetization-mode 1; a candidate is      *)
(* [address], "local" for a name that only multicast DNS resolves.  The     *)
(* payloader of GStreamer works with dynamic payload types only.            *)
(***************************************************************************)
EXTENDS Integers, Sequences, SequencesExt, FiniteSets

CONSTANTS DynMin, DynMax,              \* 96 and 127
          kPayloaderInternalPt         \* 96

ASSUME NegotiationAssumption ==
    /\ DynMin \in Nat /\ DynMax \in Nat /\ DynMin > 0
    /\ kPayloaderInternalPt \in DynMin .. DynMax

NoPt == -1

payloadTypeUsable(pt) == pt \in DynMin .. DynMax

FirstPt(offer, among) ==
    IF among = {} THEN NoPt ELSE offer[CHOOSE i \in among : \A j \in among : i <= j].pt

(* A usable line with packetization-mode 1 if that is preferred, else the     *)
(* first usable line, else the first line of the codec.                     *)
pickPayloadType(offer, codec, preferPacketizationMode1) ==
    LET lines == {i \in DOMAIN offer : offer[i].codec = codec}
        usable == {i \in lines : payloadTypeUsable(offer[i].pt)}
        mode1 == {i \in usable : offer[i].mode1}
    IN  FirstPt(offer, IF preferPacketizationMode1 /\ mode1 # {} THEN mode1
                       ELSE IF usable # {} THEN usable ELSE lines)

(* The payload type for a camera of H265 that is passed through; none when    *)
(* it would have to be rewritten and that is switched off.                  *)
PassthroughPt(offer, h265PtRewriteEnabled) ==
    LET pt == pickPayloadType(offer, "H265", FALSE)
    IN  IF ~payloadTypeUsable(pt) /\ ~h265PtRewriteEnabled THEN NoPt ELSE pt

(* The choice of WebRtcSession::start.  sharedAlive: the source of the        *)
(* camera that is encoded again once for all viewers can be had.            *)
Choice(offer, cameraCodec, sharedAlive, h265PtRewriteEnabled) ==
    LET through == PassthroughPt(offer, h265PtRewriteEnabled)
        h264 == pickPayloadType(offer, "H264", TRUE)
    IN  IF cameraCodec # "H265"
        THEN [pt |-> h264, sourceH265 |-> FALSE, transcode |-> FALSE, shared |-> FALSE]
        ELSE IF through >= 0
        THEN [pt |-> through, sourceH265 |-> TRUE, transcode |-> FALSE, shared |-> FALSE]
        ELSE [pt |-> h264, sourceH265 |-> ~sharedAlive, transcode |-> ~sharedAlive,
              shared |-> sharedAlive]

NotRewritten(c) ==
    LET payPt == IF payloadTypeUsable(c.pt) THEN c.pt ELSE kPayloaderInternalPt
    IN  [source |-> IF c.sourceH265 THEN "H265" ELSE "H264",
         encoding |-> IF c.sourceH265 /\ ~c.transcode THEN "H265" ELSE "H264",
         transcode |-> c.transcode, payPt |-> payPt, capsPt |-> c.pt, wirePt |-> payPt]

(* The pipeline of the session: what its source delivers, what it encodes    *)
(* for the browser, the payload type of the payloader, of the caps the      *)
(* answer is written from, and of the packets after the rewriting probe.    *)
buildLaunch(c) ==
    LET needPtRewrite == ~payloadTypeUsable(c.pt)
        payPt == IF needPtRewrite THEN kPayloaderInternalPt ELSE c.pt
    IN  [source |-> IF c.sourceH265 THEN "H265" ELSE "H264",
         encoding |-> IF c.sourceH265 /\ ~c.transcode THEN "H265" ELSE "H264",
         transcode |-> c.transcode, payPt |-> payPt, capsPt |-> c.pt,
         wirePt |-> IF needPtRewrite THEN c.pt ELSE payPt]

(* The result of start() as far as it depends on the offer. *)
Negotiated(offer, cameraCodec, sharedAlive, h265PtRewriteEnabled) ==
    LET c == Choice(offer, cameraCodec, sharedAlive, h265PtRewriteEnabled)
    IN  IF c.pt < 0 THEN [ok |-> FALSE]
        ELSE [ok |-> TRUE, choice |-> c, launch |-> buildLaunch(c)]

-----------------------------------------------------------------------------
(* A name hidden behind multicast DNS is replaced by the address the offer    *)
(* came from, when the proxy told it.                                       *)
rewriteMdnsCandidate(candidate, hint) ==
    IF hint = "" \/ candidate # "local" THEN candidate ELSE hint

addRemoteCandidatesFromSdp(candidates, hint) ==
    [i \in DOMAIN candidates |-> rewriteMdnsCandidate(candidates[i], hint)]
=============================================================================
