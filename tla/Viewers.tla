------------------------------- MODULE Viewers -------------------------------
(***************************************************************************)
(* The live viewers of one camera and the connection they share: the       *)
(* registry that hands out the camera's source and its transcoder          *)
(* (CameraSourceRegistry), WebRTC sessions (WebRtcService, WebRtcSession),  *)
(* MoQ sessions (MoqFeedService), the watchdogs that collect them, and the  *)
(* reset GStreamerService sends to both when the camera is edited.         *)
(*                                                                         *)
(* The registry keeps weak references: a source exists as long as somebody  *)
(* holds it.  What a session knows of its browser is the connection state   *)
(* and three clocks; a clock is here "fresh" or "stale", stale being older  *)
(* than the limit isExpired() compares it with.                            *)
(*                                                                         *)
(* LiveProofs extends this module beside FrameDelivery, hence the names of  *)
(* the specification.                                                      *)
(***************************************************************************)
EXTENDS Naturals, Sequences, FiniteSets

CONSTANTS
    Web, Moq,       \* the sessions that may be asked for, WebRTC and MoQ
    Addresses,      \* RTSP addresses of the camera
    H265,           \* those that answer with H265
    First,          \* the address it has at first
    MaxMade         \* bound: sources and transcoders made, together

ASSUME ViewersAssumption ==
    /\ Web \cap Moq = {} /\ "rec" \notin Web \cup Moq
    /\ H265 \subseteq Addresses /\ First \in Addresses
    /\ MaxMade \in Nat

VARIABLES
    address,   \* of the camera, in its row
    reset,     \* where startCamera is: "idle", "web", "moq" (destroying the
               \* sessions of either service) or "start" (of the recording)
    cameras,   \* every CameraRtpSource made: its address, m_alive; the last one
               \* is the one in m_sources
    coders,    \* every TranscodedRtpSource made: its base, m_alive; likewise
    base,      \* the camera source each session and the recording hold
    coder,     \* the transcoder each session uses, 0 for none
    at,        \* a session: "new", "asked", "built", "listed" (in m_sessions),
               \* taken out of it to be stopped ("doomed", or "ousted" when the
               \* reset waits for that) or "gone"
    link,      \* its network is up
    state,     \* what it knows: "new", "connected", "disconnected", "failed"
    clock      \* the clock isExpired reads in that state (m_lastMedia when it
               \* is connected, m_lastSeen when not), and m_lastRtcp

registryVars == <<cameras, coders>>
holdVars == <<base, coder>>
browserVars == <<link, state, clock>>
viewersVars == <<address, reset, registryVars, holdVars, at, browserVars>>

Sessions == Web \cup Moq
SourceHolders == Sessions \cup {"rec"}

Unset == [read |-> "fresh", rtcp |-> "never"]

ViewersInit ==
    /\ address = First /\ reset = "idle"
    /\ cameras = <<>> /\ coders = <<>>
    /\ base = [h \in SourceHolders |-> 0] /\ coder = [s \in Sessions |-> 0]
    /\ at = [s \in Sessions |-> "new"] 
    /\ link = [s \in Sessions |-> FALSE] /\ state = [s \in Sessions |-> "new"]
    /\ clock = [s \in Sessions |-> Unset]

-----------------------------------------------------------------------------
(* Who holds what, and what is alive.                                      *)

Known == Len(cameras)
KnownCoder == Len(coders)
MayMakeSource == Len(cameras) + Len(coders) < MaxMade

CoderHeld(k) == \E s \in Sessions : coder[s] = k
HeldDirectly(i) == \E h \in SourceHolders : base[h] = i
CameraHeld(i) ==
    \/ \E h \in SourceHolders : base[h] = i
    \/ \E k \in DOMAIN coders : CoderHeld(k) /\ coders[k].base = i

\* What nobody holds any more is destroyed (conjoined last: it reads what the
\* step leaves behind).
Collect ==
    /\ coders' = [k \in DOMAIN coders |->
                     [coders[k] EXCEPT !.alive = @ /\ CoderHeld(k)']]
    /\ cameras' = [i \in DOMAIN cameras |->
                      [cameras[i] EXCEPT !.alive = @ /\ CameraHeld(i)']]

OwnAlive(k) == coders[k].alive
CoderAlive(k) == coders[k].alive /\ cameras[coders[k].base].alive

SourceAlive(s) ==
    IF coder[s] = 0 THEN base[s] # 0 /\ cameras[base[s]].alive
    ELSE CoderAlive(coder[s])

IsH265(a) == a \in H265

\* acquire(): the known source, if it still is and is of the wanted codec,
\* whatever its address; otherwise a new one, which may fail to start.
Reusable(a) ==
    /\ cameras # <<>> /\ cameras[Known].alive
    /\ IsH265(cameras[Known].address) <=> IsH265(a)

Acquire(h) ==
    \/ /\ Reusable(address)
       /\ base' = [base EXCEPT ![h] = Known]
       /\ UNCHANGED cameras
    \/ /\ ~Reusable(address)
       /\ MayMakeSource
       /\ cameras' = Append(cameras, [address |-> address, alive |-> TRUE])
       /\ base' = [base EXCEPT ![h] = Known + 1]

\* acquireTranscoded(): one transcoder per camera, not per viewer.
NeverShared == FALSE
CoderReusable ==
    coders # <<>> /\ CoderAlive(KnownCoder)

AcquireTranscoded(s) ==
    \/ /\ CoderReusable
       /\ coder' = [coder EXCEPT ![s] = KnownCoder]
       /\ UNCHANGED coders
    \/ /\ ~CoderReusable
       /\ MayMakeSource
       /\ coders' = Append(coders, [base |-> base[s], alive |-> TRUE])
       /\ coder' = [coder EXCEPT ![s] = KnownCoder + 1]

Put(s, place) == at' = [at EXCEPT ![s] = place]

-----------------------------------------------------------------------------
(* Asking for a session                                                    *)

\* createSession and createLive: the source first.
Ask(s) ==
    /\ at[s] = "new"
    /\ Acquire(s)
    /\ Put(s, "asked")
    /\ UNCHANGED <<address, reset, coders, coder, browserVars>>

AskFails(s) ==
    /\ at[s] = "new" /\ ~Reusable(address)
    /\ Put(s, "gone")
    /\ UNCHANGED <<address, reset, registryVars, holdVars, browserVars>>

BaseIsH265(s) == IsH265(cameras[base[s]].address)

\* WebRtcSession::start as far as the bridge: a browser that does not take
\* H265 gets the shared transcoder; when there is none the session decodes
\* for itself, from the camera's source.
BuildShared(s) ==
    /\ s \in Web /\ at[s] = "asked"
    /\ BaseIsH265(s)
    /\ AcquireTranscoded(s)
    /\ Put(s, "built")
    /\ UNCHANGED <<address, reset, cameras, base, browserVars>>

BuildDirect(s) ==
    /\ s \in Web /\ at[s] = "asked"
    /\ cameras[base[s]].alive
    /\ Put(s, "built")
    /\ UNCHANGED <<address, reset, registryVars, holdVars, browserVars>>

\* createLive: MoQ always takes H264; the transcoder holds the source then.
BuildMoq(s) ==
    /\ s \in Moq /\ at[s] = "asked"
    /\ IF BaseIsH265(s)
       THEN /\ AcquireTranscoded(s) /\ base' = [base EXCEPT ![s] = 0]
            /\ cameras' = [i \in DOMAIN cameras |->
                              [cameras[i] EXCEPT !.alive = @ /\ CameraHeld(i)']]
       ELSE UNCHANGED <<cameras, coders, holdVars>>
    /\ Put(s, "built")
    /\ UNCHANGED <<address, reset, browserVars>>

\* stop() and the destruction of the object.
Leave(s) ==
    /\ Put(s, "gone")
    /\ base' = [base EXCEPT ![s] = 0] /\ coder' = [coder EXCEPT ![s] = 0]
    /\ link' = [link EXCEPT ![s] = FALSE] /\ state' = [state EXCEPT ![s] = "new"]
    /\ clock' = [clock EXCEPT ![s] = Unset]
    /\ Collect
    /\ UNCHANGED <<address, reset>>

\* Any error up to the answer: the session is stopped before it is listed.
NegotiationFails(s) ==
    /\ at[s] \in {"asked", "built"}
    /\ Leave(s)

\* negotiate() and spawn() list the session when it has been negotiated.
Register(s) ==
    /\ at[s] = "built"
    /\ Put(s, "listed")
    /\ link' = [link EXCEPT ![s] = s \in Moq]
    /\ clock' = [clock EXCEPT ![s].read = "fresh"]
    /\ UNCHANGED <<address, reset, registryVars, holdVars, state>>

-----------------------------------------------------------------------------
(* The browser                                                             *)

LinkUp(s) ==
    /\ s \in Web /\ at[s] = "listed" /\ ~link[s]
    /\ link' = [link EXCEPT ![s] = TRUE]
    /\ UNCHANGED <<address, reset, registryVars, holdVars, at, state, clock>>

\* The network drops, or for good: a tab is closed, and nobody says so.
LinkDrops(s) ==
    /\ at[s] = "listed" /\ link[s]
    /\ link' = [link EXCEPT ![s] = FALSE]
    /\ UNCHANGED <<address, reset, registryVars, holdVars, at, state, clock>>

\* onConnectionState.
Connected(s) ==
    /\ s \in Web /\ at[s] = "listed" /\ link[s]
    /\ state[s] \in {"new", "disconnected"}
    /\ state' = [state EXCEPT ![s] = "connected"]
    /\ clock' = [clock EXCEPT ![s].read = "fresh"]
    /\ UNCHANGED <<address, reset, registryVars, holdVars, at, link>>

Disconnected(s) ==
    /\ s \in Web /\ at[s] = "listed" /\ ~link[s]
    /\ state[s] = "connected"
    /\ state' = [state EXCEPT ![s] = "disconnected"]
    /\ clock' = [clock EXCEPT ![s].read = "fresh"]
    /\ UNCHANGED <<address, reset, registryVars, holdVars, at, link>>

\* The connection fails or is closed, or the pipeline has an error or EOS; a
\* write of the MoQ socket finds the peer gone.
Failed(s) ==
    /\ at[s] = "listed" /\ state[s] # "failed"
    /\ IF s \in Moq THEN ~link[s] /\ SourceAlive(s) ELSE ~link[s]
    /\ state' = [state EXCEPT ![s] = "failed"]
    /\ UNCHANGED <<address, reset, registryVars, holdVars, at, link, clock>>

\* onSsrcActive.
Rtcp(s) ==
    /\ s \in Web /\ at[s] = "listed" /\ link[s] /\ state[s] = "connected"
    /\ clock[s].rtcp # "fresh"
    /\ clock' = [clock EXCEPT ![s].rtcp = "fresh"]
    /\ UNCHANGED <<address, reset, registryVars, holdVars, at, link, state>>

\* Time passes without what would set the clock: RTCP of a browser that is
\* there; once connected, a frame at the media probe of a source that lives.
Stale(s, c) ==
    /\ s \in Web /\ at[s] = "listed" /\ clock[s][c] = "fresh"
    /\ IF c = "rtcp" THEN ~link[s]
       ELSE state[s] = "connected" => ~SourceAlive(s)
    /\ clock' = [clock EXCEPT ![s][c] = "stale"]
    /\ UNCHANGED <<address, reset, registryVars, holdVars, at, link, state>>

-----------------------------------------------------------------------------
(* The end of a session                                                    *)

RtcpUnread(s) == FALSE
RtcpSilent(s) == state[s] = "connected" /\ clock[s].rtcp = "stale"

\* isExpired of a WebRTC session, ~alive of a MoQ session.
Expired(s) ==
    IF s \in Moq THEN state[s] = "failed" \/ ~SourceAlive(s)
    ELSE \/ state[s] = "failed"
         \/ RtcpSilent(s)
         \/ clock[s].read = "stale"

\* Whoever erases the session from m_sessions, under the lock, stops it.
Take(taken, place) ==
    at' = [s \in Sessions |-> IF s \in taken THEN place ELSE at[s]]

Listed == {s \in Sessions : at[s] = "listed"}

\* reaperLoop of either service.
Reap(kind) ==
    LET expired == {s \in kind \cap Listed : Expired(s)} IN
    /\ expired # {} /\ Take(expired, "doomed")
    /\ UNCHANGED <<address, reset, registryVars, holdVars, browserVars>>

\* DELETE of a session.
Destroy(s) ==
    /\ s \in Listed /\ Take({s}, "doomed")
    /\ UNCHANGED <<address, reset, registryVars, holdVars, browserVars>>

Stop(s) == at[s] \in {"doomed", "ousted"} /\ Leave(s)

-----------------------------------------------------------------------------
(* The camera: its reset, its recording, the AI that looks on, its failures *)

\* putCamera and startCamera: the row is written, then the viewers of either
\* service are destroyed, then the stream restarts with its recording.
Edit(a) ==
    /\ reset = "idle" /\ reset' = "web"
    /\ address' = a
    /\ Take(Web \cap Listed, "ousted")
    /\ UNCHANGED <<registryVars, holdVars, browserVars>>

Ousted(kind) == \A s \in kind : at[s] # "ousted"

ResetMoq ==
    /\ reset = "web" /\ Ousted(Web) /\ reset' = "moq"
    /\ Take(Moq \cap Listed, "ousted")
    /\ UNCHANGED <<address, registryVars, holdVars, browserVars>>

RestartStops ==
    /\ reset = "moq" /\ Ousted(Moq)
    /\ reset' = "start"
    /\ base' = [base EXCEPT !["rec"] = 0] /\ UNCHANGED coder
    /\ Collect
    /\ UNCHANGED <<address, at, browserVars>>

RestartRecords ==
    /\ reset = "start"
    /\ reset' = "idle"
    /\ \/ Acquire("rec")
       \/ UNCHANGED <<cameras, base>>     \* not recorded, or it failed
    /\ UNCHANGED <<address, coders, coder, at, browserVars>>

\* A recording whose source is gone is taken down by its stream.
RecordingStops ==
    /\ reset = "idle" /\ base["rec"] # 0 /\ ~cameras[base["rec"]].alive
    /\ base' = [base EXCEPT !["rec"] = 0] /\ UNCHANGED coder
    /\ Collect
    /\ UNCHANGED <<address, reset, at, browserVars>>

CameraDies(i) ==
    /\ cameras[i].alive /\ CameraHeld(i)
    /\ cameras' = [cameras EXCEPT ![i].alive = FALSE]
    /\ UNCHANGED <<address, reset, coders, holdVars, at, browserVars>>

CoderDies(k) ==
    /\ coders[k].alive /\ CoderHeld(k)
    /\ coders' = [coders EXCEPT ![k].alive = FALSE]
    /\ UNCHANGED <<address, reset, cameras, holdVars, at, browserVars>>

-----------------------------------------------------------------------------
Time(s) == \E c \in {"read", "rtcp"} : Stale(s, c)

ViewersNext ==
    \/ \E s \in Sessions :
          \/ Ask(s) \/ AskFails(s) \/ BuildShared(s) \/ BuildDirect(s) \/ BuildMoq(s)
          \/ NegotiationFails(s) \/ Register(s)
          \/ LinkUp(s) \/ LinkDrops(s)
          \/ Connected(s) \/ Disconnected(s) \/ Failed(s) \/ Rtcp(s)
          \/ Time(s) \/ Destroy(s) \/ Stop(s)
    \/ Reap(Web) \/ Reap(Moq)
    \/ \E a \in Addresses : Edit(a)
    \/ ResetMoq \/ RestartStops \/ RestartRecords \/ RecordingStops
    \/ \E i \in DOMAIN cameras : CameraDies(i)
    \/ \E k \in DOMAIN coders : CoderDies(k)

\* The watchdogs run every few seconds, time passes, a session that was taken
\* out is stopped, and a write to the socket of a gone MoQ server fails.  Nothing
\* says that webrtcbin notices a browser that left.
ViewersFairness ==
    /\ \A s \in Web : WF_viewersVars(Reap(Web) \/ Stop(s)) /\ WF_viewersVars(Time(s))
    /\ \A s \in Moq : WF_viewersVars(Reap(Moq) \/ Stop(s)) /\ WF_viewersVars(Failed(s))

ViewersSpec == ViewersInit /\ [][ViewersNext]_viewersVars /\ ViewersFairness

-----------------------------------------------------------------------------
ViewersTypeOK ==
    /\ address \in Addresses
    /\ reset \in {"idle", "web", "moq", "start"}
    /\ \A i \in DOMAIN cameras : cameras[i] \in [address : Addresses, alive : BOOLEAN]
    /\ \A k \in DOMAIN coders : /\ coders[k].base \in DOMAIN cameras
                                /\ coders[k].alive \in BOOLEAN
    /\ base \in [SourceHolders -> 0..Len(cameras)]
    /\ coder \in [Sessions -> 0..Len(coders)]
    /\ \A s \in Sessions :
          /\ at[s] \in {"new", "gone"} => base[s] = 0 /\ coder[s] = 0
          /\ at[s] \in {"asked", "built", "listed"} => base[s] # 0 \/ coder[s] # 0
    /\ at \in [Sessions -> {"new", "asked", "built", "listed", "doomed", "ousted", "gone"}]
    /\ link \in [Sessions -> BOOLEAN]
    /\ state \in [Sessions -> {"new", "connected", "disconnected", "failed"}]
    /\ clock \in [Sessions -> [read : {"fresh", "stale"}, rtcp : {"never", "fresh", "stale"}]]

\* Whatever comes and goes (viewers, recording, AI, sources that die), the
\* camera never has two live connections, as long as its codec stays.
Live == {i \in DOMAIN cameras : cameras[i].alive /\ CameraHeld(i)}
OneConnection == Cardinality(Live) <= 1

\* Nor are there two live transcoders: H265 is decoded once for everybody.
OneTranscoder ==
    Cardinality({k \in DOMAIN coders : CoderHeld(k) /\ CoderAlive(k)}) <= 1

\* One of each, of the camera's connections and of its transcoders.
ConnectionsAreShared == ViewersTypeOK /\ OneConnection /\ OneTranscoder

\* A source is never pulled from under a session that is served: not by the
\* viewer, the recording or the transcoder that held it first and leaves.
NotPulledAway ==
    [][\A s \in Listed : at'[s] = "listed" /\ SourceAlive(s) /\ ~SourceAlive(s)'
          => UNCHANGED holdVars]_viewersVars

\* A browser that leaves without a word is noticed even if its connection looks
\* up for ever, provided it has ever sent RTCP; so is a MoQ server.
LeaverIsCollected == \A s \in Sessions :
    at[s] = "listed" /\ ~link[s] /\ (state[s] = "connected" => clock[s].rtcp # "never")
        ~> at[s] = "gone" \/ link[s]

\* A session whose source has died, at whichever end of the transcoder, is
\* left, that the browser may come back and get a new one.
Starved(s) ==
    \E i \in DOMAIN cameras :
        /\ IF coder[s] = 0 THEN base[s] = i ELSE coders[coder[s]].base = i
        /\ ~(cameras[i].alive /\ (coder[s] # 0 => coders[coder[s]].alive))
DeadSourceIsLeft == \A s \in Sessions :
    at[s] = "listed" /\ link[s] /\ Starved(s) ~> at[s] = "gone" \/ ~link[s]

\* A connection that comes back is a viewer again (WebRtcSession.hpp:1256):
\* the watchdog has no reason to collect it before time has passed.
RecoveredIsKept ==
    [][\A s \in Web : Connected(s) => ~Expired(s)']_viewersVars

=============================================================================
