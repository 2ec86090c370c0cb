------------------------ MODULE CameraStreamSession ------------------------
(***************************************************************************)
(* The life cycle of one camera stream: src/service/CameraStreamSession.hpp *)
(* with the part of GStreamerService that calls it.                        *)
(*                                                                         *)
(* A session is a mutex, the fields it guards and nobody in particular to  *)
(* run it: HTTP threads call restart/stop/cleanup, the GLib loop thread    *)
(* runs timer and bus callbacks, and the callbacks detach threads that run *)
(* start() or runHealthProbe(), both of which block for seconds on a probe *)
(* of the camera with no lock held.  One step of this module is one        *)
(* critical section of m_mutex, one blocking call, or one callback         *)
(* dispatch; everything between two steps is where another thread can run. *)
(*                                                                         *)
(* Abstracted: the text of errors, the retry delay (a timer may fire at    *)
(* any time), the GStreamer pipelines behind a mount, and the recording    *)
(* session, of which only "exists / is running" is kept.                   *)
(***************************************************************************)
EXTENDS Naturals, FiniteSets

CONSTANTS
    Threads,        \* HTTP threads and detached threads that exist at once
    Loop,           \* the thread that runs GStreamerService's GMainLoop
    Verdicts,       \* what the camera can be, and so what a probe can find
    MaxForgotten,   \* bound: timers armed whose id nobody remembers
    HealthEnabled,  \* healthCheckIntervalMs # 0
    StatusSink      \* a status sink is set, and told of every change

Playable == {"h264", "h265"}

ASSUME ActorsAssumption == Loop \notin Threads
ASSUME VerdictAssumption ==
    /\ Verdicts \subseteq Playable \cup {"unsupported", "auth", "down"}
    /\ "down" \in Verdicts
ASSUME BoundAssumption  == MaxForgotten \in Nat
ASSUME HealthAssumption == HealthEnabled \in BOOLEAN
ASSUME SinkAssumption   == StatusSink \in BOOLEAN

Actors == Threads \cup {Loop}

StreamStates == {"stopped", "starting", "running", "reconnecting",
                 "auth_error", "unsupported_codec"}
Codecs == Playable \cup {"unknown", "unsupported"}

\* The three values of StreamState the outside world is told (toString).
Reported == {"online", "offline", "error"}
CoarseVerbose(s) == s
Coarse(s) == CASE s = "running" -> "online"
               [] s \in {"auth_error", "unsupported_codec"} -> "error"
               [] OTHER -> "offline"

VARIABLES
    state,        \* m_state
    codec,        \* m_codec
    factory,      \* m_factory is set: the mount point is published
    watch,        \* a bus watch of a published media is attached
    configuring,  \* onMediaConfigure is running in the RTSP server
    timer,        \* the reconnect timer m_reconnectSourceId names: "none",
                  \* "armed", or "fired" (dispatched, id not yet forgotten)
    forgotten,    \* number of armed reconnect timers no id names any more
    healthArmed,  \* m_healthCheckSourceId # 0, and that timer is armed
    inFlight,     \* m_healthProbeInFlight
    recording,    \* m_recording is set
    registered,   \* GStreamerService::m_sessions still holds the session
    camera,       \* the camera itself
    pc,           \* where each thread is
    probe,        \* ProbeResult each thread carries
    rec,          \* a recording session each thread alone holds, running
    snap,         \* the snapshot each thread is about to hand to the sink
    reported      \* the last state the status sink delivered

sessionVars == <<state, codec, factory, watch, timer, forgotten,
                 healthArmed, inFlight, recording>>
threadVars  == <<pc, probe, rec, snap>>
vars == <<sessionVars, threadVars, configuring, registered, camera, reported>>

-----------------------------------------------------------------------------
(* Program counters.  s*: start(), r*: restart() before start(), t*: stop() *)
(* and cleanup(), a*: markAuthError, mMark and hMark: markTransientError    *)
(* (hMark when the health probe calls it), h*: the health probe, n*: the    *)
(* closing notifyStatusChanged, cb*: a GLib callback.                       *)

\* The lock sections that start(), stop(), cleanup(), restart() and
\* markAuthError share, each with the section that follows it.
After == [rTake |-> "rDrop",  rDrop   |-> "sTimer",
          sTimer |-> "sHealth", sHealth |-> "sTake",
          sTake |-> "sDrop",  sDrop   |-> "sStarting",
          tTimer |-> "tHealth", tHealth |-> "tTake",
          tTake |-> "tDrop",  tDrop   |-> "tStopped",
          aTimer |-> "aMark",
          sSnap |-> "sSend",  sSend   |-> "sProbe",
          nSnap |-> "nSend",  nSend   |-> "idle",
          sProbe |-> "sResult", hProbe |-> "hCheck"]

Labels == DOMAIN After \cup
          {"idle", "sStarting", "sResult", "sRecord", "sKeep", "tStopped",
           "aMark", "mMark", "hMark", "hCheck", "hCodec", "cbReconnect", "cbHealth"}

Timers == {"none", "armed", "fired"}

Goto(a, label) == pc' = [pc EXCEPT ![a] = label]
Advance(a)     == Goto(a, After[pc[a]])

Idle(a)          == pc[a] = "idle"
Launch(a, label) == Idle(a) /\ Goto(a, label)

\* Some shared_ptr to the session is left, so a weak_ptr can be locked.
Alive == registered \/ configuring \/ \E a \in Actors : ~Idle(a)

Init ==
    /\ state = "stopped" /\ codec = "unknown"
    /\ factory = FALSE /\ watch = FALSE /\ configuring = FALSE
    /\ timer = "none" /\ forgotten = 0
    /\ healthArmed = FALSE /\ inFlight = FALSE
    /\ recording = FALSE
    /\ registered = TRUE
    /\ camera \in Verdicts
    /\ pc = [a \in Actors |-> "idle"]
    /\ probe = [a \in Actors |-> "down"]
    /\ rec = [a \in Actors |-> FALSE]
    /\ snap = [a \in Actors |-> "offline"]
    /\ reported = "offline"

-----------------------------------------------------------------------------
(* Requests (GStreamerService::startCamera, stopCamera, cleanupCamera).     *)

RequestRestart(t) ==
    /\ registered
    /\ Launch(t, "rTake")
    /\ UNCHANGED <<sessionVars, probe, rec, snap, configuring, registered,
                   camera, reported>>

RequestStop(t) ==
    /\ registered
    /\ Launch(t, "tTimer")
    /\ UNCHANGED <<sessionVars, probe, rec, snap, configuring, registered,
                   camera, reported>>

\* The session leaves the map before cleanup() runs; threads that looked it
\* up earlier go on with it.
RequestCleanup(t) ==
    /\ registered
    /\ Launch(t, "tTimer")
    /\ registered' = FALSE
    /\ UNCHANGED <<sessionVars, probe, rec, snap, configuring, camera, reported>>

-----------------------------------------------------------------------------
(* Shared lock sections.                                                   *)

StopReconnectTimer(a) ==
    /\ pc[a] \in {"sTimer", "tTimer", "aTimer"}
    /\ Advance(a)
    /\ timer' = "none"
    /\ UNCHANGED <<state, codec, factory, watch, forgotten, healthArmed,
                   inFlight, recording, probe, rec, snap, configuring, registered,
                   camera, reported>>

StopHealthCheckTimer(a) ==
    /\ pc[a] \in {"sHealth", "tHealth"}
    /\ Advance(a)
    /\ healthArmed' = FALSE
    /\ UNCHANGED <<state, codec, factory, watch, timer, forgotten, inFlight,
                   recording, probe, rec, snap, configuring, registered,
                   camera, reported>>

\* stopRecordingLockedFree: the pointer is taken under the lock ...
TakeRecording(a) ==
    /\ pc[a] \in {"rTake", "sTake", "tTake"}
    /\ Advance(a)
    /\ rec' = [rec EXCEPT ![a] = recording]
    /\ recording' = FALSE
    /\ UNCHANGED <<state, codec, factory, watch, timer, forgotten,
                   healthArmed, inFlight, probe, snap, configuring,
                   registered, camera, reported>>

\* ... and the recording stopped outside it.
StopTakenRecording(a) ==
    /\ pc[a] \in {"rDrop", "sDrop", "tDrop"}
    /\ Advance(a)
    /\ rec' = [rec EXCEPT ![a] = FALSE]
    /\ UNCHANGED <<sessionVars, probe, snap, configuring, registered, camera,
                   reported>>

\* cleanupMountLocked.
CleanupMountKeepsWatches == factory' = FALSE /\ UNCHANGED watch
CleanupMount == factory' = FALSE /\ watch' = FALSE

\* scheduleHealthCheckLocked.
ScheduleHealthCheckForgotten == UNCHANGED healthArmed
ScheduleHealthCheck == healthArmed' = HealthEnabled

\* scheduleReconnectLocked replaces the timer the id names, and no other.
ScheduleReconnectForgotten == timer' = "none"
ScheduleReconnect == timer' = "armed"

\* notifyStatusChanged: snapshot() under the lock, the sink call outside it.
TakeSnapshot(a) ==
    /\ StatusSink
    /\ pc[a] \in {"sSnap", "nSnap"}
    /\ Advance(a)
    /\ snap' = [snap EXCEPT ![a] = Coarse(state)]
    /\ UNCHANGED <<sessionVars, probe, rec, configuring, registered, camera,
                   reported>>

\* Without a sink it returns at once.
SkipNotification(a) ==
    /\ ~StatusSink
    /\ pc[a] \in {"sSnap", "nSnap"}
    /\ Goto(a, IF pc[a] = "sSnap" THEN "sProbe" ELSE "idle")
    /\ UNCHANGED <<sessionVars, probe, rec, snap, configuring, registered,
                   camera, reported>>

DeliverSnapshot(a) ==
    /\ pc[a] \in {"sSend", "nSend"}
    /\ Advance(a)
    /\ reported' = snap[a]
    /\ snap' = [snap EXCEPT ![a] = "offline"]
    /\ UNCHANGED <<sessionVars, probe, rec, configuring, registered, camera>>

-----------------------------------------------------------------------------
(* start()                                                                 *)

TakeDown(a, from, to, newState) ==
    /\ pc[a] = from
    /\ Goto(a, to)
    /\ CleanupMount
    /\ state' = newState
    /\ UNCHANGED <<codec, timer, forgotten, healthArmed, inFlight, recording,
                   probe, rec, snap, configuring, registered, camera, reported>>

EnterStarting(a) == TakeDown(a, "sStarting", "sSnap", "starting")

\* probeCodec blocks for up to 7 seconds; what it saw is acted on later.
ProbeCodec(a) ==
    /\ pc[a] \in {"sProbe", "hProbe"}
    /\ Advance(a)
    /\ probe' = [probe EXCEPT ![a] = camera]
    /\ UNCHANGED <<sessionVars, rec, snap, configuring, registered, camera,
                   reported>>

\* The state writes of start() with no mount: authentication, codec.
StartFails(a, verdict, newState, newCodec) ==
    /\ pc[a] = "sResult"
    /\ probe[a] = verdict
    /\ Goto(a, "nSnap")
    /\ state' = newState
    /\ codec' = newCodec
    /\ probe' = [probe EXCEPT ![a] = "down"]
    /\ UNCHANGED <<factory, watch, timer, forgotten, healthArmed, inFlight,
                   recording, rec, snap, configuring, registered, camera,
                   reported>>

\* Anything else the probe reports is retried.
StartRetries(a, verdict) ==
    /\ pc[a] = "sResult"
    /\ probe[a] = verdict
    /\ Goto(a, "mMark")
    /\ UNCHANGED <<sessionVars, probe, rec, snap, configuring, registered,
                   camera, reported>>

StartAuthErrorRetried(a) == StartRetries(a, "auth")
StartAuthError(a) == StartFails(a, "auth", "auth_error", "unknown")
StartUnsupported(a) ==
    StartFails(a, "unsupported", "unsupported_codec", "unsupported")
StartTransient(a) == StartRetries(a, "down")

Publish(a) ==
    /\ pc[a] = "sResult"
    /\ probe[a] \in Playable
    /\ Goto(a, "sRecord")
    /\ factory' = TRUE
    /\ codec' = probe[a]
    /\ state' = "running"
    /\ ScheduleHealthCheck
    /\ probe' = [probe EXCEPT ![a] = "down"]
    /\ UNCHANGED <<watch, timer, forgotten, inFlight, recording, rec, snap,
                   configuring, registered, camera, reported>>

\* startRecording, up to session->start(): recording off, no source and a
\* pipeline that does not start all leave m_recording alone.  (The extra
\* notification of the error path is folded into the closing one.)
StartRecording(a) ==
    /\ pc[a] = "sRecord"
    /\ \/ Goto(a, "nSnap") /\ rec' = rec
       \/ Goto(a, "sKeep") /\ rec' = [rec EXCEPT ![a] = TRUE]
    /\ UNCHANGED <<sessionVars, probe, snap, configuring, registered, camera,
                   reported>>

\* m_recording = session; an older recording dies with its last pointer.
KeepRecording(a) ==
    /\ pc[a] = "sKeep"
    /\ Goto(a, "nSnap")
    /\ recording' = TRUE
    /\ rec' = [rec EXCEPT ![a] = FALSE]
    /\ UNCHANGED <<state, codec, factory, watch, timer, forgotten,
                   healthArmed, inFlight, probe, snap, configuring,
                   registered, camera, reported>>

-----------------------------------------------------------------------------
(* stop(), cleanup() and the destructor                                    *)

EnterStopped(a) == TakeDown(a, "tStopped", "nSnap", "stopped")

\* ~CameraStreamSession runs cleanup() when the last shared_ptr goes; no other
\* thread can reach the session any more, so it is one step.
Destroy ==
    /\ ~Alive
    /\ \/ factory \/ recording \/ healthArmed \/ watch
       \/ timer # "none" \/ state # "stopped"
    /\ timer' = "none"
    /\ healthArmed' = FALSE
    /\ recording' = FALSE
    /\ CleanupMount
    /\ state' = "stopped"
    /\ reported' = IF StatusSink THEN Coarse("stopped") ELSE reported
    /\ UNCHANGED <<codec, forgotten, inFlight, threadVars, configuring,
                   registered, camera>>

-----------------------------------------------------------------------------
(* markAuthError and markTransientError                                    *)

MarkAuthError(a) ==
    /\ pc[a] = "aMark"
    /\ Goto(a, "nSnap")
    /\ CleanupMount
    /\ healthArmed' = FALSE
    /\ state' = "auth_error"
    /\ UNCHANGED <<codec, timer, forgotten, inFlight, recording, probe, rec,
                   snap, configuring, registered, camera, reported>>

MarkTransientError(a) ==
    /\ pc[a] \in {"mMark", "hMark"}
    /\ Goto(a, "nSnap")
    /\ CleanupMount
    /\ healthArmed' = FALSE
    /\ state' = "reconnecting"
    /\ ScheduleReconnect
    /\ UNCHANGED <<codec, forgotten, inFlight, recording, probe, rec, snap,
                   configuring, registered, camera, reported>>

-----------------------------------------------------------------------------
(* GLib callbacks, on the loop thread.  A callback locks its weak_ptr first *)
(* and does nothing when the session is gone.  Being dispatched and taking  *)
(* the mutex are two steps: the source can be removed in between.           *)

\* Bound: with MaxForgotten timers forgotten, one of those is due first.
DispatchReconnect ==
    /\ Alive
    /\ Launch(Loop, "cbReconnect")
    /\ \/ /\ timer = "armed" /\ forgotten < MaxForgotten
          /\ timer' = "fired" /\ forgotten' = forgotten
       \/ /\ forgotten > 0
          /\ forgotten' = forgotten - 1 /\ timer' = timer
    /\ UNCHANGED <<state, codec, factory, watch, healthArmed, inFlight,
                   recording, probe, rec, snap, configuring, registered,
                   camera, reported>>

\* onReconnectTimeout clears m_reconnectSourceId, which names another timer
\* by now if an error was marked since the dispatch; then it detaches a
\* thread that runs start().
ReconnectCallback ==
    /\ pc[Loop] = "cbReconnect"
    /\ timer' = "none"
    /\ forgotten' = forgotten + IF timer = "armed" THEN 1 ELSE 0
    /\ \E t \in Threads :
          /\ Idle(t)
          /\ pc' = [pc EXCEPT ![Loop] = "idle", ![t] = "sTimer"]
    /\ UNCHANGED <<state, codec, factory, watch, healthArmed, inFlight,
                   recording, probe, rec, snap, configuring, registered,
                   camera, reported>>

DispatchHealthCheck ==
    /\ Alive /\ healthArmed
    /\ Launch(Loop, "cbHealth")
    /\ UNCHANGED <<sessionVars, probe, rec, snap, configuring, registered,
                   camera, reported>>

\* onHealthCheckTick: only a running stream, only one probe at a time.
MayProbeAgain == state = "running"
MayProbe == state = "running" /\ ~inFlight

HealthCheckCallback ==
    /\ pc[Loop] = "cbHealth"
    /\ IF MayProbe
       THEN /\ inFlight' = TRUE
            /\ \E t \in Threads :
                  /\ Idle(t)
                  /\ pc' = [pc EXCEPT ![Loop] = "idle", ![t] = "hProbe"]
       ELSE Goto(Loop, "idle") /\ inFlight' = inFlight
    /\ UNCHANGED <<state, codec, factory, watch, timer, forgotten,
                   healthArmed, recording, probe, rec, snap, configuring,
                   registered, camera, reported>>

\* onMediaBusMessage: an ERROR, classified by its text, or an EOS.
MediaError ==
    /\ Alive
    /\ watch
    /\ \E label \in {"aTimer", "mMark"} : Launch(Loop, label)
    /\ watch' = FALSE
    /\ UNCHANGED <<state, codec, factory, timer, forgotten, healthArmed,
                   inFlight, recording, probe, rec, snap, configuring,
                   registered, camera, reported>>

\* onMediaConfigure, on a thread of the RTSP server: a viewer connects ...
ConfigureMedia ==
    /\ factory /\ Alive /\ ~configuring
    /\ configuring' = TRUE
    /\ UNCHANGED <<sessionVars, threadVars, registered, camera, reported>>

\* ... and addBusWatch records the watch, whatever happened to the mount.
AddBusWatch ==
    /\ configuring
    /\ configuring' = FALSE
    /\ watch' = TRUE
    /\ UNCHANGED <<state, codec, factory, timer, forgotten, healthArmed,
                   inFlight, recording, threadVars, registered, camera,
                   reported>>

-----------------------------------------------------------------------------
(* runHealthProbe(), after the probe                                       *)

HealthCheck(a) ==
    /\ pc[a] = "hCheck"
    /\ inFlight' = FALSE
    /\ IF state # "running"
       THEN Goto(a, "idle") /\ probe' = [probe EXCEPT ![a] = "down"]
       ELSE IF probe[a] \in Playable
       THEN Goto(a, "hCodec") /\ probe' = probe
       ELSE /\ Goto(a, IF probe[a] = "auth" THEN "aTimer" ELSE "hMark")
            /\ probe' = [probe EXCEPT ![a] = "down"]
    /\ UNCHANGED <<state, codec, factory, watch, timer, forgotten,
                   healthArmed, recording, rec, snap, configuring, registered,
                   camera, reported>>

\* The camera answers, but with another codec than the mount was built for.
CodecUnchecked(a) == FALSE
CodecChanged(a) == probe[a] # codec

HealthCodec(a) ==
    /\ pc[a] = "hCodec"
    /\ Goto(a, IF CodecChanged(a) THEN "hMark" ELSE "idle")
    /\ probe' = [probe EXCEPT ![a] = "down"]
    /\ UNCHANGED <<sessionVars, rec, snap, configuring, registered, camera,
                   reported>>

\* The camera drops, comes back, changes its password or its codec.
CameraChanges ==
    /\ camera' \in Verdicts \ {camera}
    /\ UNCHANGED <<sessionVars, threadVars, configuring, registered, reported>>

-----------------------------------------------------------------------------
Request(t) == RequestRestart(t) \/ RequestStop(t) \/ RequestCleanup(t)

\* Everything a thread does on its own once it has been given something to do.
Step(a) ==
    \/ StopReconnectTimer(a) \/ StopHealthCheckTimer(a)
    \/ TakeRecording(a) \/ StopTakenRecording(a)
    \/ TakeSnapshot(a) \/ DeliverSnapshot(a) \/ SkipNotification(a)
    \/ EnterStarting(a) \/ ProbeCodec(a)
    \/ StartAuthError(a) \/ StartUnsupported(a) \/ StartTransient(a)
    \/ Publish(a) \/ StartRecording(a) \/ KeepRecording(a)
    \/ EnterStopped(a)
    \/ MarkAuthError(a) \/ MarkTransientError(a)
    \/ HealthCheck(a) \/ HealthCodec(a)

Callback == ReconnectCallback \/ HealthCheckCallback

\* What comes from outside the program.
Disturbance == CameraChanges \/ MediaError \/ \E t \in Threads : Request(t)

Next ==
    \/ \E a \in Actors : Step(a)
    \/ DispatchReconnect \/ DispatchHealthCheck \/ Callback
    \/ ConfigureMedia \/ AddBusWatch \/ Destroy
    \/ Disturbance

Spec == Init /\ [][Next]_vars

\* Threads run; GLib dispatches every ready source; a callback that finds all
\* of Threads busy (a bound of the model) gets one when one is free.
Fairness ==
    /\ \A a \in Actors : WF_vars(Step(a))
    /\ SF_vars(DispatchReconnect)
    /\ SF_vars(DispatchHealthCheck)
    /\ SF_vars(Callback)
    /\ WF_vars(AddBusWatch)
    /\ WF_vars(Destroy)

FairSpec == Spec /\ Fairness

-----------------------------------------------------------------------------
(* Properties.                                                             *)

TypeOK ==
    /\ state \in StreamStates
    /\ codec \in Codecs
    /\ factory \in BOOLEAN /\ watch \in BOOLEAN /\ configuring \in BOOLEAN
    /\ timer \in Timers /\ forgotten \in Nat
    /\ healthArmed \in BOOLEAN /\ inFlight \in BOOLEAN
    /\ recording \in BOOLEAN
    /\ registered \in BOOLEAN
    /\ camera \in Verdicts
    /\ pc \in [Actors -> Labels]
    /\ probe \in [Actors -> Verdicts]
    /\ rec \in [Actors -> BOOLEAN]
    /\ snap \in [Actors -> Reported]
    /\ reported \in Reported

\* A stream that calls itself running has its mount published: whatever
\* start, stop, error and health-probe threads interleave, no teardown of the
\* mount leaves the state behind (cleanupMountLocked and m_state are written
\* in one critical section everywhere).
RunningIsPublished == state = "running" => factory /\ codec \in Playable

\* "starting" is never an orphan: some thread is between setting it and
\* replacing it.
Resolving == {"sSnap", "sSend", "sProbe", "sResult", "mMark"}
StartingHasOwner ==
    state = "starting" => \E a \in Actors : pc[a] \in Resolving

\* A reconnecting stream cannot be forgotten: a timer is armed, its callback
\* is running, or the thread that cancelled the timer has yet to write the
\* state it cancelled it for.
Retrying == {"cbReconnect", "sTimer", "sHealth", "sTake", "sDrop", "sStarting",
             "tHealth", "tTake", "tDrop", "tStopped", "aMark"}
ReconnectingHasRetry ==
    state = "reconnecting" =>
        timer = "armed" \/ forgotten > 0 \/ \E a \in Actors : pc[a] \in Retrying

\* A running stream is polled: without the health timer a camera that drops
\* while nobody watches would stay online for ever.
Cancelling == {"sTake", "sDrop", "sStarting", "tTake", "tDrop", "tStopped"}
RunningIsPolled ==
    HealthEnabled /\ state = "running" =>
        healthArmed \/ \E a \in Actors : pc[a] \in Cancelling

\* A stream that calls itself running can be watched and will be checked on.
RunningIsServed == RunningIsPublished /\ RunningIsPolled

\* No stream waits in a state that nothing is going to end.
NothingIsForgotten == StartingHasOwner /\ ReconnectingHasRetry

\* m_healthProbeInFlight admits one probe at a time, and is never left set
\* with no probe to clear it (which would switch the poll off for good).
Probing(a) == pc[a] \in {"hProbe", "hCheck"}
OneHealthProbe ==
    /\ inFlight <=> \E a \in Actors : Probing(a)
    /\ \A a, b \in Actors : Probing(a) /\ Probing(b) => a = b

\* Once requests, viewers' errors and the camera itself leave the session
\* alone and the camera plays, the stream ends up running, unless it was
\* stopped or is in one of the states that wait for a restart.
Quiet == <>[][~Disturbance]_vars
Parked == {"stopped", "auth_error", "unsupported_codec"}
StreamRecovers ==
    (Quiet /\ <>[](camera \in Playable)) =>
        \/ <>[](state \in Parked)
        \/ <>[](state = "running" /\ codec = camera)

\* A wrong password is not hammered: with the camera refusing, the session
\* comes to rest instead of reconnecting over and over.
AuthErrorComesToRest ==
    (Quiet /\ <>[](camera = "auth")) => <>[](state \in Parked)

\* A deleted camera goes down and stays down, even when a start() that was
\* blocked in its probe publishes the mount after cleanup(): provided viewers
\* stop connecting and the threads are all at rest now and then (timers are
\* seconds apart, which a model without time cannot say), the last shared_ptr
\* goes and the destructor takes everything down.
AtRest == ~configuring /\ \A a \in Actors : Idle(a)
Gone   == state = "stopped" /\ ~factory /\ ~watch /\ ~recording /\ AtRest
DeletedGoesDown == []<>AtRest => (~registered ~> []Gone)
=============================================================================
