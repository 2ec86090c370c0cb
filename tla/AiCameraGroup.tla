--------------------------- MODULE AiCameraGroup ---------------------------
(***************************************************************************)
(* The AI runtime of one camera: its CameraGroup in src/ai/AiManager.hpp    *)
(* with the pipeline of src/ai/pipeline/AiCameraPipeline.hpp and the motion *)
(* detector that rides on it.                                              *)
(*                                                                         *)
(* Three threads.  Whoever calls AiManager holds m_mutex for the whole call *)
(* and tears the runtime down and up again inside it.  The pipeline thread  *)
(* builds the GStreamer pipeline and runs a main loop of its own for bus    *)
(* messages, the watchdog and the reconnect timer.  The appsink thread      *)
(* hands frames to the jobs and to the detector, and through the detector's *)
(* sink may end up in AiManager::grabMotionJpeg, which wants m_mutex.       *)
(*                                                                         *)
(* Abstracted: what is in a frame, model inference, the publisher, the      *)
(* backoff delay (the timer may fire at any time), the grid and URI of a    *)
(* camera (a setting either differs from the one before or does not).      *)
(***************************************************************************)
EXTENDS Naturals

CONSTANTS
    Jobs,            \* AI jobs somebody may configure for the camera
    MotionUsed,      \* whether anybody enables motion detection
    WarmupFrames,    \* kWarmupFrames
    StaleTicks       \* kStaleUs in watchdog periods

ASSUME SwitchAssumption == MotionUsed \in BOOLEAN
ASSUME CountAssumption  == WarmupFrames \in Nat /\ StaleTicks \in Nat

VARIABLES
    started,        \* m_started
    group,          \* the camera has a CameraGroup
    desired,        \* its jobConfigs
    motionEnabled,  \* its motionEnabled
    manager,        \* "free", or where the holder of m_mutex is
    goal,           \* what the holder does after the teardown
    liveJobs,       \* group.jobs: the workers that exist
    detector,       \* group.motion exists
    pipeJobs,       \* m_jobs of the pipeline: borrowed pointers to workers
    pipeMotion,     \* its m_motionSink is set: a borrowed detector
    running,        \* its m_running
    thread,         \* where the pipeline thread is; "none": no pipeline
    loop,           \* its GMainLoop: "null", "new", "running" or "quit"
    playing,        \* m_pipeline is set, its bus watched
    source,         \* where its frames come from: "none", "own" (rtspsrc),
                    \* "shared" (bridge attached), "stale" (a shared source
                    \* that has died), "broken" (it could not be built)
    watchdog,       \* the watchdog is armed
    quiet,          \* watchdog periods since the last frame
    scheduled,      \* m_reconnectScheduled
    timer,          \* the reconnect timer is armed
    warmup,         \* m_warmupRemaining
    appsink,        \* where the appsink thread is
    camera,         \* the camera is up
    shared,         \* the registry holds a live shared source for it
    wantMotion      \* history: the camera's last motion setting

groupVars    == <<started, group, desired, motionEnabled, wantMotion>>
managerVars  == <<manager, goal>>
runtimeVars  == <<liveJobs, detector, pipeJobs, pipeMotion>>
pipelineVars == <<running, thread, loop, playing, source, watchdog, quiet,
                  scheduled, timer, warmup>>
worldVars    == <<camera, shared>>
vars == <<groupVars, managerVars, runtimeVars, pipelineVars, appsink, worldVars>>

Init ==
    /\ started = TRUE /\ group = FALSE /\ desired = {}
    /\ motionEnabled = FALSE /\ wantMotion = FALSE
    /\ manager = "free" /\ goal = "rebuild"
    /\ liveJobs = {} /\ detector = FALSE /\ pipeJobs = {} /\ pipeMotion = FALSE
    /\ running = FALSE /\ thread = "none" /\ loop = "null"
    /\ playing = FALSE /\ source = "none"
    /\ watchdog = FALSE /\ quiet = 0
    /\ scheduled = FALSE /\ timer = FALSE /\ warmup = WarmupFrames
    /\ appsink = "idle"
    /\ camera \in BOOLEAN /\ shared = FALSE

-----------------------------------------------------------------------------
(* Calls of AiManager.  A call that changes the group goes on to            *)
(* stopGroupRuntime with m_mutex held; one that does not is over at once.   *)

Enter(newGoal) == manager' = "jobs" /\ goal' = newGoal

CallUnchanged == UNCHANGED <<runtimeVars, pipelineVars, appsink, worldVars>>

applyJob(j) ==
    /\ manager = "free" /\ started
    /\ group' = TRUE
    /\ desired' = desired \cup {j}
    /\ Enter("rebuild")
    /\ UNCHANGED <<started, motionEnabled, wantMotion>>
    /\ CallUnchanged

\* Only the jobs decide whether the group is dropped.
removeJob(j) ==
    /\ manager = "free" /\ started /\ group
    /\ desired' = desired \ {j}
    /\ Enter(IF desired' = {} THEN "erase" ELSE "rebuild")
    /\ UNCHANGED <<started, group, motionEnabled, wantMotion>>
    /\ CallUnchanged

\* The same grid and URI as before: no rebuild.
KeptWhenUnchanged == motionEnabled

EnableMotion ==
    /\ MotionUsed /\ manager = "free" /\ started
    /\ group' = TRUE /\ motionEnabled' = TRUE /\ wantMotion' = TRUE
    /\ \/ Enter("rebuild")
       \/ KeptWhenUnchanged /\ UNCHANGED managerVars
    /\ UNCHANGED <<started, desired>>
    /\ CallUnchanged

DisableRebuilds == TRUE

DisableMotion ==
    /\ manager = "free" /\ started /\ wantMotion
    /\ wantMotion' = FALSE
    /\ IF group /\ motionEnabled
       THEN /\ motionEnabled' = FALSE
            /\ IF DisableRebuilds
               THEN Enter(IF desired = {} THEN "erase" ELSE "rebuild")
               ELSE UNCHANGED managerVars
       ELSE UNCHANGED <<motionEnabled, managerVars>>
    /\ UNCHANGED <<started, group, desired>>
    /\ CallUnchanged

\* The camera was deleted, and its motion setting with it.
removeCamera ==
    /\ manager = "free" /\ started /\ group
    /\ wantMotion' = FALSE
    /\ Enter("erase")
    /\ UNCHANGED <<started, group, desired, motionEnabled>>
    /\ CallUnchanged

stop ==
    /\ manager = "free" /\ started
    /\ started' = FALSE
    /\ Enter("erase")
    /\ UNCHANGED <<group, desired, motionEnabled, wantMotion>>
    /\ CallUnchanged

-----------------------------------------------------------------------------
(* stopGroupRuntime, and rebuildLocked after it.                            *)

\* job->stop() joins the worker; then the jobs are destroyed.
StopJobs ==
    /\ manager = "jobs"
    /\ manager' = "pipeline"
    /\ liveJobs' = {}
    /\ UNCHANGED <<groupVars, goal, detector, pipeJobs, pipeMotion, pipelineVars,
                   appsink, worldVars>>

\* AiCameraPipeline::stop: lower m_running, quit the loop if there is one.
\* g_main_loop_run sets the flag that g_main_loop_quit clears, so to quit a
\* loop that is not running yet does nothing.
Quit == loop' = IF loop = "running" THEN "quit" ELSE loop

DetectorDropped == detector' = FALSE
DetectorKept    == UNCHANGED detector

StopPipeline ==
    /\ manager = "pipeline"
    /\ manager' = "join"
    /\ running' = FALSE
    /\ Quit
    /\ DetectorKept
    /\ UNCHANGED <<groupVars, goal, liveJobs, pipeJobs, pipeMotion, thread,
                   playing, source, watchdog, quiet, scheduled, timer, warmup,
                   appsink, worldVars>>

\* m_thread.join(), then the pipeline and the detector are destroyed.
JoinPipeline ==
    /\ manager = "join"
    /\ thread \in {"none", "done"}
    /\ manager' = "finish"
    /\ thread' = "none" /\ loop' = "null"
    /\ timer' = FALSE /\ scheduled' = FALSE
    /\ detector' = FALSE /\ pipeJobs' = {} /\ pipeMotion' = FALSE
    /\ UNCHANGED <<groupVars, goal, liveJobs, running, playing, source, watchdog,
                   quiet, warmup, appsink, worldVars>>

EraseGroup ==
    /\ manager = "finish" /\ goal = "erase"
    /\ manager' = "free"
    /\ group' = FALSE /\ desired' = {} /\ motionEnabled' = FALSE
    /\ UNCHANGED <<started, wantMotion, goal>>
    /\ CallUnchanged

\* A job that is disabled or whose model does not load is skipped.
Rebuild ==
    /\ manager = "finish" /\ goal = "rebuild"
    /\ manager' = "free"
    /\ \E loaded \in SUBSET desired :
          /\ liveJobs' = loaded /\ pipeJobs' = loaded
          /\ running' = (loaded # {} \/ motionEnabled)
    /\ detector' = motionEnabled /\ pipeMotion' = motionEnabled
    /\ thread' = IF running' THEN "enter" ELSE "none"
    /\ UNCHANGED <<groupVars, goal, loop, playing, source, watchdog, quiet,
                   scheduled, timer, warmup, appsink, worldVars>>

ManagerStep ==
    StopJobs \/ StopPipeline \/ JoinPipeline \/ EraseGroup \/ Rebuild

-----------------------------------------------------------------------------
(* The pipeline thread.                                                    *)

PipelineUnchanged == UNCHANGED <<groupVars, managerVars, runtimeVars, worldVars>>

\* run(): make the loop, and build before running it.
EnterThread ==
    /\ thread = "enter"
    /\ thread' = "build"
    /\ loop' = "new"
    /\ PipelineUnchanged
    /\ UNCHANGED <<running, playing, source, watchdog, quiet, scheduled, timer,
                   warmup, appsink>>

\* Where buildAndStart, or the reconnect it scheduled, returns to.
Return == thread' = IF loop = "new" THEN "run" ELSE "loop"

\* buildAndStart, with the bridge attached after PLAYING if the registry had a
\* live source.
Build ==
    /\ thread = "build"
    /\ Return
    /\ playing' = TRUE
    /\ source' = IF shared THEN "shared" ELSE "own"
    /\ watchdog' = TRUE /\ quiet' = 0 /\ warmup' = WarmupFrames
    /\ PipelineUnchanged
    /\ UNCHANGED <<running, loop, scheduled, timer, appsink>>

\* gst_parse_launch returns nothing: no pipeline, no watchdog, no reconnect.
ParseFails ==
    /\ thread = "build"
    /\ Return
    /\ source' = "broken"
    /\ PipelineUnchanged
    /\ UNCHANGED <<running, loop, playing, watchdog, quiet, scheduled, timer,
                   warmup, appsink>>

\* scheduleReconnect, up to its teardown: one reconnect at a time.
MayReconnect == running /\ ~scheduled

ScheduleReconnect ==
    IF MayReconnect
    THEN scheduled' = TRUE /\ thread' = "reDetach"
    ELSE scheduled' = scheduled /\ Return

\* The state change to PLAYING fails.
StartFails ==
    /\ thread = "build"
    /\ playing' = TRUE /\ warmup' = WarmupFrames
    /\ ScheduleReconnect
    /\ PipelineUnchanged
    /\ UNCHANGED <<running, loop, source, watchdog, quiet, timer, appsink>>

RunLoop ==
    /\ thread = "run"
    /\ thread' = "loop"
    /\ loop' = "running"
    /\ PipelineUnchanged
    /\ UNCHANGED <<running, playing, source, watchdog, quiet, scheduled, timer,
                   warmup, appsink>>

InLoop == thread = "loop" /\ loop = "running"

\* onBus: an ERROR or EOS message.
BusError ==
    /\ InLoop /\ playing
    /\ ScheduleReconnect
    /\ PipelineUnchanged
    /\ UNCHANGED <<running, loop, playing, source, watchdog, quiet, timer, warmup,
                   appsink>>

Flowing ==
    /\ playing /\ camera
    /\ source \in {"own", "shared"}

\* onWatchdog.  A flowing source delivers between two ticks, unless the appsink
\* thread is stuck at m_mutex.
Starved == quiet = StaleTicks
Fed     == Flowing /\ (appsink = "grab" => manager = "free")

SharedIgnored == FALSE
SharedReady   == source \notin {"shared", "stale"} /\ shared

Watchdog ==
    /\ InLoop /\ watchdog
    /\ IF running /\ (Starved \/ SharedReady)
       THEN watchdog' = FALSE /\ quiet' = quiet /\ ScheduleReconnect
       ELSE /\ watchdog' = running
            /\ quiet' = IF Fed \/ ~running THEN 0 ELSE quiet + 1
            /\ UNCHANGED <<scheduled, thread>>
    /\ PipelineUnchanged
    /\ UNCHANGED <<running, loop, playing, source, timer, warmup, appsink>>

KeepsScheduled   == UNCHANGED scheduled
ReopensScheduled == scheduled' = FALSE

\* onReconnect.
ReconnectTimer ==
    /\ InLoop /\ timer
    /\ timer' = FALSE
    /\ ReopensScheduled
    /\ thread' = IF running THEN "build" ELSE "loop"
    /\ PipelineUnchanged
    /\ UNCHANGED <<running, loop, playing, source, watchdog, quiet, warmup, appsink>>

ExitLoop ==
    /\ thread = "loop" /\ loop = "quit"
    /\ thread' = "endDetach"
    /\ PipelineUnchanged
    /\ UNCHANGED <<running, loop, playing, source, watchdog, quiet, scheduled,
                   timer, warmup, appsink>>

\* teardown(): detach the bridge, remove watchdog and bus watch ...
Detach ==
    /\ thread \in {"reDetach", "endDetach"}
    /\ thread' = IF thread = "reDetach" THEN "reNull" ELSE "endNull"
    /\ source' = IF source = "own" THEN "own" ELSE "none"
    /\ watchdog' = FALSE
    /\ PipelineUnchanged
    /\ UNCHANGED <<running, loop, playing, quiet, scheduled, timer, warmup, appsink>>

\* ... and take the pipeline to NULL, which waits for the appsink callback.
\* After it scheduleReconnect arms the timer, and run() returns.
NullAtOnce   == TRUE
AppsinkIsOut == appsink = "idle"

SetNull ==
    /\ thread \in {"reNull", "endNull"}
    /\ AppsinkIsOut
    /\ playing' = FALSE /\ source' = "none"
    /\ IF thread = "reNull" THEN timer' = TRUE /\ loop' = loop /\ Return
       ELSE timer' = timer /\ loop' = "null" /\ thread' = "done"
    /\ PipelineUnchanged
    /\ UNCHANGED <<running, watchdog, quiet, scheduled, warmup, appsink>>

ThreadStep ==
    \/ EnterThread \/ Build \/ RunLoop
    \/ Watchdog \/ ReconnectTimer \/ ExitLoop \/ Detach \/ SetNull

-----------------------------------------------------------------------------
(* The appsink thread.                                                     *)

AppsinkUnchanged ==
    UNCHANGED <<groupVars, managerVars, runtimeVars, running, thread, loop,
                playing, source, watchdog, scheduled, timer, worldVars>>

\* onNewSample: nothing once stop() is requested, nothing while the decoder
\* warms up, nothing when neither a job nor the detector is due.
Frame ==
    /\ Flowing /\ appsink = "idle"
    /\ quiet' = 0
    /\ IF running /\ warmup > 0
       THEN warmup' = warmup - 1 /\ appsink' = "idle"
       ELSE /\ warmup' = warmup
            /\ appsink' \in IF running THEN {"idle", "jobs"} ELSE {"idle"}
    /\ AppsinkUnchanged

\* Ask every job, build the frames, submit them.
FeedJobs ==
    /\ appsink = "jobs"
    /\ appsink' \in {"idle"} \cup IF pipeMotion THEN {"motion"} ELSE {}
    /\ UNCHANGED <<quiet, warmup>>
    /\ AppsinkUnchanged

\* MotionDetector::submit, whose sink leads to CameraRecordingSession: the
\* first frame of an event takes a snapshot.
FeedDetector ==
    /\ appsink = "motion"
    /\ appsink' \in {"idle", "grab"}
    /\ UNCHANGED <<quiet, warmup>>
    /\ AppsinkUnchanged

grabMotionJpeg ==
    /\ appsink = "grab"
    /\ manager = "free"
    /\ appsink' = "idle"
    /\ UNCHANGED <<quiet, warmup>>
    /\ AppsinkUnchanged

AppsinkStep == Frame \/ FeedJobs \/ FeedDetector \/ grabMotionJpeg

-----------------------------------------------------------------------------
(* The camera and its shared source.                                       *)

CameraChanges ==
    /\ camera' = ~camera
    /\ UNCHANGED <<groupVars, managerVars, runtimeVars, pipelineVars, appsink, shared>>

\* Recording or a viewer opens a shared source; it dies with the connection.
SharedChanges ==
    /\ shared' = ~shared
    /\ source' = IF shared /\ source = "shared" THEN "stale" ELSE source
    /\ UNCHANGED <<groupVars, managerVars, runtimeVars, running, thread, loop,
                   playing, watchdog, quiet, scheduled, timer, warmup, appsink,
                   camera>>

-----------------------------------------------------------------------------
Call ==
    \/ \E j \in Jobs : applyJob(j) \/ removeJob(j)
    \/ EnableMotion \/ DisableMotion \/ removeCamera \/ stop

\* What comes from outside the runtime.
Disturbance ==
    Call \/ CameraChanges \/ SharedChanges \/ BusError \/ ParseFails \/ StartFails

Next == ManagerStep \/ ThreadStep \/ AppsinkStep \/ Disturbance

Spec == Init /\ [][Next]_vars

\* Threads run; GLib dispatches a due source; a pipeline on its way to NULL
\* flushes its pads, so that frames cannot keep it from getting there.
Fairness ==
    /\ WF_vars(ManagerStep) /\ WF_vars(ThreadStep) /\ WF_vars(AppsinkStep)
    /\ SF_vars(SetNull)

FairSpec == Spec /\ Fairness

-----------------------------------------------------------------------------
(* Properties.                                                             *)

TypeOK ==
    /\ started \in BOOLEAN /\ group \in BOOLEAN /\ desired \subseteq Jobs
    /\ motionEnabled \in BOOLEAN /\ wantMotion \in BOOLEAN
    /\ manager \in {"free", "jobs", "pipeline", "join", "finish"}
    /\ goal \in {"rebuild", "erase"}
    /\ liveJobs \subseteq Jobs /\ pipeJobs \subseteq Jobs
    /\ detector \in BOOLEAN /\ pipeMotion \in BOOLEAN
    /\ running \in BOOLEAN
    /\ thread \in {"none", "enter", "build", "run", "loop", "reDetach", "reNull",
                   "endDetach", "endNull", "done"}
    /\ loop \in {"null", "new", "running", "quit"}
    /\ playing \in BOOLEAN
    /\ source \in {"none", "own", "shared", "stale", "broken"}
    /\ watchdog \in BOOLEAN /\ quiet \in 0..StaleTicks
    /\ scheduled \in BOOLEAN /\ timer \in BOOLEAN
    /\ warmup \in 0..WarmupFrames
    /\ appsink \in {"idle", "jobs", "motion", "grab"}
    /\ camera \in BOOLEAN /\ shared \in BOOLEAN

\* AiManager.hpp:291: the detector, which the appsink thread calls through a
\* plain pointer, outlives every such call.
DetectorOutlivesCalls == appsink \in {"motion", "grab"} => detector

\* When nobody is inside AiManager, what runs is what the group asks for: the
\* pipeline feeds exactly the workers that exist, has a detector exactly if
\* motion is enabled, and there is no pipeline without a consumer.
RuntimeMatchesGroup ==
    manager = "free" =>
        /\ pipeJobs = liveJobs /\ liveJobs \subseteq desired
        /\ pipeMotion = motionEnabled /\ detector = motionEnabled
        /\ running <=> (liveJobs # {} \/ motionEnabled)
        /\ running => thread \notin {"none", "done"}

\* AiCameraPipeline.hpp:580: the backoff counter and the reconnect flag need no
\* lock: while a reconnect waits, no pipeline is left to call the appsink.
ReconnectIsExclusive ==
    timer => scheduled /\ ~playing /\ appsink = "idle" /\ ~watchdog

\* A pipeline in its loop is never forgotten: either a watchdog looks after a
\* built pipeline, or a reconnect is due.  (With a GStreamer plugin missing the
\* pipeline cannot be built at all, and the code gives up.)
NeverForgotten ==
    InLoop /\ running => (playing /\ watchdog) \/ timer \/ source = "broken"

\* Left alone, with the camera up, a running group gets frames again, whatever
\* broke before: its own source, a shared one, the camera.
Quiet == <>[][~Disturbance]_vars
Works == running /\ source # "broken"
FramesRecover == (Quiet /\ <>[](camera /\ Works)) => <>[]Flowing

\* ... and over the shared connection, when there is one: the camera does not
\* keep being pulled twice.
SharedIsPreferred ==
    (Quiet /\ <>[](camera /\ Works /\ shared)) => <>[](source = "shared")

\* Between calls the runtime is the one asked for, and at no time is its
\* reconnect lost or run beside a live pipeline.
RuntimeIsSound ==
    TypeOK /\ RuntimeMatchesGroup /\ ReconnectIsExclusive /\ NeverForgotten
=============================================================================
