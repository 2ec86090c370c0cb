------------------------- MODULE AiCameraGroupProofs -------------------------
(* The lifetime of the motion detector and the soundness of the runtime,     *)
(* proved for every set of jobs and every bound of AiCameraGroup.            *)
EXTENDS AiCameraGroup, TLAPS

(* Why it holds.  The detector is destroyed only after the pipeline thread   *)
(* was joined (DetectorOfPipeline), a joined or unstarted thread has no      *)
(* GStreamer pipeline (NoThreadNoPipeline), and a pipeline is taken down only *)
(* while the appsink thread is out of its callback (NoPipelineNoCall).       *)
NoPipelineNoCall   == ~playing => appsink = "idle"
NoThreadNoPipeline == thread \in {"none", "enter", "done"} => ~playing
JoinedIsGone       == manager = "finish" => thread = "none"
CallsHaveSink      == appsink \in {"motion", "grab"} => pipeMotion
DetectorOfPipeline == pipeMotion => detector

IInv ==
    /\ NoPipelineNoCall /\ NoThreadNoPipeline /\ JoinedIsGone
    /\ CallsHaveSink /\ DetectorOfPipeline

(* The initial states satisfy the inductive invariant.                       *)
LEMMA InitIInv == Init => IInv
  BY DEF Init, IInv, NoPipelineNoCall, NoThreadNoPipeline, JoinedIsGone,
         CallsHaveSink, DetectorOfPipeline

(* Calls of AiManager touch neither the pipeline nor the appsink thread.      *)
LEMMA CallIInv == IInv /\ Call => IInv'
<1> SUFFICES ASSUME IInv, Call PROVE IInv'
  OBVIOUS
<1> USE DEF IInv, NoPipelineNoCall, NoThreadNoPipeline, JoinedIsGone,
            CallsHaveSink, DetectorOfPipeline, CallUnchanged, runtimeVars,
            pipelineVars, managerVars, Enter
<1>1. ASSUME NEW j \in Jobs, applyJob(j) PROVE IInv'
  BY <1>1 DEF applyJob
<1>2. ASSUME NEW j \in Jobs, removeJob(j) PROVE IInv'
  BY <1>2 DEF removeJob
<1>3. CASE EnableMotion
  BY <1>3 DEF EnableMotion
<1>4. CASE DisableMotion
  BY <1>4 DEF DisableMotion
<1>5. CASE removeCamera
  BY <1>5 DEF removeCamera
<1>6. CASE stop
  BY <1>6 DEF stop
<1> QED
  BY <1>1, <1>2, <1>3, <1>4, <1>5, <1>6 DEF Call

(* The teardown and the rebuild: the detector goes after the join.           *)
LEMMA ManagerIInv == IInv /\ ManagerStep => IInv'
<1> SUFFICES ASSUME IInv, ManagerStep PROVE IInv'
  OBVIOUS
<1> USE DEF IInv, NoPipelineNoCall, NoThreadNoPipeline, JoinedIsGone,
            CallsHaveSink, DetectorOfPipeline, CallUnchanged, runtimeVars,
            pipelineVars, managerVars
<1>1. CASE StopJobs
  BY <1>1 DEF StopJobs
<1>2. CASE StopPipeline
  BY <1>2 DEF StopPipeline, DetectorKept
<1>3. CASE JoinPipeline
  BY <1>3 DEF JoinPipeline
<1>4. CASE EraseGroup
  BY <1>4 DEF EraseGroup
<1>5. CASE Rebuild
  BY <1>5 DEF Rebuild
<1> QED
  BY <1>1, <1>2, <1>3, <1>4, <1>5 DEF ManagerStep

(* The pipeline thread, with the failures that strike it.                    *)
LEMMA ThreadIInv ==
  IInv /\ (ThreadStep \/ BusError \/ ParseFails \/ StartFails) => IInv'
<1> SUFFICES ASSUME IInv, ThreadStep \/ BusError \/ ParseFails \/ StartFails
             PROVE  IInv'
  OBVIOUS
<1> USE DEF IInv, NoPipelineNoCall, NoThreadNoPipeline, JoinedIsGone,
            CallsHaveSink, DetectorOfPipeline, PipelineUnchanged, runtimeVars,
            managerVars, Return, ScheduleReconnect, InLoop
<1>1. CASE EnterThread
  BY <1>1 DEF EnterThread
<1>2. CASE Build
  BY <1>2 DEF Build
<1>3. CASE RunLoop
  BY <1>3 DEF RunLoop
<1>4. CASE Watchdog
  BY <1>4 DEF Watchdog
<1>5. CASE ReconnectTimer
  BY <1>5 DEF ReconnectTimer
<1>6. CASE ExitLoop
  BY <1>6 DEF ExitLoop
<1>7. CASE Detach
  BY <1>7 DEF Detach
<1>8. CASE SetNull
  BY <1>8 DEF SetNull, AppsinkIsOut
<1>9. CASE BusError
  BY <1>9 DEF BusError
<1>10. CASE ParseFails
  BY <1>10 DEF ParseFails
<1>11. CASE StartFails
  BY <1>11 DEF StartFails
<1> QED
  BY <1>1, <1>2, <1>3, <1>4, <1>5, <1>6, <1>7, <1>8, <1>9, <1>10, <1>11
  DEF ThreadStep

(* The appsink thread, and the world around the pipeline.                    *)
LEMMA AppsinkIInv == IInv /\ AppsinkStep => IInv'
<1> SUFFICES ASSUME IInv, AppsinkStep PROVE IInv'
  OBVIOUS
<1> USE DEF IInv, NoPipelineNoCall, NoThreadNoPipeline, JoinedIsGone,
            CallsHaveSink, DetectorOfPipeline, AppsinkUnchanged, runtimeVars,
            managerVars
<1>1. CASE Frame
  BY <1>1 DEF Frame, Flowing
<1>2. CASE FeedJobs
  BY <1>2 DEF FeedJobs
<1>3. CASE FeedDetector
  BY <1>3 DEF FeedDetector
<1>4. CASE grabMotionJpeg
  BY <1>4 DEF grabMotionJpeg
<1> QED
  BY <1>1, <1>2, <1>3, <1>4 DEF AppsinkStep

(* Every step, and every stutter, preserves the inductive invariant.         *)
LEMMA NextIInv == IInv /\ [Next]_vars => IInv'
<1> SUFFICES ASSUME IInv, [Next]_vars PROVE IInv'
  OBVIOUS
<1> USE DEF IInv, NoPipelineNoCall, NoThreadNoPipeline, JoinedIsGone,
            CallsHaveSink, DetectorOfPipeline, runtimeVars, pipelineVars,
            managerVars
<1>1. CASE CameraChanges
  BY <1>1 DEF CameraChanges
<1>2. CASE SharedChanges
  BY <1>2 DEF SharedChanges
<1>3. CASE UNCHANGED vars
  BY <1>3 DEF vars
<1> QED
  BY <1>1, <1>2, <1>3, CallIInv, ManagerIInv, ThreadIInv, AppsinkIInv
  DEF Next, Disturbance

(* AiManager.hpp:291: in every reachable state, a frame that is on its way    *)
(* through the motion detector finds the detector in place.                  *)
THEOREM DetectorLifetime == Spec => []DetectorOutlivesCalls
<1>1. IInv => DetectorOutlivesCalls
  BY DEF IInv, CallsHaveSink, DetectorOfPipeline, DetectorOutlivesCalls
<1> QED
  BY InitIInv, NextIInv, <1>1, PTL DEF Spec

-----------------------------------------------------------------------------
(* Why the runtime is sound.  A call first ends what ran, step by step (Torn); *)
(* the loop and the thread agree on how far they are, and only a lowered      *)
(* m_running ends them (RunsUntilStopped); a reconnect is either tearing the  *)
(* pipeline down or waits for its timer, alone (ReconnectDue); and a thread   *)
(* that enters its loop has somebody to wake it (LookedAfter).               *)
Torn ==
    /\ manager \in {"pipeline", "join", "finish"} => liveJobs = {}
    /\ manager \in {"join", "finish"} => running = FALSE
    /\ manager = "finish" =>
        thread = "none" /\ pipeJobs = {} /\ pipeMotion = FALSE /\ detector = FALSE

RunsUntilStopped ==
    /\ running = TRUE => thread \notin {"none", "done", "endDetach", "endNull"}
    /\ loop = "null" <=> thread \in {"none", "enter", "done"}
    /\ thread = "run" => loop = "new"
    /\ loop = "new" => thread \in {"build", "run", "reDetach", "reNull"}
    /\ thread \in {"endDetach", "endNull"} => loop = "quit"
    /\ loop = "quit" => running = FALSE

ReconnectDue ==
    /\ timer = TRUE => thread \in {"run", "loop", "endDetach", "endNull", "done"}
    /\ scheduled = TRUE <=> (timer = TRUE \/ thread \in {"reDetach", "reNull"})
    /\ timer = TRUE => playing = FALSE /\ watchdog = FALSE
    /\ thread \in {"none", "enter", "build", "reNull", "endNull", "done"} => watchdog = FALSE

LookedAfter ==
    running = TRUE /\ thread \in {"run", "loop"} =>
        (playing = TRUE /\ watchdog = TRUE) \/ timer = TRUE \/ source = "broken"

RInv ==
    /\ TypeOK /\ RuntimeMatchesGroup
    /\ Torn /\ RunsUntilStopped /\ ReconnectDue /\ LookedAfter

LEMMA InitRInv == Init => RInv
<1> SUFFICES ASSUME Init PROVE RInv
  OBVIOUS
<1>1. TypeOK
  <2>1. 0 \in 0..StaleTicks /\ WarmupFrames \in 0..WarmupFrames
    BY CountAssumption
  <2> QED
    BY <2>1 DEF Init, TypeOK
<1>2. RuntimeMatchesGroup
  BY DEF Init, RuntimeMatchesGroup
<1>3. Torn /\ RunsUntilStopped /\ ReconnectDue /\ LookedAfter
  BY DEF Init, Torn, RunsUntilStopped, ReconnectDue, LookedAfter
<1> QED
  BY <1>1, <1>2, <1>3 DEF RInv

(* A call that changes the group begins the teardown; one that does not leaves *)
(* the group as it was.                                                       *)
LEMMA CallRInv == ASSUME RInv, Call PROVE RInv'
<1> DEFINE Begun ==
      /\ UNCHANGED <<runtimeVars, pipelineVars, appsink, worldVars>>
      /\ manager = "free"
      /\ started' \in BOOLEAN /\ group' \in BOOLEAN /\ desired' \subseteq Jobs
      /\ motionEnabled' \in BOOLEAN /\ wantMotion' \in BOOLEAN
      /\ \/ manager' = "jobs" /\ goal' \in {"rebuild", "erase"}
         \/ UNCHANGED <<manager, goal, desired, motionEnabled>>
<1>1. Begun
  <2> USE DEF RInv, TypeOK, CallUnchanged, Enter, managerVars
  <2>1. ASSUME NEW j \in Jobs, applyJob(j) PROVE Begun
    BY <2>1 DEF applyJob
  <2>2. ASSUME NEW j \in Jobs, removeJob(j) PROVE Begun
    BY <2>2 DEF removeJob
  <2>3. CASE EnableMotion
    BY <2>3 DEF EnableMotion, KeptWhenUnchanged
  <2>4. CASE DisableMotion
    BY <2>4 DEF DisableMotion, DisableRebuilds
  <2>5. CASE removeCamera
    BY <2>5 DEF removeCamera
  <2>6. CASE stop
    BY <2>6 DEF stop
  <2> QED
    BY <2>1, <2>2, <2>3, <2>4, <2>5, <2>6 DEF Call
<1>2. TypeOK'
  BY <1>1 DEF RInv, TypeOK, runtimeVars, pipelineVars, worldVars
<1>3. RuntimeMatchesGroup'
  BY <1>1 DEF RInv, RuntimeMatchesGroup, runtimeVars, pipelineVars
<1>4. Torn' /\ RunsUntilStopped' /\ ReconnectDue' /\ LookedAfter'
  BY <1>1 DEF RInv, Torn, RunsUntilStopped, ReconnectDue, LookedAfter, runtimeVars,
              pipelineVars
<1> QED
  BY <1>2, <1>3, <1>4 DEF RInv

LEMMA ManagerRInv == ASSUME IInv, RInv, ManagerStep PROVE RInv'
<1> USE DEF CallUnchanged, groupVars, runtimeVars, pipelineVars, worldVars
<1>1. CASE StopJobs
  <2>1. TypeOK'
    BY <1>1 DEF StopJobs, RInv, TypeOK
  <2> QED
    BY <1>1, <2>1 DEF StopJobs, RInv, RuntimeMatchesGroup, Torn, RunsUntilStopped,
                      ReconnectDue, LookedAfter
<1>2. CASE StopPipeline
  <2>1. TypeOK'
    <3>1. running' \in BOOLEAN /\ loop' \in {"null", "new", "running", "quit"}
          /\ manager' \in {"free", "jobs", "pipeline", "join", "finish"}
      BY <1>2 DEF StopPipeline, Quit, RInv, TypeOK
    <3>2. UNCHANGED <<groupVars, goal, liveJobs, detector, pipeJobs, pipeMotion, thread,
                      playing, source, watchdog, quiet, scheduled, timer, warmup,
                      appsink, worldVars>>
      BY <1>2 DEF StopPipeline, DetectorKept
    <3> QED
      BY <3>1, <3>2 DEF RInv, TypeOK
  <2> QED
    BY <1>2, <2>1 DEF StopPipeline, Quit, DetectorKept, RInv, RuntimeMatchesGroup, Torn,
                      RunsUntilStopped, ReconnectDue, LookedAfter
<1>3. CASE JoinPipeline
  <2>1. TypeOK'
    <3>1. /\ thread' = "none" /\ loop' = "null" /\ manager' = "finish" /\ pipeJobs' = {}
          /\ timer' \in BOOLEAN /\ scheduled' \in BOOLEAN
          /\ detector' \in BOOLEAN /\ pipeMotion' \in BOOLEAN
      BY <1>3 DEF JoinPipeline
    <3>2. UNCHANGED <<groupVars, goal, liveJobs, running, playing, source, watchdog,
                      quiet, warmup, appsink, worldVars>>
      BY <1>3 DEF JoinPipeline
    <3> QED
      BY <3>1, <3>2 DEF RInv, TypeOK
  <2> QED
    BY <1>3, <2>1 DEF JoinPipeline, RInv, RuntimeMatchesGroup, Torn,
                      RunsUntilStopped, ReconnectDue, LookedAfter
<1>4. CASE EraseGroup
  <2>1. TypeOK'
    <3>1. manager' = "free" /\ group' \in BOOLEAN /\ desired' = {} /\ motionEnabled' \in BOOLEAN
      BY <1>4 DEF EraseGroup
    <3>2. UNCHANGED <<started, wantMotion, goal, runtimeVars, pipelineVars, appsink, worldVars>>
      BY <1>4 DEF EraseGroup
    <3> QED
      BY <3>1, <3>2 DEF RInv, TypeOK
  <2> QED
    BY <1>4, <2>1 DEF EraseGroup, RInv, RuntimeMatchesGroup, Torn,
                      RunsUntilStopped, ReconnectDue, LookedAfter
<1>5. CASE Rebuild
  <2>0. PICK loaded \in SUBSET desired :
          /\ liveJobs' = loaded /\ pipeJobs' = loaded
          /\ running' = (loaded # {} \/ motionEnabled)
    BY <1>5 DEF Rebuild
  <2>1. TypeOK'
    BY <1>5, <2>0 DEF Rebuild, RInv, TypeOK
  <2>2. RuntimeMatchesGroup'
    BY <1>5, <2>0, <2>1 DEF Rebuild, RInv, RuntimeMatchesGroup, TypeOK
  <2> QED
    BY <1>5, <2>1, <2>2 DEF Rebuild, RInv, Torn, RunsUntilStopped, ReconnectDue, LookedAfter,
                            TypeOK
<1> QED
  BY <1>1, <1>2, <1>3, <1>4, <1>5 DEF ManagerStep

(* What the pipeline thread leaves alone. *)
LEMMA ThreadLeaves ==
  ASSUME RInv, PipelineUnchanged, running' = running, thread # "none",
         running = TRUE => thread' \notin {"none", "done"}
  PROVE  RuntimeMatchesGroup' /\ Torn'
<1>1. UNCHANGED <<groupVars, managerVars, runtimeVars>>
  BY DEF PipelineUnchanged
<1>2. RuntimeMatchesGroup'
  BY <1>1 DEF RInv, RuntimeMatchesGroup, groupVars, managerVars, runtimeVars
<1>3. Torn'
  BY <1>1 DEF RInv, Torn, groupVars, managerVars, runtimeVars
<1> QED
  BY <1>2, <1>3

LEMMA ThreadRInv ==
  ASSUME IInv, RInv, ThreadStep \/ BusError \/ ParseFails \/ StartFails
  PROVE  RInv'
<1>1. thread # "none" /\ running' = running /\ PipelineUnchanged
  BY DEF ThreadStep, EnterThread, Build, RunLoop, Watchdog, ReconnectTimer, ExitLoop,
         Detach, SetNull, BusError, ParseFails, StartFails, InLoop
<1>2. UNCHANGED <<groupVars, managerVars, runtimeVars, worldVars>>
  BY <1>1 DEF PipelineUnchanged
<1> DEFINE Types ==
      /\ thread' \in {"build", "run", "loop", "reDetach", "reNull", "endDetach",
                      "endNull", "done"}
      /\ running = TRUE => thread' # "done"
      /\ loop' \in {"null", "new", "running", "quit"}
      /\ playing' \in BOOLEAN /\ source' \in {"none", "own", "shared", "stale", "broken"}
      /\ watchdog' \in BOOLEAN /\ quiet' \in 0..StaleTicks
      /\ scheduled' \in BOOLEAN /\ timer' \in BOOLEAN
      /\ warmup' \in 0..WarmupFrames
      /\ appsink' = appsink
    Sound == RunsUntilStopped' /\ ReconnectDue' /\ LookedAfter'
<1>3. Types /\ Sound
  <2> USE DEF RInv, RunsUntilStopped, ReconnectDue, LookedAfter
  <2>1. CASE EnterThread
    BY <2>1 DEF EnterThread, TypeOK
  <2>2. CASE Build
    <3>1. Types
      BY <2>2, CountAssumption DEF Build, Return, TypeOK
    <3> QED
      BY <2>2, <3>1 DEF Build, Return, TypeOK
  <2>3. CASE RunLoop
    BY <2>3 DEF RunLoop, TypeOK
  <2>4. CASE Watchdog
    <3>1. quiet' \in 0..StaleTicks
      <4>1. quiet \in 0..StaleTicks /\ StaleTicks \in Nat
        BY CountAssumption DEF TypeOK
      <4>2. quiet' = quiet \/ quiet' = 0 \/ (quiet' = quiet + 1 /\ quiet # StaleTicks)
        BY <2>4 DEF Watchdog, Starved
      <4> QED
        BY <4>1, <4>2
    <3>2. /\ thread = "loop" /\ loop = "running" /\ watchdog = TRUE
          /\ \/ /\ watchdog' = FALSE /\ running = TRUE
                /\ ScheduleReconnect
             \/ /\ watchdog' = running
                /\ UNCHANGED <<scheduled, thread>>
          /\ UNCHANGED <<running, loop, playing, source, timer, warmup, appsink>>
      BY <2>4 DEF Watchdog, InLoop, TypeOK
    <3>3. timer # TRUE /\ scheduled # TRUE
      BY <3>2
    <3> QED
      BY <3>1, <3>2, <3>3 DEF ScheduleReconnect, MayReconnect, Return, TypeOK
  <2>5. CASE ReconnectTimer
    BY <2>5 DEF ReconnectTimer, ReopensScheduled, InLoop, TypeOK
  <2>6. CASE ExitLoop
    BY <2>6 DEF ExitLoop, TypeOK
  <2>7. CASE Detach
    BY <2>7 DEF Detach, TypeOK
  <2>8. CASE SetNull
    BY <2>8 DEF SetNull, Return, TypeOK
  <2>9. CASE BusError
    BY <2>9 DEF BusError, InLoop, ScheduleReconnect, MayReconnect, Return, TypeOK
  <2>10. CASE ParseFails
    BY <2>10 DEF ParseFails, Return, TypeOK
  <2>11. CASE StartFails
    <3>1. WarmupFrames \in 0..WarmupFrames
      BY CountAssumption
    <3>2. /\ thread = "build" /\ playing' = TRUE /\ warmup' = WarmupFrames
          /\ ScheduleReconnect
          /\ UNCHANGED <<running, loop, source, watchdog, quiet, timer, appsink>>
      BY <2>11 DEF StartFails
    <3>3. timer # TRUE /\ scheduled # TRUE
      BY <3>2
    <3> QED
      BY <3>1, <3>2, <3>3 DEF ScheduleReconnect, MayReconnect, Return, TypeOK
  <2> QED
    BY <2>1, <2>2, <2>3, <2>4, <2>5, <2>6, <2>7, <2>8, <2>9, <2>10, <2>11 DEF ThreadStep
<1>4. TypeOK'
  BY <1>1, <1>2, <1>3 DEF RInv, TypeOK, groupVars, managerVars, runtimeVars, worldVars
<1>5. RuntimeMatchesGroup' /\ Torn'
  BY <1>1, <1>3, ThreadLeaves
<1> QED
  BY <1>3, <1>4, <1>5 DEF RInv

LEMMA AppsinkRInv == ASSUME RInv, AppsinkStep PROVE RInv'
<1>1. AppsinkUnchanged
  BY DEF AppsinkStep, Frame, FeedJobs, FeedDetector, grabMotionJpeg
<1>2. quiet' \in 0..StaleTicks /\ warmup' \in 0..WarmupFrames
  <2>1. /\ quiet \in 0..StaleTicks /\ StaleTicks \in Nat
        /\ warmup \in 0..WarmupFrames /\ WarmupFrames \in Nat
    BY CountAssumption DEF RInv, TypeOK
  <2>2. (quiet' = 0 \/ quiet' = quiet) /\ (warmup' = warmup \/ (warmup > 0 /\ warmup' = warmup - 1))
    BY DEF AppsinkStep, Frame, FeedJobs, FeedDetector, grabMotionJpeg
  <2> QED
    BY <2>1, <2>2
<1>3. appsink' \in {"idle", "jobs", "motion", "grab"}
  BY DEF AppsinkStep, Frame, FeedJobs, FeedDetector, grabMotionJpeg
<1>4. TypeOK'
  BY <1>1, <1>2, <1>3 DEF RInv, TypeOK, AppsinkUnchanged, groupVars, managerVars, runtimeVars,
                          worldVars
<1>5. RuntimeMatchesGroup' /\ Torn' /\ RunsUntilStopped' /\ ReconnectDue' /\ LookedAfter'
  BY <1>1 DEF RInv, RuntimeMatchesGroup, Torn, RunsUntilStopped, ReconnectDue, LookedAfter,
              AppsinkUnchanged, groupVars, managerVars, runtimeVars
<1> QED
  BY <1>4, <1>5 DEF RInv

LEMMA WorldRInv == ASSUME RInv, CameraChanges \/ SharedChanges PROVE RInv'
<1>1. /\ UNCHANGED <<groupVars, managerVars, runtimeVars, running, thread, loop, playing,
                     watchdog, quiet, scheduled, timer, warmup, appsink>>
      /\ camera' \in BOOLEAN /\ shared' \in BOOLEAN
      /\ source' \in {"none", "own", "shared", "stale", "broken"}
      /\ source = "broken" => source' = "broken"
  <2>1. CASE CameraChanges
    BY <2>1 DEF CameraChanges, pipelineVars, RInv, TypeOK
  <2>2. CASE SharedChanges
    BY <2>2 DEF SharedChanges, RInv, TypeOK
  <2> QED
    BY <2>1, <2>2
<1>2. TypeOK'
  BY <1>1 DEF RInv, TypeOK, groupVars, managerVars, runtimeVars
<1>3. RuntimeMatchesGroup' /\ Torn' /\ RunsUntilStopped' /\ ReconnectDue' /\ LookedAfter'
  BY <1>1 DEF RInv, RuntimeMatchesGroup, Torn, RunsUntilStopped, ReconnectDue, LookedAfter,
              groupVars, managerVars, runtimeVars
<1> QED
  BY <1>2, <1>3 DEF RInv

LEMMA NextRInv == IInv /\ RInv /\ [Next]_vars => RInv'
<1> SUFFICES ASSUME IInv, RInv, [Next]_vars PROVE RInv'
  OBVIOUS
<1>1. CASE UNCHANGED vars
  BY <1>1 DEF vars, RInv, TypeOK, RuntimeMatchesGroup, Torn, RunsUntilStopped, ReconnectDue,
              LookedAfter, groupVars, managerVars, runtimeVars, pipelineVars, worldVars
<1> QED
  BY <1>1, CallRInv, ManagerRInv, ThreadRInv, AppsinkRInv, WorldRInv DEF Next, Disturbance

(* Between calls the runtime is the one the group asks for; while a reconnect *)
(* waits no pipeline is alive (AiCameraPipeline.hpp:580); and a running       *)
(* pipeline in its loop has a watchdog or a reconnect due, for any set of     *)
(* jobs and any bounds.                                                      *)
THEOREM SoundRuntime == Spec => []RuntimeIsSound
<1>1. IInv /\ RInv => RuntimeIsSound
  <2> SUFFICES ASSUME IInv, RInv PROVE RuntimeIsSound
    OBVIOUS
  <2>1. ReconnectIsExclusive
    BY DEF IInv, NoPipelineNoCall, RInv, TypeOK, ReconnectDue, ReconnectIsExclusive
  <2>2. NeverForgotten
    BY DEF RInv, TypeOK, LookedAfter, NeverForgotten, InLoop
  <2> QED
    BY <2>1, <2>2 DEF RInv, RuntimeIsSound
<1> QED
  BY InitIInv, NextIInv, InitRInv, NextRInv, <1>1, PTL DEF Spec
=============================================================================
