-------------------------- MODULE MCAiCameraGroup --------------------------
(* Small instances of AiCameraGroup for TLC, and what comments of the       *)
(* repository say of it that the code does not keep.                        *)
EXTENDS AiCameraGroup

\* AiManager.hpp:11 "All public methods are thread-safe": no circular wait
\* between the caller that joins the pipeline thread with m_mutex held, that
\* thread, which waits for the appsink callback, and the callback, which waits
\* for m_mutex.
NoCircularWait ==
    ~ /\ manager = "join"
      /\ thread \in {"reNull", "endNull"}
      /\ appsink = "grab"

\* AiManager.hpp:283 "job->stop() joins the worker, so once it returns no frame
\* is in use": no frame is offered to a job that was stopped and destroyed.
FramesReachLiveJobs == appsink = "jobs" => pipeJobs \subseteq liveJobs

\* AiManager.hpp:8 "rebuilds just that camera's pipeline when its job set
\* changes": every call returns, with the pipeline rebuilt or dropped.
CallsReturn == manager # "free" ~> manager = "free"

\* AiManager.hpp:65: a camera with no AI job still has a pipeline when motion
\* detection is enabled.
MotionHasPipeline == manager = "free" /\ started /\ wantMotion => running
=============================================================================
