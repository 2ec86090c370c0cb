----------------------- MODULE MCCameraStreamSession -----------------------
(* Small instances of CameraStreamSession for TLC, and what comments and    *)
(* documents of the repository say of it that the code does not keep.       *)
EXTENDS CameraStreamSession, TLC

\* Threads are interchangeable; sound for the invariants only.
Symmetry == Permutations(Threads)

\* CameraStreamSession.hpp:673 "If the stream left Running while we were
\* probing, stop()/the reconnect loop already owns the state - discard this
\* result": the health probe marks an error only on a running stream.  The
\* check and the mark are two critical sections.
StaleProbeDiscarded ==
    [][\A a \in Actors :
          pc[a] = "hMark" /\ MarkTransientError(a) => state = "running"]_vars

\* restream design, section 8: "once classified as auth-related, it must not
\* reconnect automatically": no reconnect timer fires in auth_error.
AuthErrorIsFinal == [][DispatchReconnect => state # "auth_error"]_vars

\* CameraController.hpp:174 "Stop runtime stream for a camera": once stop() has
\* returned, the mount stays down and the state stopped, whatever a start()
\* that began before the stop is still going to do.
Returned(a) == \A b \in Actors \ {a} : Idle(b)
StopIsFinal ==
    [][\A a \in Actors :
          state = "stopped" /\ pc[a] = "sResult" /\ Returned(a)
              => ~(factory' /\ state' = "running")]_vars
=============================================================================
