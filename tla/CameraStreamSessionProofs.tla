-------------------- MODULE CameraStreamSessionProofs --------------------
(***************************************************************************)
(* The safety invariants of CameraStreamSession, for every set of threads, *)
(* every set of verdicts and every bound.                                  *)
(***************************************************************************)
EXTENDS CameraStreamSession, TLAPS

-----------------------------------------------------------------------------
(* Type correctness.                                                       *)

\* Where a step can send a thread.
LEMMA LabelsListed ==
  /\ {"idle", "rTake", "sTimer", "sSnap", "nSnap", "sRecord", "sKeep",
      "tTimer", "aTimer", "mMark", "hMark", "sProbe", "hProbe", "hCodec", "cbReconnect",
      "cbHealth"} \subseteq Labels
  /\ \A label \in DOMAIN After : After[label] \in Labels
  BY DEF After, Labels

\* A step of a thread from one label to another keeps pc well-typed.
LEMMA GotoType ==
  ASSUME TypeOK, NEW a \in Actors, NEW label \in Labels, Goto(a, label)
  PROVE  pc' \in [Actors -> Labels]
  BY DEF Goto, TypeOK

LEMMA AdvanceType ==
  ASSUME TypeOK, NEW a \in Actors, pc[a] \in DOMAIN After, Advance(a)
  PROVE  pc' \in [Actors -> Labels]
  BY LabelsListed, GotoType DEF Advance

LEMMA TypeStep == TypeOK /\ [Next]_vars => TypeOK'
<1> SUFFICES ASSUME TypeOK, [Next]_vars PROVE TypeOK'
  OBVIOUS
<1>1. ASSUME NEW a \in Actors, Step(a) PROVE TypeOK'
  <2>1. CASE StopReconnectTimer(a)
    <3>1. pc[a] \in DOMAIN After /\ Advance(a)
      BY <2>1 DEF StopReconnectTimer, After
    <3>2. pc' \in [Actors -> Labels]
      BY <3>1, AdvanceType
    <3> QED BY <2>1, <3>2
         DEF TypeOK, StopReconnectTimer, Timers
  <2>2. CASE StopHealthCheckTimer(a)
    <3>1. pc[a] \in DOMAIN After /\ Advance(a)
      BY <2>2 DEF StopHealthCheckTimer, After
    <3>2. pc' \in [Actors -> Labels]
      BY <3>1, AdvanceType
    <3> QED BY <2>2, <3>2
         DEF TypeOK, StopHealthCheckTimer
  <2>3. CASE TakeRecording(a)
    <3>1. pc[a] \in DOMAIN After /\ Advance(a)
      BY <2>3 DEF TakeRecording, After
    <3>2. pc' \in [Actors -> Labels]
      BY <3>1, AdvanceType
    <3> QED BY <2>3, <3>2
         DEF TypeOK, TakeRecording
  <2>4. CASE StopTakenRecording(a)
    <3>1. pc[a] \in DOMAIN After /\ Advance(a)
      BY <2>4 DEF StopTakenRecording, After
    <3>2. pc' \in [Actors -> Labels]
      BY <3>1, AdvanceType
    <3> QED BY <2>4, <3>2
         DEF TypeOK, StopTakenRecording, sessionVars
  <2>5. CASE TakeSnapshot(a)
    <3>1. pc[a] \in DOMAIN After /\ Advance(a)
      BY <2>5 DEF TakeSnapshot, After
    <3>2. pc' \in [Actors -> Labels]
      BY <3>1, AdvanceType
    <3> QED BY <2>5, <3>2
         DEF TypeOK, TakeSnapshot, Coarse, Reported, sessionVars
  <2>6. CASE DeliverSnapshot(a)
    <3>1. pc[a] \in DOMAIN After /\ Advance(a)
      BY <2>6 DEF DeliverSnapshot, After
    <3>2. pc' \in [Actors -> Labels]
      BY <3>1, AdvanceType
    <3> QED BY <2>6, <3>2
         DEF TypeOK, DeliverSnapshot, Reported, sessionVars
  <2>7. CASE EnterStarting(a)
    <3>2. pc' \in [Actors -> Labels]
      BY <2>7, LabelsListed, GotoType DEF EnterStarting, TakeDown, CleanupMount
    <3> QED BY <2>7, <3>2
         DEF TypeOK, EnterStarting, TakeDown, CleanupMount, StreamStates
  <2>8. CASE ProbeCodec(a)
    <3>1. pc[a] \in DOMAIN After /\ Advance(a)
      BY <2>8 DEF ProbeCodec, After
    <3>2. pc' \in [Actors -> Labels]
      BY <3>1, AdvanceType
    <3> QED BY <2>8, <3>2
         DEF TypeOK, ProbeCodec, sessionVars
  <2>9. CASE StartAuthError(a)
    <3>2. pc' \in [Actors -> Labels]
      BY <2>9, LabelsListed, GotoType DEF StartAuthError, StartFails
    <3> QED BY <2>9, <3>2, VerdictAssumption
         DEF TypeOK, StartAuthError, StartFails, Codecs, StreamStates
  <2>10. CASE StartUnsupported(a)
    <3>2. pc' \in [Actors -> Labels]
      BY <2>10, LabelsListed, GotoType DEF StartUnsupported, StartFails
    <3> QED BY <2>10, <3>2, VerdictAssumption
         DEF TypeOK, StartUnsupported, StartFails, Codecs, StreamStates
  <2>11. CASE StartTransient(a)
    <3>2. pc' \in [Actors -> Labels]
      BY <2>11, LabelsListed, GotoType DEF StartTransient, StartRetries
    <3> QED BY <2>11, <3>2
         DEF TypeOK, StartTransient, StartRetries, sessionVars
  <2>12. CASE Publish(a)
    <3>2. pc' \in [Actors -> Labels]
      BY <2>12, LabelsListed, GotoType DEF Publish, ScheduleHealthCheck
    <3> QED BY <2>12, <3>2, HealthAssumption, VerdictAssumption
         DEF TypeOK, Publish, ScheduleHealthCheck, Codecs, Playable,
             StreamStates
  <2>13. CASE StartRecording(a)
    <3>2. pc' \in [Actors -> Labels]
      BY <2>13, LabelsListed, GotoType DEF StartRecording
    <3> QED BY <2>13, <3>2
         DEF TypeOK, StartRecording, sessionVars
  <2>14. CASE KeepRecording(a)
    <3>2. pc' \in [Actors -> Labels]
      BY <2>14, LabelsListed, GotoType DEF KeepRecording
    <3> QED BY <2>14, <3>2
         DEF TypeOK, KeepRecording
  <2>15. CASE EnterStopped(a)
    <3>2. pc' \in [Actors -> Labels]
      BY <2>15, LabelsListed, GotoType DEF EnterStopped, TakeDown, CleanupMount
    <3> QED BY <2>15, <3>2
         DEF TypeOK, EnterStopped, TakeDown, CleanupMount, StreamStates
  <2>16. CASE MarkAuthError(a)
    <3>2. pc' \in [Actors -> Labels]
      BY <2>16, LabelsListed, GotoType DEF MarkAuthError, CleanupMount
    <3> QED BY <2>16, <3>2
         DEF TypeOK, MarkAuthError, CleanupMount, StreamStates
  <2>17. CASE MarkTransientError(a)
    <3>2. pc' \in [Actors -> Labels]
      BY <2>17, LabelsListed, GotoType DEF MarkTransientError, CleanupMount, ScheduleReconnect
    <3> QED BY <2>17, <3>2
         DEF TypeOK, MarkTransientError, CleanupMount, ScheduleReconnect,
             StreamStates, Timers
  <2>18. CASE HealthCheck(a)
    <3>2. pc' \in [Actors -> Labels]
      BY <2>18, LabelsListed, GotoType DEF HealthCheck
    <3> QED BY <2>18, <3>2, VerdictAssumption
         DEF TypeOK, HealthCheck
  <2>19. CASE HealthCodec(a)
    <3>2. pc' \in [Actors -> Labels]
      BY <2>19, LabelsListed, GotoType DEF HealthCodec
    <3> QED BY <2>19, <3>2, VerdictAssumption
         DEF TypeOK, HealthCodec, sessionVars
  <2>20. CASE SkipNotification(a)
    <3>2. pc' \in [Actors -> Labels]
      BY <2>20, LabelsListed, GotoType DEF SkipNotification
    <3> QED BY <2>20, <3>2
         DEF TypeOK, SkipNotification, sessionVars
  <2> QED BY <1>1, <2>1, <2>2, <2>3, <2>4, <2>5, <2>6, <2>7, <2>8, <2>9, <2>10, <2>11,
        <2>12, <2>13, <2>14, <2>15, <2>16, <2>17, <2>18, <2>19, <2>20
    DEF Step
<1>2. ASSUME NEW t \in Threads, Request(t) PROVE TypeOK'
  <2>1. CASE RequestRestart(t)
    <3>2. pc' \in [Actors -> Labels]
      BY <2>1, LabelsListed, GotoType DEF RequestRestart, Launch, Actors
    <3> QED BY <2>1, <3>2
         DEF TypeOK, RequestRestart, sessionVars
  <2>2. CASE RequestStop(t)
    <3>2. pc' \in [Actors -> Labels]
      BY <2>2, LabelsListed, GotoType DEF RequestStop, Launch, Actors
    <3> QED BY <2>2, <3>2
         DEF TypeOK, RequestStop, sessionVars
  <2>3. CASE RequestCleanup(t)
    <3>2. pc' \in [Actors -> Labels]
      BY <2>3, LabelsListed, GotoType DEF RequestCleanup, Launch, Actors
    <3> QED BY <2>3, <3>2
         DEF TypeOK, RequestCleanup, sessionVars
  <2> QED BY <1>2, <2>1, <2>2, <2>3 DEF Request
<1>3. CASE DispatchReconnect
  <2>2. pc' \in [Actors -> Labels]
    BY <1>3, LabelsListed, GotoType DEF DispatchReconnect, Launch, Actors
  <2> QED BY <1>3, <2>2
       DEF TypeOK, DispatchReconnect, Timers
<1>4. CASE DispatchHealthCheck
  <2>2. pc' \in [Actors -> Labels]
    BY <1>4, LabelsListed, GotoType DEF DispatchHealthCheck, Launch, Actors
  <2> QED BY <1>4, <2>2
       DEF TypeOK, DispatchHealthCheck, sessionVars
<1>5. CASE ReconnectCallback
  <2>2. pc' \in [Actors -> Labels]
    BY <1>5, LabelsListed DEF ReconnectCallback, Goto, Actors, TypeOK
  <2> QED BY <1>5, <2>2
       DEF TypeOK, ReconnectCallback, Timers
<1>6. CASE HealthCheckCallback
  <2>2. pc' \in [Actors -> Labels]
    BY <1>6, LabelsListed DEF HealthCheckCallback, Goto, Actors, TypeOK
  <2> QED BY <1>6, <2>2
       DEF TypeOK, HealthCheckCallback
<1>7. CASE ConfigureMedia
  BY <1>7 DEF TypeOK, ConfigureMedia, threadVars, sessionVars
<1>8. CASE AddBusWatch
  BY <1>8 DEF TypeOK, AddBusWatch, threadVars
<1>9. CASE Destroy
  BY <1>9 DEF TypeOK, Destroy, CleanupMount, StreamStates, Timers, Reported, Coarse,
      threadVars
<1>10. CASE CameraChanges
  BY <1>10 DEF TypeOK, CameraChanges, threadVars, sessionVars
<1>11. CASE MediaError
  <2>2. pc' \in [Actors -> Labels]
    BY <1>11, LabelsListed, GotoType DEF MediaError, Launch, Actors
  <2> QED BY <1>11, <2>2
       DEF TypeOK, MediaError
<1>12. CASE UNCHANGED vars
  BY <1>12 DEF TypeOK, vars, sessionVars, threadVars
<1> QED BY <1>1, <1>2, <1>3, <1>4, <1>5, <1>6, <1>7, <1>8, <1>9, <1>10, <1>11,
        <1>12
  DEF Next, Disturbance, Callback

-----------------------------------------------------------------------------
(* The safety invariants.                                                  *)

\* The invariants the runs check, taken together: each is inductive with TypeOK.
Inv == /\ RunningIsPublished /\ StartingHasOwner /\ ReconnectingHasRetry
       /\ RunningIsPolled /\ OneHealthProbe

LEMMA InvStep == TypeOK /\ Inv /\ [Next]_vars => Inv'
<1> SUFFICES ASSUME TypeOK, Inv, [Next]_vars PROVE Inv'
  OBVIOUS
<1> USE DEF TypeOK, Inv, RunningIsPublished, StartingHasOwner,
            ReconnectingHasRetry, RunningIsPolled, OneHealthProbe, Resolving,
            Retrying, Cancelling, Probing
<1>1. ASSUME NEW a \in Actors, Step(a) PROVE Inv'
  <2>1. CASE StopReconnectTimer(a)
    BY <2>1 DEF StopReconnectTimer, Advance, After, Goto
  <2>2. CASE StopHealthCheckTimer(a)
    BY <2>2 DEF StopHealthCheckTimer, Advance, After, Goto
  <2>3. CASE TakeRecording(a)
    BY <2>3 DEF TakeRecording, Advance, After, Goto
  <2>4. CASE StopTakenRecording(a)
    BY <2>4 DEF StopTakenRecording, Advance, After, Goto, sessionVars
  <2>5. CASE TakeSnapshot(a)
    BY <2>5 DEF TakeSnapshot, Advance, After, Goto, sessionVars
  <2>6. CASE DeliverSnapshot(a)
    BY <2>6 DEF DeliverSnapshot, Advance, After, Goto, sessionVars
  <2>7. CASE EnterStarting(a)
    BY <2>7 DEF EnterStarting, TakeDown, CleanupMount, Goto
  <2>8. CASE ProbeCodec(a)
    BY <2>8 DEF ProbeCodec, Advance, After, Goto, sessionVars
  <2>9. CASE StartAuthError(a)
    BY <2>9 DEF StartAuthError, StartFails, Goto
  <2>10. CASE StartUnsupported(a)
    BY <2>10 DEF StartUnsupported, StartFails, Goto
  <2>11. CASE StartTransient(a)
    BY <2>11 DEF StartTransient, StartRetries, Goto, sessionVars
  <2>12. CASE Publish(a)
    BY <2>12, HealthAssumption DEF Publish, ScheduleHealthCheck, Goto, Playable
  <2>13. CASE StartRecording(a)
    BY <2>13 DEF StartRecording, Goto, sessionVars
  <2>14. CASE KeepRecording(a)
    BY <2>14 DEF KeepRecording, Goto
  <2>15. CASE EnterStopped(a)
    BY <2>15 DEF EnterStopped, TakeDown, CleanupMount, Goto
  <2>16. CASE MarkAuthError(a)
    BY <2>16 DEF MarkAuthError, CleanupMount, Goto
  <2>17. CASE MarkTransientError(a)
    BY <2>17 DEF MarkTransientError, CleanupMount, ScheduleReconnect, Goto
  <2>18. CASE HealthCheck(a)
    BY <2>18 DEF HealthCheck, Goto
  <2>19. CASE HealthCodec(a)
    BY <2>19 DEF HealthCodec, CodecChanged, Goto, sessionVars
  <2>20. CASE SkipNotification(a)
    BY <2>20 DEF SkipNotification, Goto, sessionVars
  <2> QED BY <1>1, <2>1, <2>2, <2>3, <2>4, <2>5, <2>6, <2>7, <2>8, <2>9, <2>10, <2>11,
        <2>12, <2>13, <2>14, <2>15, <2>16, <2>17, <2>18, <2>19, <2>20
    DEF Step
<1>2. ASSUME NEW t \in Threads, Request(t) PROVE Inv'
  <2>1. CASE RequestRestart(t)
    BY <2>1 DEF RequestRestart, Goto, Launch, Idle, Actors, sessionVars
  <2>2. CASE RequestStop(t)
    BY <2>2 DEF RequestStop, Goto, Launch, Idle, Actors, sessionVars
  <2>3. CASE RequestCleanup(t)
    BY <2>3 DEF RequestCleanup, Goto, Launch, Idle, Actors, sessionVars
  <2> QED BY <1>2, <2>1, <2>2, <2>3 DEF Request
<1>3. CASE DispatchReconnect
  BY <1>3 DEF DispatchReconnect, Goto, Launch, Idle, Actors
<1>4. CASE DispatchHealthCheck
  BY <1>4 DEF DispatchHealthCheck, Goto, Launch, Idle, Actors, sessionVars
<1>5. CASE ReconnectCallback
  BY <1>5 DEF ReconnectCallback, Idle, Actors
<1>6. CASE HealthCheckCallback
  BY <1>6 DEF HealthCheckCallback, MayProbe, Goto, Idle, Actors
<1>7. CASE ConfigureMedia
  BY <1>7 DEF ConfigureMedia, sessionVars, threadVars
<1>8. CASE AddBusWatch
  BY <1>8 DEF AddBusWatch, threadVars
<1>9. CASE Destroy
  BY <1>9 DEF Destroy, CleanupMount, Alive, Idle, threadVars
<1>10. CASE CameraChanges
  BY <1>10 DEF CameraChanges, sessionVars, threadVars
<1>11. CASE MediaError
  BY <1>11 DEF MediaError, Goto, Launch, Idle, Actors
<1>12. CASE UNCHANGED vars
  BY <1>12 DEF vars, sessionVars, threadVars
<1> QED BY <1>1, <1>2, <1>3, <1>4, <1>5, <1>6, <1>7, <1>8, <1>9, <1>10, <1>11,
        <1>12
  DEF Next, Disturbance, Callback

LEMMA InitInv == Init => TypeOK /\ Inv
<1> SUFFICES ASSUME Init PROVE TypeOK /\ Inv
  OBVIOUS
<1>1. TypeOK
  BY VerdictAssumption, LabelsListed
  DEF Init, TypeOK, Codecs, StreamStates, Reported, Timers
<1>2. Inv
  BY DEF Init, Inv, RunningIsPublished, StartingHasOwner, ReconnectingHasRetry,
         RunningIsPolled, OneHealthProbe, Probing
<1> QED BY <1>1, <1>2

-----------------------------------------------------------------------------
(* The theorems.                                                           *)

\* The variables keep their types: start, stop, timer and probe threads never
\* write a state, a codec or a report the code does not have.
THEOREM TypeCorrect == Spec => []TypeOK
<1>1. Init => TypeOK
  BY InitInv
<1> QED BY <1>1, TypeStep, PTL DEF Spec

\* All the safety invariants at once, from which the next three follow.
THEOREM SafetyInvariants == Spec => []Inv
<1>1. Init => Inv
  BY InitInv
<1> QED BY <1>1, InvStep, TypeCorrect, PTL DEF Spec

\* However the threads interleave, a running stream has its mount published,
\* and its health poll or somebody about to take it down.
THEOREM ServedWhenRunning == Spec => []RunningIsServed
<1>1. Inv => RunningIsServed
  BY DEF Inv, RunningIsServed
<1> QED BY <1>1, SafetyInvariants, PTL

\* However timers are cancelled, replaced and forgotten, a starting stream has
\* a thread at work on it and a reconnecting one a retry coming.
THEOREM NothingForgotten == Spec => []NothingIsForgotten
<1>1. Inv => NothingIsForgotten
  BY DEF Inv, NothingIsForgotten
<1> QED BY <1>1, SafetyInvariants, PTL

\* m_healthProbeInFlight is a lock: one health probe at a time, and no probe
\* leaves it behind.
THEOREM ProbesAreExclusive == Spec => []OneHealthProbe
<1>1. Inv => OneHealthProbe
  BY DEF Inv
<1> QED BY <1>1, SafetyInvariants, PTL

=============================================================================
