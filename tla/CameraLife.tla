----------------------------- MODULE CameraLife -----------------------------
(***************************************************************************)
(* The rows of the database and what runs because of them: CameraService   *)
(* and AiJobService change a row and then the runtime, one call after the  *)
(* other and none of it undone when a later one fails; the start-up thread *)
(* of App.cpp builds the runtime from the rows again after a restart.      *)
(* Processes crash between any two steps, the database goes away, and what *)
(* is being recorded is left half written.                                 *)
(*                                                                         *)
(* A thread works off a sequence of steps, each of which is atomic: a      *)
(* query, or one call of GStreamerService or AiManager, whose insides are  *)
(* the modules CameraStreamSession and AiCameraGroup.                      *)
(***************************************************************************)
EXTENDS Naturals, Sequences, SequencesExt, FiniteSets

CONSTANTS
    Cameras, Jobs,   \* ids there are to hand out, none of them twice
    Callers,         \* HTTP threads
    Boot,            \* the start-up thread
    None,            \* no row, no session, no group
    Early,           \* calls that clients make while the start-up thread is at work
    MovesJobs,       \* whether clients move a job to another camera
    MaxVersion,      \* bound: edits of a camera
    MaxSegments,     \* bound: segments ever opened
    MaxRuns,         \* bound: starts of the process
    MaxOutages       \* bound: outages of the database

ASSUME ThreadAssumption == Boot \notin Callers
ASSUME IdsAssumption == IsFiniteSet(Cameras) /\ IsFiniteSet(Jobs)
ASSUME BoundsAssumption ==
    {MaxVersion, MaxSegments, MaxRuns, MaxOutages} \subseteq Nat

VARIABLES
    camera,    \* table cameras: what the runtime is built from
    job,       \* table ai_jobs
    segment,   \* table recording_segments
    used,      \* ids handed out
    dbUp,      \* whether PostgreSQL answers
    media,     \* files: whose they are, what can be played, and if ever listed
    session,   \* GStreamerService::m_sessions: the version it plays, if started
    writing,   \* the segment each camera writes, or 0
    group,     \* AiManager::m_groups: version, motion and desired jobs
    todo,      \* what each thread has yet to do
    stage,     \* which step of the start-up thread is next
    life,      \* of the process
    runs, outages,  \* bounds
    unsure     \* jobs whose row is written and whose call then failed

rows    == <<camera, job, used>>
footage == <<segment, media, writing>>
process == <<life, runs, stage>>
database == <<dbUp, outages>>
vars == <<rows, footage, process, database, session, group, todo, unsure>>

Threads  == Callers \cup {Boot}
Segments == 1..MaxSegments
Row      == [version : Nat, motion : BOOLEAN]
JobRow   == [camera : Cameras, enabled : BOOLEAN]
Segment  == [camera : Cameras, status : {"recording", "complete"}, run : Nat, ms : 0..2]
File     == [camera : Cameras, ms : 0..1, listed : BOOLEAN]
Session  == [version : Nat, on : BOOLEAN]
Group    == [version : Nat, motion : BOOLEAN, jobs : SUBSET [id : Jobs, enabled : BOOLEAN]]
Done     == 4

ASSUME NoneAssumption ==
    None \notin Row \cup JobRow \cup Segment \cup File \cup Session \cup Group

Init ==
    /\ camera = [c \in Cameras |-> None] /\ job = [j \in Jobs |-> None]
    /\ segment = [s \in Segments |-> None] /\ used = {} /\ dbUp = TRUE
    /\ media = [s \in Segments |-> None]
    /\ session = [c \in Cameras |-> None] /\ writing = [c \in Cameras |-> 0]
    /\ group = [c \in Cameras |-> None]
    /\ todo = [t \in Threads |-> <<>>]
    /\ stage = 1 /\ life = "up" /\ runs = 1 /\ outages = 0 /\ unsure = {}

-----------------------------------------------------------------------------
(* Steps of a thread.                                                      *)

At(t, name) == todo[t] # <<>> /\ Head(todo[t]).do = name
Arg(t)      == Head(todo[t])

\* The step is done, these come before the rest; or it ended the call.
Then(t, steps) == todo' = [todo EXCEPT ![t] = steps \o Tail(@)]
Ends(t)        == todo' = [todo EXCEPT ![t] = <<>>]

\* GStreamerService::startCamera with a copy of the row, and what it tells AI.
StartCamera(c, r) ==
    << [do |-> "startStream", camera |-> c, row |-> r],
       [do |-> "tellMotion", camera |-> c, row |-> r] >>
StopCamera(c) ==
    << [do |-> "stopStream", camera |-> c], [do |-> "motionOff", camera |-> c] >>

\* deleteCamera: the streams, then the AI runtime.
TakenDown(c) ==
    << [do |-> "cleanupStream", camera |-> c], [do |-> "removeCamera", camera |-> c] >>
StreamOnly(c) == << [do |-> "cleanupStream", camera |-> c] >>
DropCamera(c) == TakenDown(c)

\* syncToManager reads the camera again, for a copy of the job's row.
SyncJob(j, r) == << [do |-> "fetchCamera", job |-> j, row |-> r] >>
RemoveJob(j, c) == << [do |-> "removeJob", job |-> j, camera |-> c] >>

-----------------------------------------------------------------------------
(* The queries of the two services.                                        *)

runtime == <<session, group>>

\* Every query needs the database, and its row; without the row it is a 404.
Query(t, name) == At(t, name) /\ dbUp /\ UNCHANGED <<database, process, runtime, unsure>>
NotFound(t, r) == r = None /\ Ends(t) /\ UNCHANGED <<rows, footage>>

createCamera(t) ==
    /\ Query(t, "createCamera")
    /\ camera' = [camera EXCEPT ![Arg(t).camera] = Arg(t).row]
    /\ Then(t, StartCamera(Arg(t).camera, Arg(t).row))
    /\ UNCHANGED <<job, used, footage>>

\* Fields that a stream is built from: the session restarts from the row that
\* UPDATE ... RETURNING gave.
putCamera(t) ==
    LET c == Arg(t).camera
        r == [version |-> camera[c].version + 1, motion |-> Arg(t).motion]
    IN  /\ Query(t, "putCamera")
        /\ \/ NotFound(t, camera[c])
           \/ /\ camera[c] # None
              /\ camera' = [camera EXCEPT ![c] = r]
              /\ Then(t, StartCamera(c, r))
              /\ UNCHANGED <<job, used, footage>>

\* ON DELETE CASCADE takes the jobs and the segments along; the files stay.
deleteCamera(t) ==
    LET c == Arg(t).camera
    IN  /\ Query(t, "deleteCamera")
        /\ \/ NotFound(t, camera[c])
           \/ /\ camera[c] # None
              /\ camera' = [camera EXCEPT ![c] = None]
              /\ job' = [j \in Jobs |->
                    IF job[j] # None /\ job[j].camera = c THEN None ELSE job[j]]
              /\ segment' = [s \in Segments |->
                    IF segment[s] # None /\ segment[s].camera = c THEN None ELSE segment[s]]
              /\ Then(t, DropCamera(c))
              /\ UNCHANGED <<used, media, writing>>

\* startStream, restartStream and stopStream look the camera up first.
getCamera(t) ==
    LET c == Arg(t).camera
    IN  /\ Query(t, "getCamera")
        /\ \/ NotFound(t, camera[c])
           \/ /\ camera[c] # None
              /\ Then(t, IF Arg(t).start THEN StartCamera(c, camera[c]) ELSE StopCamera(c))
              /\ UNCHANGED <<rows, footage>>

\* requireCameraExists
requireCamera(t) ==
    /\ Query(t, "requireCamera")
    /\ \/ NotFound(t, camera[Arg(t).camera])
       \/ camera[Arg(t).camera] # None /\ Then(t, <<>>) /\ UNCHANGED <<rows, footage>>

\* INSERT, or UPDATE ... RETURNING, then syncToManager.
writeJob(t) ==
    LET j == Arg(t).job
    IN  /\ Query(t, "writeJob")
        /\ \/ /\ \/ camera[Arg(t).row.camera] = None   \* the foreign key
                 \/ job[j] = None /\ ~Arg(t).new
              /\ Ends(t) /\ UNCHANGED <<rows, footage>>
           \/ /\ camera[Arg(t).row.camera] # None
              /\ job[j] # None \/ Arg(t).new
              /\ job' = [job EXCEPT ![j] = Arg(t).row]
              /\ Then(t, SyncJob(j, Arg(t).row))
              /\ UNCHANGED <<camera, used, footage>>

\* startAiJob, stopAiJob: setAiJobEnabled; deleteAiJob.
setJobEnabled(t) ==
    LET j == Arg(t).job
        r == [job[j] EXCEPT !.enabled = Arg(t).enabled]
    IN  /\ Query(t, "setJobEnabled")
        /\ \/ NotFound(t, job[j])
           \/ /\ job[j] # None
              /\ job' = [job EXCEPT ![j] = r]
              /\ Then(t, IF r.enabled THEN SyncJob(j, r) ELSE RemoveJob(j, r.camera))
              /\ UNCHANGED <<camera, used, footage>>

deleteJob(t) ==
    LET j == Arg(t).job
    IN  /\ Query(t, "deleteJob")
        /\ \/ NotFound(t, job[j])
           \/ /\ job[j] # None
              /\ job' = [job EXCEPT ![j] = None]
              /\ Then(t, RemoveJob(j, job[j].camera))
              /\ UNCHANGED <<camera, used, footage>>

\* fetchCamera: without the camera the job is left alone, with a line in the log.
fetchCamera(t) ==
    LET c == Arg(t).row.camera
    IN  /\ Query(t, "fetchCamera")
        /\ Then(t, IF camera[c] = None THEN <<>>
                   ELSE << [do |-> "applyJob", job |-> Arg(t).job, camera |-> c,
                            row |-> camera[c], enabled |-> Arg(t).row.enabled] >>)
        /\ UNCHANGED <<rows, footage>>

-----------------------------------------------------------------------------
(* The start-up thread: three steps, each retried from its beginning.      *)

Stages == <<"listOrphans", "listCameras", "listJobs">>
StreamsFirst == <<"listCameras", "listOrphans", "listJobs">>
StageSteps == Stages

\* runDbStartupStep tries as long as nobody has asked to shut down.
MayTry == life = "up"
MayTryOnce == life = "up" /\ outages = 0
Tries == MayTry

BeginStage ==
    /\ todo[Boot] = <<>> /\ stage < Done /\ Tries
    /\ todo' = [todo EXCEPT ![Boot] =
                    << [do |-> StageSteps[stage]], [do |-> "stageDone"] >>]
    /\ UNCHANGED <<rows, footage, process, database, runtime, unsure>>

EndStage ==
    /\ At(Boot, "stageDone")
    /\ stage' = stage + 1
    /\ Then(Boot, <<>>)
    /\ UNCHANGED <<rows, footage, life, runs, database, runtime, unsure>>

Listed(name, steps) ==
    Query(Boot, name) /\ Then(Boot, steps) /\ UNCHANGED <<rows, footage>>
Orphans == {s \in Segments : segment[s] # None /\ segment[s].status = "recording"}
listOrphans ==
    Listed("listOrphans",
           LET ids == SetToSeq(Orphans)
           IN  [i \in DOMAIN ids |-> [do |-> "finalize", segment |-> ids[i]]])

startAllStreams ==
    Listed("listCameras",
           LET ids == SetToSeq({c \in Cameras : camera[c] # None})
           IN  FlattenSeq([i \in DOMAIN ids |-> StartCamera(ids[i], camera[ids[i]])]))

startAllJobs ==
    Listed("listJobs",
           LET ids == SetToSeq({j \in Jobs : job[j] # None /\ job[j].enabled})
           IN  FlattenSeq([i \in DOMAIN ids |-> SyncJob(ids[i], job[ids[i]])]))

\* What can be played of the file is measured: finalizeRecordingSegmentProbed,
\* or deleteRecordingSegmentById when there is nothing.
finalizeOrphan ==
    LET s == Arg(Boot).segment
    IN  /\ Query(Boot, "finalize")
        /\ segment' = [segment EXCEPT ![s] =
              IF @ = None \/ media[s].ms = 0 THEN None
              ELSE [@ EXCEPT !.status = "complete", !.ms = media[s].ms]]
        /\ Then(Boot, <<>>)
        /\ UNCHANGED <<rows, media, writing>>

-----------------------------------------------------------------------------
(* Calls into the runtime.                                                 *)

Direct(t, name) ==
    At(t, name) /\ UNCHANGED <<rows, segment, media, process, database>>

\* startCamera: the session of the camera, made if there is none, restarts with
\* the caller's copy.  The recording it stops leaves its row as it is.
startStream(t) ==
    LET c == Arg(t).camera
    IN  /\ Direct(t, "startStream") /\ Then(t, <<>>)
        /\ session' = [session EXCEPT ![c] = [version |-> Arg(t).row.version, on |-> TRUE]]
        /\ writing' = [writing EXCEPT ![c] = 0]
        /\ UNCHANGED <<group, unsure>>

stopStream(t) ==
    LET c == Arg(t).camera
    IN  /\ Direct(t, "stopStream") /\ Then(t, <<>>)
        /\ session' = [session EXCEPT ![c] = IF @ = None THEN None ELSE [@ EXCEPT !.on = FALSE]]
        /\ writing' = [writing EXCEPT ![c] = 0]
        /\ UNCHANGED <<group, unsure>>

\* cleanupCamera: motion is switched off only where there was a session.
cleanupStream(t) ==
    LET c == Arg(t).camera
    IN  /\ Direct(t, "cleanupStream")
        /\ Then(t, IF session[c] = None THEN <<>>
                   ELSE << [do |-> "motionOff", camera |-> c] >>)
        /\ session' = [session EXCEPT ![c] = None]
        /\ writing' = [writing EXCEPT ![c] = 0]
        /\ UNCHANGED <<group, unsure>>

\* A call of AiManager: nothing once stop() has run.
AiCall(t, name, newGroup, settled) ==
    /\ Direct(t, name) /\ Then(t, <<>>)
    /\ group' = [group EXCEPT ![Arg(t).camera] =
                    IF life = "aiStopped" THEN @ ELSE newGroup]
    /\ unsure' = unsure \ settled
    /\ UNCHANGED <<session, writing>>

DesiredJobs(g) == IF g = None THEN {} ELSE g.jobs
MotionOn(g, r) == [version |-> r.version, motion |-> TRUE, jobs |-> DesiredJobs(g)]
MotionOff(g) ==
    IF g = None \/ ~g.motion THEN g
    ELSE IF g.jobs = {} THEN None ELSE [g EXCEPT !.motion = FALSE]

\* setCameraMotion: switching on adopts the camera as the caller has it.
tellMotion(t) ==
    LET g == group[Arg(t).camera]
    IN  AiCall(t, "tellMotion",
               IF Arg(t).row.motion THEN MotionOn(g, Arg(t).row) ELSE MotionOff(g), {})
motionOff(t) == AiCall(t, "motionOff", MotionOff(group[Arg(t).camera]), {})

Without(jobs, j) == {x \in jobs : x.id # j}
applyJob(t) ==
    LET g == group[Arg(t).camera]
        desired == [id |-> Arg(t).job, enabled |-> Arg(t).enabled]
    IN  AiCall(t, "applyJob",
               [version |-> Arg(t).row.version, motion |-> g # None /\ g.motion,
                jobs |-> Without(DesiredJobs(g), Arg(t).job) \cup {desired}], {Arg(t).job})

\* removeJob: with its last job the group goes, whatever motion says.
removeJob(t) ==
    LET g == group[Arg(t).camera]
        left == Without(DesiredJobs(g), Arg(t).job)
    IN  AiCall(t, "removeJob", IF g = None \/ left = {} THEN None ELSE [g EXCEPT !.jobs = left],
               {Arg(t).job})

removeCamera(t) == AiCall(t, "removeCamera", None, {})

-----------------------------------------------------------------------------
(* When the database does not answer.                                      *)

Queries == {"createCamera", "putCamera", "deleteCamera", "getCamera", "requireCamera",
            "writeJob", "setJobEnabled", "deleteJob", "fetchCamera",
            "listOrphans", "listCameras", "listJobs", "finalize"}

\* getConnection() throws: the call ends in an error, the start-up thread
\* begins its step again.  A job whose row is written stays as it was.
QueryThrows(t) ==
    /\ ~dbUp /\ \E q \in Queries : At(t, q)
    /\ Ends(t)
    /\ unsure' = IF t # Boot /\ At(t, "fetchCamera") THEN unsure \cup {Arg(t).job} ELSE unsure
    /\ UNCHANGED <<rows, footage, process, database, runtime>>

\* A result without isSuccess(), where nobody asks for it: no step of Next,
\* which takes it that a database that is away throws (App.cpp:87).
QueryFailsQuietly(t) ==
    /\ ~dbUp
    /\ \E q \in {"fetchCamera", "listOrphans", "finalize"} : At(t, q)
    /\ Then(t, <<>>)
    /\ UNCHANGED <<rows, footage, process, database, runtime, unsure>>

-----------------------------------------------------------------------------
(* What clients ask for.                                                   *)

Clients(kind) ==
    life = "up" /\ (stage = Done \/ (stage > 1 /\ kind \in Early))

\* A call about an id; of a new row, the database hands the id out.
Calls(t, kind, id, steps) ==
    /\ Clients(kind) /\ todo[t] = <<>>
    /\ todo' = [todo EXCEPT ![t] = steps]
    /\ used' = used \cup {id}
    /\ UNCHANGED <<camera, job, footage, process, database, runtime, unsure>>

CameraCall(t) ==
    \E c \in Cameras, b \in BOOLEAN :
        LET new == [version |-> 1, motion |-> b]
        IN  \/ /\ c \notin used
               /\ Calls(t, "create", c,
                        << [do |-> "createCamera", camera |-> c, row |-> new] >>)
            \/ /\ c \in used
               /\ \/ /\ camera[c] # None => camera[c].version < MaxVersion
                     /\ Calls(t, "put", c,
                              << [do |-> "putCamera", camera |-> c, motion |-> b] >>)
                  \/ Calls(t, IF b THEN "start" ELSE "stop", c,
                           << [do |-> "getCamera", camera |-> c, start |-> b] >>)
                  \/ Calls(t, "delete", c, << [do |-> "deleteCamera", camera |-> c] >>)

\* An update may leave the camera out, and then keeps it.
JobCall(t) ==
    \E j \in Jobs, c \in Cameras, b \in BOOLEAN :
        LET write(new) == [do |-> "writeJob", job |-> j, new |-> new,
                           row |-> [camera |-> c, enabled |-> b]]
            exists == [do |-> "requireCamera", camera |-> c]
        IN  \/ j \notin used /\ c \in used /\ Calls(t, "createJob", j, <<exists, write(TRUE)>>)
            \/ /\ job[j] # None /\ (MovesJobs \/ c = job[j].camera)
               /\ \/ Calls(t, "updateJob", j, <<exists, write(FALSE)>>)
                  \/ c = job[j].camera /\ Calls(t, "updateJob", j, <<write(FALSE)>>)
            \/ j \in used /\ Calls(t, IF b THEN "startJob" ELSE "stopJob", j,
                                   << [do |-> "setJobEnabled", job |-> j, enabled |-> b] >>)
            \/ j \in used /\ Calls(t, "deleteJob", j, << [do |-> "deleteJob", job |-> j] >>)

-----------------------------------------------------------------------------
(* Recording: a stream that plays writes one segment after the other.  The  *)
(* sink swallows what the database refuses.                                *)

RowAccepted(c) == dbUp /\ camera[c] # None
Opened == {s \in Segments : media[s] # None}

OpenSegment(c) ==
    LET s == Cardinality(Opened) + 1
    IN  /\ session[c] # None /\ session[c].on /\ writing[c] = 0 /\ s \in Segments
        /\ writing' = [writing EXCEPT ![c] = s]
        /\ media' = [media EXCEPT ![s] = [camera |-> c, ms |-> 0, listed |-> RowAccepted(c)]]
        /\ segment' = [segment EXCEPT ![s] =
              IF RowAccepted(c) THEN [camera |-> c, status |-> "recording", run |-> runs, ms |-> 2]
              ELSE None]
        /\ UNCHANGED <<rows, process, database, runtime, todo, unsure>>

WriteSegment(c) ==
    /\ writing[c] # 0 /\ media[writing[c]].ms = 0
    /\ media' = [media EXCEPT ![writing[c]].ms = 1]
    /\ UNCHANGED <<rows, segment, writing, process, database, runtime, todo, unsure>>

\* insertRecordingSegment: inserts, or completes the row that is there.
CloseSegment(c) ==
    LET s == writing[c]
    IN  /\ s # 0 /\ media[s].ms > 0
        /\ writing' = [writing EXCEPT ![c] = 0]
        /\ IF RowAccepted(c)
           THEN /\ segment' = [segment EXCEPT ![s] =
                      [camera |-> c, status |-> "complete", run |-> runs, ms |-> media[s].ms]]
                /\ media' = [media EXCEPT ![s].listed = TRUE]
           ELSE UNCHANGED <<segment, media>>
        /\ UNCHANGED <<rows, process, database, runtime, todo, unsure>>

-----------------------------------------------------------------------------
(* Outages, crashes, and a process that is asked to stop.                  *)

DbGoes ==
    /\ dbUp /\ outages < MaxOutages
    /\ dbUp' = FALSE /\ outages' = outages + 1
    /\ UNCHANGED <<rows, footage, process, runtime, todo, unsure>>
DbReturns ==
    /\ ~dbUp /\ dbUp' = TRUE
    /\ UNCHANGED <<rows, footage, process, outages, runtime, todo, unsure>>

MemoryIsLost ==
    /\ session' = [c \in Cameras |-> None] /\ group' = [c \in Cameras |-> None]
    /\ writing' = [c \in Cameras |-> 0]
    /\ todo' = [t \in Threads |-> <<>>]
    /\ life' = "down" /\ unsure' = {}
    /\ UNCHANGED <<rows, segment, runs, stage, database>>

\* Of a file that was being written nothing may be left to play.
Crash ==
    /\ life # "down"
    /\ \E lost \in SUBSET {writing[c] : c \in Cameras} :
         media' = [s \in Segments |->
                      IF s \in lost THEN [media[s] EXCEPT !.ms = 0] ELSE media[s]]
    /\ MemoryIsLost

\* The HTTP server returns from run(), between calls.
Shutdown ==
    /\ life = "up" /\ \A t \in Callers : todo[t] = <<>>
    /\ life' = "closing"
    /\ UNCHANGED <<rows, footage, runs, stage, database, runtime, todo, unsure>>

\* dbStartupThread.join(), then AiManager::stop().
StopAi ==
    /\ life = "closing" /\ todo[Boot] = <<>>
    /\ life' = "aiStopped"
    /\ group' = [c \in Cameras |-> None]
    /\ UNCHANGED <<rows, footage, runs, stage, database, session, todo, unsure>>

\* GStreamerService::cleanup(), and the end of the process.
Exit == life = "aiStopped" /\ MemoryIsLost /\ UNCHANGED media

Launch ==
    /\ life = "down" /\ runs < MaxRuns
    /\ life' = "up" /\ runs' = runs + 1 /\ stage' = 1
    /\ UNCHANGED <<rows, footage, database, runtime, todo, unsure>>

-----------------------------------------------------------------------------
CallerStep(t) ==
    \/ createCamera(t) \/ putCamera(t) \/ deleteCamera(t) \/ getCamera(t)
    \/ requireCamera(t) \/ writeJob(t) \/ setJobEnabled(t) \/ deleteJob(t)
    \/ stopStream(t) \/ cleanupStream(t) \/ motionOff(t) \/ removeJob(t) \/ removeCamera(t)
SharedStep(t) ==
    \/ startStream(t) \/ tellMotion(t) \/ fetchCamera(t) \/ applyJob(t)
    \/ QueryThrows(t)
BootStep ==
    \/ BeginStage \/ EndStage \/ listOrphans \/ finalizeOrphan
    \/ startAllStreams \/ startAllJobs \/ SharedStep(Boot)
Recorder(c) == OpenSegment(c) \/ WriteSegment(c) \/ CloseSegment(c)

Next ==
    \/ \E t \in Callers : CallerStep(t) \/ SharedStep(t) \/ CameraCall(t) \/ JobCall(t)
    \/ BootStep
    \/ \E c \in Cameras : Recorder(c)
    \/ DbGoes \/ DbReturns \/ Crash \/ Shutdown \/ StopAi \/ Exit \/ Launch

\* The start-up thread runs, and the database comes back.
Spec == Init /\ [][Next]_vars /\ WF_vars(BootStep) /\ WF_vars(DbReturns)

\* The same with queries that fail quietly.
SpecQuiet == Init /\ [][Next \/ \E t \in Threads : QueryFailsQuietly(t)]_vars

-----------------------------------------------------------------------------
TypeOK ==
    /\ camera \in [Cameras -> Row \cup {None}] /\ job \in [Jobs -> JobRow \cup {None}]
    /\ segment \in [Segments -> Segment \cup {None}] /\ media \in [Segments -> File \cup {None}]
    /\ session \in [Cameras -> Session \cup {None}] /\ writing \in [Cameras -> 0..MaxSegments]
    /\ used \subseteq Cameras \cup Jobs /\ dbUp \in BOOLEAN /\ unsure \subseteq Jobs
    /\ runs \in Nat /\ stage \in 1..Done /\ life \in {"up", "closing", "aiStopped", "down"}
    /\ \A c \in Cameras : writing[c] # 0 => media[writing[c]].camera = c
    /\ \A s \in Segments : segment[s] # None => segment[s].camera = media[s].camera

\* After a crash or an outage the segments can be trusted again, once the
\* start-up thread has been over them: one that is "recording" is of this run,
\* one that is complete is as long as its file (CameraDb.hpp:281, App.cpp:42),
\* and footage that was listed and can be played still is.
OrphansAreSettled ==
    stage > 1 => \A s \in Segments : segment[s] # None =>
        IF segment[s].status = "recording" THEN segment[s].run = runs
        ELSE segment[s].ms = media[s].ms
FootageIsKept ==
    \A s \in Segments :
        media[s] # None /\ media[s].listed /\ media[s].ms > 0 /\ camera[media[s].camera] # None
            => segment[s] # None
RowsTellTheTruth == TypeOK /\ OrphansAreSettled /\ FootageIsKept

\* When nothing is under way, what runs is what the rows say: streams of the
\* cameras there are, from the row as it is now, and the enabled jobs on the
\* cameras they belong to.  A job is excused whose client was told of an error.
AtRest == life = "up" /\ stage = Done /\ \A t \in Threads : todo[t] = <<>>
StreamMatches(c) ==
    IF camera[c] = None THEN session[c] = None
    ELSE session[c] # None /\ session[c].version = camera[c].version
GroupMatches(c) ==
    group[c] # None =>
        /\ camera[c] # None
        /\ group[c].motion => camera[c].motion /\ group[c].version = camera[c].version
Runs(c, j) == group[c] # None /\ [id |-> j, enabled |-> TRUE] \in group[c].jobs
RuntimeMatchesRows ==
    AtRest => \A c \in Cameras :
        /\ StreamMatches(c) /\ GroupMatches(c)
        /\ \A j \in Jobs \ unsure :
              Runs(c, j) <=> job[j] = [camera |-> c, enabled |-> TRUE]

\* App.cpp:87: once the database can be reached, the start-up thread ends its
\* work, however often it was away, unless the process is stopped.
StartupHeals == life = "up" ~> stage = Done \/ life # "up"
=============================================================================
