-------------------------------- MODULE AiJob --------------------------------
(***************************************************************************)
(* One AI job, src/ai/pipeline/AiJob.hpp: the appsink thread submits frames *)
(* that are due, the worker runs the models on the latest, and the publish  *)
(* thread encodes a picture where one was granted and sends the result.     *)
(* Both hand-overs are BoundedQueues.                                      *)
(*                                                                         *)
(* Times are ages: how long ago something was last done, counted up to the  *)
(* largest gap the code compares it with.  Abstracted: what the models see  *)
(* (an object at a place, or nothing), the pixels of a picture (the frame   *)
(* it was taken from).                                                     *)
(***************************************************************************)
EXTENDS Naturals, Sequences, FiniteSets

CONSTANTS
    Places,          \* where the one object of the scene can be
    MaxFrames,       \* bound: frames submitted
    MaxPending,      \* kMaxPendingEncodes
    PublishRoom,     \* capacity of m_pubQueue
    AcceptGap,       \* 1000 / maxFps, 0 for no limit
    MoveGap,         \* kNewObjMinGapMs
    DetGap,          \* kDetJpegMinGapMs
    DebugGap,        \* kDebugMinGapMs
    DebugTtl,        \* ttlMs of armDebug
    WarmGap          \* kSnapshotWarmMs

Gaps == {AcceptGap, MoveGap, DetGap, DebugGap, DebugTtl, WarmGap}

ASSUME JobAssumption ==
    /\ MaxFrames \in Nat /\ MaxPending \in Nat /\ PublishRoom \in Nat
    /\ Gaps \subseteq Nat
    /\ MoveGap <= DetGap
    /\ "none" \notin Places

VARIABLES
    frames, framesAt,    \* m_queue
    results, resultsAt,  \* m_pubQueue
    running,    \* m_running
    stopper,    \* where the thread that calls stop() is
    worker,     \* where the worker is: "idle" (not created), "pop", "infer",
                \* "push" (its result decided) or "gone"
    publisher,  \* "idle", "pop", "encode", "send", "drop" or "gone"
    made,       \* the PublishItem in the worker's hands, or NoItem
    item,       \* the PublishItems in m_pubQueue or the publisher's hands
    pending,    \* m_pendingEncodes
    coder,      \* frames pushed into the encoder whose pictures nobody pulled
    centres,    \* m_lastEncodedCentres, "none" when empty
    age,        \* since the last accepted frame, encode and debug encode
    debugLeft,  \* what is left until m_debugUntilMs
    sent        \* history: the frame of the last result the sink was given

jobVars   == <<running, stopper>>
queueVars == <<frames, framesAt, results, resultsAt>>
budgetVars == <<made, item, pending>>
timeVars  == <<age, debugLeft, centres>>
vars == <<jobVars, queueVars, worker, publisher, budgetVars, coder, timeVars, sent>>

Frames == INSTANCE BoundedQueue WITH
    Threads <- {"appsink", "worker", "stopper"}, Requested <- 1,
    queue <- frames, at <- framesAt
Results == INSTANCE BoundedQueue WITH
    Threads <- {"worker", "publisher", "stopper"}, Requested <- PublishRoom,
    queue <- results, at <- resultsAt

\* A result: its frame, the place of its detection, whether it holds a ticket
\* (and with it the frame itself), and the frame its picture shows (0: none).
NoItem == [frame |-> 0, ticket |-> FALSE, picture |-> 0]

Old == [accept |-> AcceptGap, det |-> DetGap, debug |-> DebugGap, encode |-> WarmGap]

Init ==
    /\ Frames!Init /\ Results!Init
    /\ running = FALSE /\ stopper = "out"
    /\ worker = "idle" /\ publisher = "idle"
    /\ made = NoItem /\ item = [n \in 1..MaxFrames |-> NoItem]
    /\ pending = 0 /\ coder = <<>>
    /\ centres = "none" /\ age = Old /\ debugLeft = 0
    /\ sent = 0

-----------------------------------------------------------------------------
(* start() and stop()                                                      *)

Start ==
    /\ ~running /\ stopper = "out"
    /\ running' = TRUE
    /\ worker' = "pop" /\ publisher' = "pop"
    /\ UNCHANGED <<stopper, queueVars, budgetVars, coder, timeVars, sent>>

\* stop(): close the frames, join the worker, close the results, join the
\* publisher.
StopBegins ==
    /\ running /\ stopper = "out"
    /\ running' = FALSE
    /\ stopper' = "frames"
    /\ UNCHANGED <<queueVars, worker, publisher, budgetVars, coder, timeVars, sent>>

CloseFrames ==
    /\ stopper = "frames"
    /\ Frames!Close("stopper")
    /\ stopper' = "worker"
    /\ UNCHANGED <<running, results, resultsAt, worker, publisher, budgetVars,
                   coder, timeVars, sent>>

JoinForgotten == TRUE
WorkerJoined == worker = "gone"

CloseResults ==
    /\ stopper = "worker"
    /\ framesAt["stopper"] = "out"
    /\ WorkerJoined
    /\ Results!Close("stopper")
    /\ stopper' = "publisher"
    /\ UNCHANGED <<running, frames, framesAt, worker, publisher, budgetVars,
                   coder, timeVars, sent>>

Stopped ==
    /\ stopper = "publisher"
    /\ resultsAt["stopper"] = "out"
    /\ publisher = "gone"
    /\ stopper' = "done"
    /\ UNCHANGED <<running, queueVars, worker, publisher, budgetVars, coder,
                   timeVars, sent>>

-----------------------------------------------------------------------------
(* The appsink thread: wantsFrame, then noteAccepted and submit.           *)

wantsFrame == AcceptGap = 0 \/ age.accept >= AcceptGap

\* rebuildLocked starts the jobs before the pipeline that feeds them.
Submit ==
    /\ worker # "idle"
    /\ wantsFrame
    /\ frames.pushed < MaxFrames
    /\ Frames!Push("appsink")
    /\ age' = [age EXCEPT !.accept = 0]
    /\ UNCHANGED <<jobVars, results, resultsAt, worker, publisher, budgetVars,
                   coder, debugLeft, centres, sent>>

\* A frame that comes while the job stops is refused by its queue.
SubmitRefused ==
    /\ worker # "idle"
    /\ wantsFrame
    /\ Frames!PushRefused("appsink")
    /\ age' = [age EXCEPT !.accept = 0]
    /\ UNCHANGED <<jobVars, results, resultsAt, worker, publisher, budgetVars,
                   coder, debugLeft, centres, sent>>

armDebug ==
    /\ debugLeft' = DebugTtl
    /\ UNCHANGED <<jobVars, queueVars, worker, publisher, budgetVars, coder,
                   age, centres, sent>>

-----------------------------------------------------------------------------
(* The worker: run() and process().                                        *)

WorkerUnchanged ==
    UNCHANGED <<jobVars, results, resultsAt, publisher, budgetVars, coder,
                timeVars, sent>>

WorkerPops ==
    /\ worker = "pop"
    /\ resultsAt["worker"] = "out"
    /\ \/ Frames!Pop("worker") /\ UNCHANGED worker
       \/ Frames!Wait("worker") /\ UNCHANGED worker
       \/ Frames!Take("worker") /\ worker' = "infer"
       \/ Frames!End("worker") /\ worker' = "gone"
    /\ WorkerUnchanged

\* An object is new, or further from where the last picture has it than the
\* threshold.
Moved(place) == centres = "none" \/ place # centres

DetEncode(place) ==
    /\ place # "none"
    /\ age.det >= DetGap \/ (age.det >= MoveGap /\ Moved(place))
DebugEncode(place) ==
    place = "none" /\ debugLeft > 0 /\ age.debug >= DebugGap
Encode(place) ==
    DetEncode(place) \/ DebugEncode(place) \/ age.encode >= WarmGap

Budget == pending < MaxPending

\* What process() decides when the models are through: whether a picture is
\* due, and whether the budget grants it.
Infer ==
    /\ worker = "infer"
    /\ worker' = "push"
    /\ \E place \in Places \cup {"none"} :
         LET granted == Encode(place) /\ Budget IN
         /\ age' = [age EXCEPT
                      !.det = IF DetEncode(place) THEN 0 ELSE @,
                      !.debug = IF DebugEncode(place) THEN 0 ELSE @,
                      !.encode = IF Encode(place) THEN 0 ELSE @]
         /\ centres' = IF Encode(place) THEN place ELSE centres
         /\ made' = [frame |-> frames.popped, ticket |-> granted, picture |-> 0]
         /\ pending' = pending + IF granted THEN 1 ELSE 0
    /\ UNCHANGED <<jobVars, queueVars, publisher, item, coder, debugLeft, sent>>

\* The result goes into m_pubQueue; what it displaces is destroyed, and gives
\* its ticket back.  The queue is open: stop() joins the worker first.
Lost(numbers) == 0
Returned(numbers) == Cardinality({n \in numbers : item[n].ticket})

PushResult ==
    /\ worker = "push"
    /\ Results!Push("worker")
    /\ worker' = "pop"
    /\ item' = [n \in 1..MaxFrames |->
                   CASE n = results.pushed + 1 -> made
                     [] n \in Results!Displaced -> NoItem
                     [] OTHER -> item[n]]
    /\ pending' = pending - Returned(Results!Displaced)
    /\ made' = NoItem
    /\ UNCHANGED <<jobVars, frames, framesAt, publisher, coder, timeVars, sent>>

-----------------------------------------------------------------------------
(* The publish thread: publishLoop().                                      *)

Current == item[results.popped]

PublisherPops ==
    /\ publisher = "pop"
    /\ \/ Results!Pop("publisher") /\ UNCHANGED publisher
       \/ Results!Wait("publisher") /\ UNCHANGED publisher
       \/ /\ Results!Take("publisher")
          /\ publisher' = IF item[Head(results.items)].ticket THEN "encode" ELSE "send"
       \/ Results!End("publisher") /\ publisher' = "gone"
    /\ UNCHANGED <<jobVars, frames, framesAt, worker, budgetVars, coder, timeVars, sent>>

\* JpegEncoder::encodeNv12: push a frame, pull the next picture.  When none
\* comes in time the pipeline is torn down, and with it whatever is inside.
AfterTimeout(inside) == <<>>

Encodes ==
    /\ publisher = "encode"
    /\ publisher' = "send"
    /\ LET inside == Append(coder, Current.frame) IN
       \/ /\ item' = [item EXCEPT ![results.popped].picture = Head(inside)]
          /\ coder' = Tail(inside)
       \/ item' = item /\ coder' = AfterTimeout(inside)
       \/ item' = item /\ coder' = coder        \* the push failed
    /\ UNCHANGED <<jobVars, queueVars, worker, made, pending, timeVars, sent>>

Send ==
    /\ publisher = "send"
    /\ publisher' = "drop"
    /\ sent' = Current.frame
    /\ UNCHANGED <<jobVars, queueVars, worker, budgetVars, coder, timeVars>>

\* item = PublishItem{}
DropItem ==
    /\ publisher = "drop"
    /\ publisher' = "pop"
    /\ pending' = pending - Returned({results.popped})
    /\ item' = [item EXCEPT ![results.popped] = NoItem]
    /\ UNCHANGED <<jobVars, queueVars, worker, made, coder, timeVars, sent>>

-----------------------------------------------------------------------------
\* The steps of the queues' own: notifications and wake-ups.
Notify ==
    /\ \/ /\ \E t \in {"appsink", "worker", "stopper"} :
                Frames!NotifyOne(t) \/ Frames!NotifyAll(t)
          /\ UNCHANGED <<results, resultsAt>>
       \/ /\ \E t \in {"worker", "publisher", "stopper"} :
                Results!NotifyOne(t) \/ Results!NotifyAll(t)
          /\ UNCHANGED <<frames, framesAt>>
    /\ UNCHANGED <<jobVars, worker, publisher, budgetVars, coder, timeVars, sent>>

Wake ==
    /\ \/ Frames!Spurious("worker") /\ UNCHANGED <<results, resultsAt>>
       \/ Results!Spurious("publisher") /\ UNCHANGED <<frames, framesAt>>
    /\ UNCHANGED <<jobVars, worker, publisher, budgetVars, coder, timeVars, sent>>

Older(now, gap) == IF now < gap THEN now + 1 ELSE now

Tick ==
    /\ age' = [accept |-> Older(age.accept, AcceptGap),
               det |-> Older(age.det, DetGap),
               debug |-> Older(age.debug, DebugGap),
               encode |-> Older(age.encode, WarmGap)]
    /\ debugLeft' = IF debugLeft > 0 THEN debugLeft - 1 ELSE 0
    /\ UNCHANGED <<jobVars, queueVars, worker, publisher, budgetVars, coder,
                   centres, sent>>

Worker == WorkerPops \/ Infer \/ PushResult
PublisherRest == PublisherPops \/ Encodes \/ DropItem
Stopper == CloseFrames \/ CloseResults \/ Stopped

\* Everything but Send, which happens together with the publisher's socket.
NextButSend ==
    \/ Start \/ StopBegins \/ Stopper
    \/ Submit \/ SubmitRefused \/ armDebug
    \/ Worker \/ PublisherRest
    \/ Notify \/ Wake \/ Tick

-----------------------------------------------------------------------------
(* Properties.                                                             *)

TypeOK ==
    /\ Frames!TypeOK /\ Results!TypeOK
    /\ running \in BOOLEAN
    /\ stopper \in {"out", "frames", "worker", "publisher", "done"}
    /\ worker \in {"idle", "pop", "infer", "push", "gone"}
    /\ publisher \in {"idle", "pop", "encode", "send", "drop", "gone"}
    /\ centres \in Places \cup {"none"}
    /\ pending \in 0..MaxFrames
    /\ debugLeft \in 0..DebugTtl

\* A ticket is given back on every path: m_pendingEncodes counts the results
\* that hold one, wherever they are, and never more than the budget, so the
\* publish lane pins no more decoder buffers than that, and the job is not
\* reduced to metadata for ever by a count that leaks.
Holders == {n \in 1..MaxFrames : item[n].ticket}
BudgetIsExact ==
    /\ pending = Cardinality(Holders) + (IF made.ticket THEN 1 ELSE 0)
    /\ pending <= MaxPending

\* Whatever timed out before, a picture shows the frame of its result.
PictureIsOfItsFrame ==
    \A n \in 1..MaxFrames : item[n].picture \in {0, item[n].frame}

\* stop() loses no result: when it is done, what the worker made has been
\* sent, but for what the queue displaced while the publisher was stalled.
StopLosesNothing ==
    stopper = "done" =>
        /\ frames.items = <<>> /\ results.items = <<>>
        /\ pending = 0
        /\ results.popped = results.pushed
        /\ sent = frames.popped

\* Both queues are the channels they promise to be, the newest item always
\* getting through in the end.
QueuesAreFresh == Frames!Channel!Spec /\ Results!Channel!Spec

\* stop() returns.
StopReturns == stopper = "frames" ~> stopper = "done"
=============================================================================
