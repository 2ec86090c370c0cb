--------------------------- MODULE AiResultsProofs ---------------------------
(* What becomes of the results of an AI job, proved for every number of      *)
(* frames and consumers, every budget and every capacity: each queue is the  *)
(* channel it promises to be, the budget is neither exceeded nor leaked, a   *)
(* consumer can read what it is sent, and stopping leaves nothing behind.    *)
EXTENDS AiResults, FiniteSetTheorems, TLAPS

FrameThreads  == {"appsink", "worker", "stopper"}
ResultThreads == {"worker", "publisher", "stopper"}

FQ == INSTANCE BoundedQueueProofs WITH
    Threads <- FrameThreads, Requested <- 1, queue <- frames, at <- framesAt
RQ == INSTANCE BoundedQueueProofs WITH
    Threads <- ResultThreads, Requested <- PublishRoom, queue <- results, at <- resultsAt

-----------------------------------------------------------------------------
(* The queues of the job are the queues of the proofs.                      *)

LEMMA FramesSame ==
  /\ Frames!Init <=> FQ!Init
  /\ \A t : /\ Frames!Push(t) <=> FQ!Push(t)
            /\ Frames!PushRefused(t) <=> FQ!PushRefused(t)
            /\ Frames!Close(t) <=> FQ!Close(t)
            /\ Frames!Pop(t) <=> FQ!Pop(t)
            /\ Frames!Take(t) <=> FQ!Take(t)
            /\ Frames!End(t) <=> FQ!End(t)
            /\ Frames!Wait(t) <=> FQ!Wait(t)
            /\ Frames!NotifyOne(t) <=> FQ!NotifyOne(t)
            /\ Frames!NotifyAll(t) <=> FQ!NotifyAll(t)
            /\ Frames!Spurious(t) <=> FQ!Spurious(t)
  /\ Frames!TypeOK <=> FQ!TypeOK
<1> USE DEF FrameThreads
<1>1. Frames!Init <=> FQ!Init
  BY DEF Frames!Init, FQ!Init
<1>2. Frames!TypeOK <=> FQ!TypeOK
  BY DEF Frames!TypeOK, FQ!TypeOK, Frames!Stages, FQ!Stages
<1>3. ASSUME NEW t
      PROVE  /\ Frames!Push(t) <=> FQ!Push(t)
             /\ Frames!PushRefused(t) <=> FQ!PushRefused(t)
             /\ Frames!Close(t) <=> FQ!Close(t)
             /\ Frames!Pop(t) <=> FQ!Pop(t)
             /\ Frames!Take(t) <=> FQ!Take(t)
             /\ Frames!End(t) <=> FQ!End(t)
             /\ Frames!Wait(t) <=> FQ!Wait(t)
             /\ Frames!NotifyOne(t) <=> FQ!NotifyOne(t)
             /\ Frames!NotifyAll(t) <=> FQ!NotifyAll(t)
             /\ Frames!Spurious(t) <=> FQ!Spurious(t)
  <2>1. Frames!Push(t) <=> FQ!Push(t)
    BY Zenon DEF Frames!Push, FQ!Push, Frames!Put, FQ!Put, Frames!Room, FQ!Room,
           Frames!Capacity, FQ!Capacity
  <2>2. Frames!PushRefused(t) <=> FQ!PushRefused(t)
    BY Zenon DEF Frames!PushRefused, FQ!PushRefused, Frames!vars, FQ!vars
  <2>3. Frames!Close(t) <=> FQ!Close(t)
    BY Zenon DEF Frames!Close, FQ!Close, Frames!Put, FQ!Put
  <2>4. /\ Frames!Pop(t) <=> FQ!Pop(t)
        /\ Frames!End(t) <=> FQ!End(t)
        /\ Frames!Wait(t) <=> FQ!Wait(t)
        /\ Frames!Spurious(t) <=> FQ!Spurious(t)
    BY Zenon DEF Frames!Pop, FQ!Pop, Frames!End, FQ!End, Frames!Wait, FQ!Wait,
           Frames!Spurious, FQ!Spurious, Frames!Put, FQ!Put
  <2>5. Frames!Take(t) <=> FQ!Take(t)
    BY Zenon DEF Frames!Take, FQ!Take, Frames!Put, FQ!Put
  <2>6. /\ Frames!NotifyOne(t) <=> FQ!NotifyOne(t)
        /\ Frames!NotifyAll(t) <=> FQ!NotifyAll(t)
    BY Zenon DEF Frames!NotifyOne, FQ!NotifyOne, Frames!NotifyAll, FQ!NotifyAll,
           Frames!Waiting, FQ!Waiting, Frames!Put, FQ!Put
  <2> QED
    BY <2>1, <2>2, <2>3, <2>4, <2>5, <2>6
<1> QED
  BY <1>1, <1>2, <1>3

LEMMA ResultsSame ==
  /\ Results!Init <=> RQ!Init
  /\ \A t : /\ Results!Push(t) <=> RQ!Push(t)
            /\ Results!PushRefused(t) <=> RQ!PushRefused(t)
            /\ Results!Close(t) <=> RQ!Close(t)
            /\ Results!Pop(t) <=> RQ!Pop(t)
            /\ Results!Take(t) <=> RQ!Take(t)
            /\ Results!End(t) <=> RQ!End(t)
            /\ Results!Wait(t) <=> RQ!Wait(t)
            /\ Results!NotifyOne(t) <=> RQ!NotifyOne(t)
            /\ Results!NotifyAll(t) <=> RQ!NotifyAll(t)
            /\ Results!Spurious(t) <=> RQ!Spurious(t)
  /\ Results!TypeOK <=> RQ!TypeOK
<1> USE DEF ResultThreads
<1>1. Results!Init <=> RQ!Init
  BY DEF Results!Init, RQ!Init
<1>2. Results!TypeOK <=> RQ!TypeOK
  BY DEF Results!TypeOK, RQ!TypeOK, Results!Stages, RQ!Stages
<1>3. ASSUME NEW t
      PROVE  /\ Results!Push(t) <=> RQ!Push(t)
             /\ Results!PushRefused(t) <=> RQ!PushRefused(t)
             /\ Results!Close(t) <=> RQ!Close(t)
             /\ Results!Pop(t) <=> RQ!Pop(t)
             /\ Results!Take(t) <=> RQ!Take(t)
             /\ Results!End(t) <=> RQ!End(t)
             /\ Results!Wait(t) <=> RQ!Wait(t)
             /\ Results!NotifyOne(t) <=> RQ!NotifyOne(t)
             /\ Results!NotifyAll(t) <=> RQ!NotifyAll(t)
             /\ Results!Spurious(t) <=> RQ!Spurious(t)
  <2>1. Results!Push(t) <=> RQ!Push(t)
    BY Zenon DEF Results!Push, RQ!Push, Results!Put, RQ!Put, Results!Room, RQ!Room,
           Results!Capacity, RQ!Capacity
  <2>2. Results!PushRefused(t) <=> RQ!PushRefused(t)
    BY Zenon DEF Results!PushRefused, RQ!PushRefused, Results!vars, RQ!vars
  <2>3. Results!Close(t) <=> RQ!Close(t)
    BY Zenon DEF Results!Close, RQ!Close, Results!Put, RQ!Put
  <2>4. /\ Results!Pop(t) <=> RQ!Pop(t)
        /\ Results!End(t) <=> RQ!End(t)
        /\ Results!Wait(t) <=> RQ!Wait(t)
        /\ Results!Spurious(t) <=> RQ!Spurious(t)
    BY Zenon DEF Results!Pop, RQ!Pop, Results!End, RQ!End, Results!Wait, RQ!Wait,
           Results!Spurious, RQ!Spurious, Results!Put, RQ!Put
  <2>5. Results!Take(t) <=> RQ!Take(t)
    BY Zenon DEF Results!Take, RQ!Take, Results!Put, RQ!Put
  <2>6. /\ Results!NotifyOne(t) <=> RQ!NotifyOne(t)
        /\ Results!NotifyAll(t) <=> RQ!NotifyAll(t)
    BY Zenon DEF Results!NotifyOne, RQ!NotifyOne, Results!NotifyAll, RQ!NotifyAll,
           Results!Waiting, RQ!Waiting, Results!Put, RQ!Put
  <2> QED
    BY <2>1, <2>2, <2>3, <2>4, <2>5, <2>6
<1> QED
  BY <1>1, <1>2, <1>3

-----------------------------------------------------------------------------
(* What a step of the job does to its queues.                               *)

FramesTouched ==
    \/ \E t \in FrameThreads :
          \/ FQ!Push(t) \/ FQ!PushRefused(t) \/ FQ!Close(t)
          \/ FQ!Pop(t) \/ FQ!Take(t) \/ FQ!End(t) \/ FQ!Wait(t)
          \/ FQ!NotifyOne(t) \/ FQ!NotifyAll(t) \/ FQ!Spurious(t)
    \/ UNCHANGED <<frames, framesAt>>
ResultsTouched ==
    \/ \E t \in ResultThreads :
          \/ RQ!Push(t) \/ RQ!PushRefused(t) \/ RQ!Close(t)
          \/ RQ!Pop(t) \/ RQ!Take(t) \/ RQ!End(t) \/ RQ!Wait(t)
          \/ RQ!NotifyOne(t) \/ RQ!NotifyAll(t) \/ RQ!Spurious(t)
    \/ UNCHANGED <<results, resultsAt>>

LEMMA StepTouches == [NextResults]_allVars => FramesTouched /\ ResultsTouched
<1> SUFFICES ASSUME [NextResults]_allVars PROVE FramesTouched /\ ResultsTouched
  OBVIOUS
<1> USE FramesSame, ResultsSame DEF FramesTouched, ResultsTouched, FrameThreads,
        ResultThreads, queueVars
<1>1. CASE Start \/ StopBegins \/ Stopped \/ armDebug \/ Infer \/ Encodes \/ Send \/ DropItem \/ Tick
           \/ UNCHANGED vars
  BY <1>1 DEF Start, StopBegins, Stopped, armDebug, Infer, Encodes, Send, DropItem, Tick, vars
<1>2. CASE CloseFrames
  BY <1>2 DEF CloseFrames
<1>3. CASE CloseResults
  BY <1>3 DEF CloseResults
<1>4. CASE Submit
  BY <1>4 DEF Submit
<1>5. CASE SubmitRefused
  BY <1>5 DEF SubmitRefused
<1>6. CASE WorkerPops
  BY <1>6 DEF WorkerPops, WorkerUnchanged
<1>7. CASE PushResult
  BY <1>7 DEF PushResult
<1>8. CASE PublisherPops
  BY <1>8 DEF PublisherPops
<1>9. CASE Notify
  BY <1>9 DEF Notify
<1>10. CASE Wake
  BY <1>10 DEF Wake
<1> HIDE FramesSame, ResultsSame
<1> QED
  BY <1>1, <1>2, <1>3, <1>4, <1>5, <1>6, <1>7, <1>8, <1>9, <1>10
     DEF NextResults, NextButSend, Stopper, Worker, PublisherRest, allVars

LEMMA QueuesAreQueues == SpecResults => FQ!Spec /\ RQ!Spec
<1>1. InitResults => FQ!Init /\ RQ!Init
  BY FramesSame, ResultsSame DEF InitResults, Init
<1>2. [NextResults]_allVars => [FQ!Next]_FQ!vars /\ [RQ!Next]_RQ!vars
  BY StepTouches DEF FramesTouched, ResultsTouched, FQ!Next, RQ!Next, FQ!vars, RQ!vars
<1> QED
  BY <1>1, <1>2, PTL DEF SpecResults, FQ!Spec, RQ!Spec

LEMMA QueuesKeepOrder == SpecResults => [](FQ!IInv /\ RQ!IInv)
<1>1. FQ!Spec => [](FQ!TypeOK /\ FQ!Fresh)
  BY FQ!QueueIsFresh
<1>2. RQ!Spec => [](RQ!TypeOK /\ RQ!Fresh)
  BY RQ!QueueIsFresh, JobAssumption
<1>3. (FQ!TypeOK /\ FQ!Fresh => FQ!IInv) /\ (RQ!TypeOK /\ RQ!Fresh => RQ!IInv)
  BY DEF FQ!IInv, RQ!IInv
<1> QED
  BY <1>1, <1>2, <1>3, QueuesAreQueues, PTL

(* Whatever the threads of the job do, the hand-over of frames (a queue of    *)
(* one) and that of results are lossy channels that keep the newest           *)
(* (BoundedQueue in AiJob), for every capacity.                              *)
THEOREM HandOversAreChannels ==
  SpecResults => FQ!Channel!Safety /\ RQ!Channel!Safety
<1>1. FQ!Spec => FQ!Channel!Safety
  BY FQ!QueueImplementsChannel
<1>2. RQ!Spec => RQ!Channel!Safety
  BY RQ!QueueImplementsChannel, JobAssumption
<1> QED
  BY <1>1, <1>2, QueuesAreQueues, PTL

-----------------------------------------------------------------------------
(* The steps as they look from outside the queues, which hold the numbers    *)
(* after First up to pushed.                                                *)

QInv == FQ!IInv /\ RQ!IInv

(* The numbers. *)
LEMMA Numbers ==
  ASSUME QInv
  PROVE  /\ frames.pushed \in Nat /\ frames.popped \in Nat /\ FQ!First \in Nat
         /\ frames.popped <= FQ!First /\ FQ!First <= frames.pushed
         /\ frames.items = <<>> <=> FQ!First = frames.pushed
         /\ frames.closed \in BOOLEAN
         /\ results.pushed \in Nat /\ results.popped \in Nat /\ RQ!First \in Nat
         /\ results.popped <= RQ!First /\ RQ!First <= results.pushed
         /\ results.items = <<>> <=> RQ!First = results.pushed
         /\ results.closed \in BOOLEAN
         /\ results.items # <<>> => Head(results.items) = RQ!First + 1
         /\ MaxFrames \in Nat /\ MaxPending \in Nat
<1>1. FQ!IInv /\ RQ!IInv /\ PublishRoom \in Nat /\ 1 \in Nat
  BY JobAssumption DEF QInv
<1>2. frames.closed \in BOOLEAN
  BY <1>1 DEF FQ!IInv, FQ!TypeOK
<1>3. results.closed \in BOOLEAN
  BY <1>1 DEF RQ!IInv, RQ!TypeOK
<1> QED
  BY <1>1, <1>2, <1>3, FQ!View, RQ!View, JobAssumption

(* A frame is submitted. *)
LEMMA SubmitSeen ==
  ASSUME QInv, Submit
  PROVE  /\ worker # "idle" /\ frames.pushed < MaxFrames /\ frames.closed = FALSE
         /\ frames'.pushed = frames.pushed + 1 /\ frames'.popped = frames.popped
         /\ frames'.closed = FALSE /\ (FQ!First)' < frames'.pushed
         /\ results' = results
         /\ UNCHANGED <<running, stopper, worker, publisher, made, item, pending, coder,
                        debugLeft, centres, sent>>
<1>1. FQ!IInv /\ 1 \in Nat /\ "appsink" \in FrameThreads
  BY DEF QInv, FrameThreads
<1>2. FQ!Push("appsink")
  BY FramesSame DEF Submit
<1> QED
  BY <1>1, <1>2, FQ!PushView DEF Submit, jobVars, budgetVars

(* The worker looks, takes the oldest frame, or finds the queue closed.       *)
LEMMA WorkerPopsSeen ==
  ASSUME QInv, WorkerPops
  PROVE  /\ worker = "pop" /\ results' = results
         /\ UNCHANGED <<running, stopper, publisher, made, item, pending, coder, age,
                        debugLeft, centres, sent>>
         /\ \/ frames' = frames /\ worker' = worker
            \/ /\ frames'.pushed = frames.pushed /\ frames'.closed = frames.closed
               /\ frames'.popped = FQ!First + 1 /\ FQ!First < frames.pushed
               /\ (FQ!First)' = FQ!First + 1
               /\ worker' = "infer"
            \/ /\ frames' = frames /\ frames.items = <<>> /\ frames.closed = TRUE
               /\ worker' = "gone"
<1>1. FQ!IInv /\ 1 \in Nat /\ "worker" \in FrameThreads
  BY DEF QInv, FrameThreads
<1> DEFINE Seen ==
              \/ frames' = frames /\ worker' = worker
              \/ /\ frames'.pushed = frames.pushed /\ frames'.closed = frames.closed
                 /\ frames'.popped = FQ!First + 1 /\ FQ!First < frames.pushed
                 /\ (FQ!First)' = FQ!First + 1
                 /\ worker' = "infer"
              \/ /\ frames' = frames /\ frames.items = <<>> /\ frames.closed = TRUE
                 /\ worker' = "gone"
<1>2. ASSUME (Frames!Pop("worker") \/ Frames!Wait("worker")) /\ UNCHANGED worker
      PROVE  Seen
  <2>1. FQ!Pop("worker") \/ FQ!Wait("worker")
    BY <1>2, FramesSame
  <2>2. frames' = frames
    BY <1>1, <2>1, FQ!RestView
  <2> QED
    BY <1>2, <2>2
<1>3. ASSUME Frames!Take("worker") /\ worker' = "infer" PROVE Seen
  <2>1. FQ!Take("worker")
    BY <1>3, FramesSame
  <2>2. /\ frames'.pushed = frames.pushed /\ frames'.popped = FQ!First + 1
        /\ frames'.closed = frames.closed
        /\ FQ!First < frames.pushed /\ (FQ!First)' = FQ!First + 1
    BY <1>1, <2>1, FQ!TakeView
  <2> QED
    BY <1>3, <2>2
<1>4. ASSUME Frames!End("worker") /\ worker' = "gone" PROVE Seen
  <2>1. FQ!End("worker")
    BY <1>4, FramesSame
  <2>2. frames' = frames /\ frames.items = <<>> /\ frames.closed
    BY <2>1 DEF FQ!End
  <2> QED
    BY <1>4, <2>2, Numbers
<1>5. worker = "pop" /\ WorkerUnchanged
  BY DEF WorkerPops
<1>6. /\ results' = results
      /\ UNCHANGED <<running, stopper, publisher, made, item, pending, coder, age,
                     debugLeft, centres, sent>>
  BY <1>5 DEF WorkerUnchanged, jobVars, budgetVars, timeVars
<1>7. Seen
  BY <1>2, <1>3, <1>4 DEF WorkerPops
<1> QED
  BY <1>5, <1>6, <1>7

(* The worker hands a result over, which may displace the oldest.             *)
LEMMA PushResultSeen ==
  ASSUME QInv, PushResult
  PROVE  /\ worker = "push" /\ worker' = "pop" /\ frames' = frames
         /\ results.closed = FALSE /\ results'.closed = FALSE
         /\ results'.pushed = results.pushed + 1 /\ results'.popped = results.popped
         /\ (RQ!First)' < results'.pushed
         /\ \/ Results!Displaced = {} /\ (RQ!First)' = RQ!First
            \/ /\ Results!Displaced = {RQ!First + 1} /\ (RQ!First)' = RQ!First + 1
               /\ RQ!First < results.pushed
         /\ UNCHANGED <<running, stopper, publisher, coder, age, debugLeft, centres, sent>>
<1>1. RQ!IInv /\ PublishRoom \in Nat /\ "worker" \in ResultThreads
  BY JobAssumption DEF QInv, ResultThreads
<1>2. RQ!Push("worker")
  BY ResultsSame DEF PushResult
<1>3. Results!Displaced = RQ!Displaced
  BY DEF Results!Displaced, RQ!Displaced, Results!Capacity, RQ!Capacity
<1>4. \/ RQ!Displaced = {}
      \/ RQ!Displaced = {RQ!First + 1} /\ RQ!First < results.pushed
  BY <1>1, RQ!View
<1>5. /\ results'.pushed = results.pushed + 1 /\ results'.popped = results.popped
      /\ results.closed = FALSE /\ results'.closed = FALSE
      /\ (RQ!First)' < results'.pushed
      /\ \/ RQ!Displaced = {} /\ (RQ!First)' = RQ!First
         \/ RQ!Displaced = {RQ!First + 1} /\ (RQ!First)' = RQ!First + 1
  BY <1>1, <1>2, RQ!PushView
<1>6. /\ worker = "push" /\ worker' = "pop" /\ frames' = frames
      /\ UNCHANGED <<running, stopper, publisher, coder, age, debugLeft, centres, sent>>
  BY DEF PushResult, jobVars, timeVars
<1> QED
  BY <1>3, <1>4, <1>5, <1>6

(* The publisher looks, takes the oldest result, or finds the queue closed.   *)
LEMMA PublisherPopsSeen ==
  ASSUME QInv, PublisherPops
  PROVE  /\ publisher = "pop" /\ frames' = frames
         /\ UNCHANGED <<running, stopper, worker, made, item, pending, coder, age,
                        debugLeft, centres, sent>>
         /\ \/ results' = results /\ publisher' = publisher
            \/ /\ results'.pushed = results.pushed /\ results'.closed = results.closed
               /\ results'.popped = RQ!First + 1 /\ RQ!First < results.pushed
               /\ (RQ!First)' = RQ!First + 1
               /\ publisher' = IF item[RQ!First + 1].ticket THEN "encode" ELSE "send"
            \/ /\ results' = results /\ results.items = <<>> /\ results.closed = TRUE
               /\ publisher' = "gone"
<1>1. RQ!IInv /\ PublishRoom \in Nat /\ "publisher" \in ResultThreads
  BY JobAssumption DEF QInv, ResultThreads
<1> DEFINE Seen ==
              \/ results' = results /\ publisher' = publisher
              \/ /\ results'.pushed = results.pushed /\ results'.closed = results.closed
                 /\ results'.popped = RQ!First + 1 /\ RQ!First < results.pushed
                 /\ (RQ!First)' = RQ!First + 1
                 /\ publisher' = IF item[RQ!First + 1].ticket THEN "encode" ELSE "send"
              \/ /\ results' = results /\ results.items = <<>> /\ results.closed = TRUE
                 /\ publisher' = "gone"
<1>2. ASSUME (Results!Pop("publisher") \/ Results!Wait("publisher")) /\ UNCHANGED publisher
      PROVE  Seen
  <2>1. RQ!Pop("publisher") \/ RQ!Wait("publisher")
    BY <1>2, ResultsSame
  <2>2. results' = results
    BY <1>1, <2>1, RQ!RestView
  <2> QED
    BY <1>2, <2>2
<1>3. ASSUME /\ Results!Take("publisher")
             /\ publisher' = IF item[Head(results.items)].ticket THEN "encode" ELSE "send"
      PROVE  Seen
  <2>1. RQ!Take("publisher")
    BY <1>3, ResultsSame
  <2>2. /\ results'.pushed = results.pushed /\ results'.popped = RQ!First + 1
        /\ results'.closed = results.closed
        /\ Head(results.items) = RQ!First + 1
        /\ RQ!First < results.pushed /\ (RQ!First)' = RQ!First + 1
    BY <1>1, <2>1, RQ!TakeView
  <2> QED
    BY <1>3, <2>2
<1>4. ASSUME Results!End("publisher") /\ publisher' = "gone" PROVE Seen
  <2>1. RQ!End("publisher")
    BY <1>4, ResultsSame
  <2>2. results' = results /\ results.items = <<>> /\ results.closed
    BY <2>1 DEF RQ!End
  <2> QED
    BY <1>4, <2>2, Numbers
<1>5. /\ publisher = "pop" /\ frames' = frames
      /\ UNCHANGED <<running, stopper, worker, made, item, pending, coder, age,
                     debugLeft, centres, sent>>
  BY DEF PublisherPops, jobVars, budgetVars, timeVars
<1>6. Seen
  BY <1>2, <1>3, <1>4 DEF PublisherPops
<1> QED
  BY <1>5, <1>6

(* stop() closes a queue. *)
LEMMA CloseFramesSeen ==
  ASSUME QInv, CloseFrames
  PROVE  /\ stopper = "frames" /\ stopper' = "worker" /\ results' = results
         /\ frames'.pushed = frames.pushed /\ frames'.popped = frames.popped
         /\ frames'.closed = TRUE /\ frames'.items = frames.items
         /\ (FQ!First)' = FQ!First
         /\ UNCHANGED <<running, worker, publisher, made, item, pending, coder, age,
                        debugLeft, centres, sent>>
<1>1. FQ!IInv /\ "stopper" \in FrameThreads
  BY DEF QInv, FrameThreads
<1>2. FQ!Close("stopper")
  BY FramesSame DEF CloseFrames
<1> QED
  BY <1>1, <1>2, FQ!CloseView DEF CloseFrames, budgetVars, timeVars

LEMMA CloseResultsSeen ==
  ASSUME QInv, CloseResults
  PROVE  /\ stopper = "worker" /\ stopper' = "publisher" /\ frames' = frames
         /\ worker = "gone"
         /\ results'.pushed = results.pushed /\ results'.popped = results.popped
         /\ results'.closed = TRUE /\ results'.items = results.items
         /\ (RQ!First)' = RQ!First
         /\ UNCHANGED <<running, worker, publisher, made, item, pending, coder, age,
                        debugLeft, centres, sent>>
<1>1. RQ!IInv /\ "stopper" \in ResultThreads
  BY DEF QInv, ResultThreads
<1>2. RQ!Close("stopper")
  BY ResultsSame DEF CloseResults
<1> QED
  BY <1>1, <1>2, RQ!CloseView DEF CloseResults, WorkerJoined, budgetVars, timeVars

(* The steps that change nothing but clocks, or where a thread waits.         *)
Quiet ==
    UNCHANGED <<frames, results, running, stopper, worker, publisher, made, item,
                pending, coder, sent>>

LEMMA NotifySeen == ASSUME QInv, Notify \/ Wake PROVE Quiet /\ UNCHANGED timeVars
<1>1. FQ!IInv /\ RQ!IInv
  BY DEF QInv
<1>2. UNCHANGED <<running, stopper, worker, publisher, made, item, pending, coder,
                  sent, timeVars>>
  BY DEF Notify, Wake, jobVars, budgetVars
<1>3. frames' = frames
  BY DEF Notify, Wake, Frames!NotifyOne, Frames!NotifyAll, Frames!Spurious
<1>4. results' = results
  BY DEF Notify, Wake, Results!NotifyOne, Results!NotifyAll, Results!Spurious
<1> QED
  BY <1>2, <1>3, <1>4 DEF Quiet

-----------------------------------------------------------------------------
(* The budget.  Why it is exact: a result holds a ticket while it is in the   *)
(* worker's hands, in the queue or in the publisher's (Tickets), each way out *)
(* of those gives it back, and no result has the number of another because    *)
(* each is of a frame of its own (Counted).                                  *)

Busy == worker \in {"infer", "push"}
Publishing == publisher \in {"encode", "send", "drop"}

Counted ==
    /\ frames.pushed <= MaxFrames
    /\ results.pushed <= frames.popped
    /\ Busy => results.pushed < frames.popped
    /\ Publishing => results.popped \in 1..MaxFrames
Around(n) ==
    \/ RQ!First < n /\ n <= results.pushed
    \/ n = results.popped /\ Publishing
ItemType == [frame : Nat, ticket : BOOLEAN, picture : Nat]
Tickets ==
    /\ made \in ItemType /\ made.picture = 0
    /\ item \in [1..MaxFrames -> ItemType]
    /\ made.ticket => worker = "push"
    /\ \A n \in 1..MaxFrames : item[n].ticket => Around(n)
Phase ==
    /\ running \in BOOLEAN
    /\ stopper \in {"out", "frames", "worker", "publisher", "done"}
    /\ worker \in {"idle", "pop", "infer", "push", "gone"}
    /\ publisher \in {"idle", "pop", "encode", "send", "drop", "gone"}
    /\ ~running /\ stopper = "out" => worker = "idle" /\ publisher = "idle"
Memory == centres \in Places \cup {"none"} /\ debugLeft \in 0..DebugTtl

Pictures == coder = <<>> /\ PictureIsOfItsFrame

BInv ==
    /\ Counted /\ Tickets /\ Pictures /\ Phase /\ Memory
    /\ BudgetIsExact /\ PublisherTypeOK

(* A result that holds a ticket has the number of a result. *)
LEMMA HoldersCounted ==
  ASSUME QInv, BInv
  PROVE  /\ IsFiniteSet(Holders) /\ Cardinality(Holders) \in Nat
         /\ Holders \subseteq 1..results.pushed
         /\ Cardinality(Holders) <= results.pushed
<1>1. Holders \subseteq 1..results.pushed
  <2>1. ASSUME NEW n \in Holders PROVE n \in 1..results.pushed
    <3>1. n \in 1..MaxFrames /\ item[n].ticket
      BY DEF Holders
    <3>2. Around(n)
      BY <3>1 DEF BInv, Tickets
    <3> QED
      BY <3>1, <3>2, Numbers DEF Around
  <2> QED
    BY <2>1
<1>2. results.pushed \in Nat
  BY Numbers
<1>3. IsFiniteSet(1..results.pushed) /\ Cardinality(1..results.pushed) = results.pushed
  BY <1>2, FS_Interval
<1>4. IsFiniteSet(Holders) /\ Cardinality(Holders) <= Cardinality(1..results.pushed)
  BY <1>1, <1>3, FS_Subset
<1> QED
  BY <1>1, <1>3, <1>4, FS_CardinalityType

(* What the invariant says beyond its parts. *)
LEMMA BudgetHolds ==
  ASSUME QInv, BInv
  PROVE  BudgetIsKept
<1>1. Frames!TypeOK /\ Results!TypeOK
  BY FramesSame, ResultsSame DEF QInv, FQ!IInv, RQ!IInv
<1>2. pending \in 0..MaxFrames
  <2>1. /\ results.pushed \in Nat /\ frames.popped \in Nat /\ frames.pushed \in Nat
        /\ MaxFrames \in Nat /\ FQ!First \in Nat
        /\ frames.popped <= FQ!First /\ FQ!First <= frames.pushed
    BY Numbers
  <2>2. frames.pushed <= MaxFrames /\ results.pushed <= frames.popped
        /\ (Busy => results.pushed < frames.popped)
    BY DEF BInv, Counted
  <2>3. /\ pending = Cardinality(Holders) + (IF made.ticket THEN 1 ELSE 0)
        /\ Cardinality(Holders) \in Nat /\ Cardinality(Holders) <= results.pushed
    BY HoldersCounted DEF BInv, BudgetIsExact
  <2>4. made.ticket => Busy
    BY DEF BInv, Tickets, Busy
  <2> QED
    BY <2>1, <2>2, <2>3, <2>4
<1> QED
  BY <1>1, <1>2 DEF BudgetIsKept, TypeOK, BInv, Phase, Memory

LEMMA InitBInv == InitResults => BInv
<1> SUFFICES ASSUME InitResults PROVE BInv
  OBVIOUS
<1>1. MaxFrames \in Nat /\ MaxPending \in Nat /\ DebugTtl \in Nat
  BY JobAssumption DEF Gaps
<1>2. Counted
  BY <1>1 DEF InitResults, Init, Counted, Busy, Publishing, Frames!Init, Results!Init
<1>3. NoItem \in ItemType /\ NoItem.ticket = FALSE /\ NoItem.picture = 0
  BY DEF NoItem, ItemType
<1>4. /\ made = NoItem /\ item = [n \in 1..MaxFrames |-> NoItem] /\ pending = 0
      /\ running = FALSE /\ stopper = "out" /\ worker = "idle" /\ publisher = "idle"
      /\ centres = "none" /\ debugLeft = 0
  BY DEF InitResults, Init
<1>5. Tickets
  BY <1>3, <1>4 DEF Tickets
<1>6. BudgetIsExact
  <2>1. Holders = {}
    BY <1>3, <1>4 DEF Holders
  <2> QED
    BY <1>1, <1>3, <1>4, <2>1, FS_EmptySet DEF BudgetIsExact
<1>7. Phase /\ Memory
  <2>1. Phase
    BY <1>4 DEF Phase
  <2>2. debugLeft \in 0..DebugTtl
    BY <1>1, <1>4
  <2> QED
    BY <1>4, <2>1, <2>2 DEF Memory
<1>8. PublisherTypeOK
  BY DEF InitResults, InitPublisher, PublisherTypeOK, Connections
<1>9. Pictures
  <2>1. coder = <<>>
    BY DEF InitResults, Init
  <2> QED
    BY <1>3, <1>4, <2>1 DEF Pictures, PictureIsOfItsFrame
<1> QED
  BY <1>2, <1>5, <1>6, <1>7, <1>8, <1>9 DEF BInv

(* A step that leaves the results where they are. *)
LEMMA BudgetUntouched ==
  ASSUME BInv, UNCHANGED <<made, item, pending, coder>>,
         Counted', Phase', Memory', PublisherTypeOK',
         made.ticket => worker' = "push",
         \A n \in 1..MaxFrames : item[n].ticket => Around(n)'
  PROVE  BInv'
<1>1. Tickets'
  BY DEF BInv, Tickets
<1>2. Holders' = Holders
  BY DEF Holders
<1>3. BudgetIsExact'
  BY <1>2 DEF BInv, BudgetIsExact
<1>4. Pictures'
  BY DEF BInv, Pictures, PictureIsOfItsFrame
<1> QED
  BY <1>1, <1>3, <1>4 DEF BInv

LEMMA FirstsKept ==
  /\ frames' = frames => (FQ!First)' = FQ!First
  /\ results' = results => (RQ!First)' = RQ!First
BY DEF FQ!First, RQ!First

(* The clocks and the memory of the last picture. *)
LEMMA MemoryKept ==
  ASSUME BInv, NextResults
  PROVE  Memory'
<1>1. centres \in Places \cup {"none"} /\ debugLeft \in 0..DebugTtl /\ DebugTtl \in Nat
  BY JobAssumption DEF BInv, Memory, Gaps
<1>2. CASE armDebug
  BY <1>1, <1>2 DEF armDebug, Memory
<1>3. CASE Tick
  <2>1. debugLeft' = IF debugLeft > 0 THEN debugLeft - 1 ELSE 0
    BY <1>3 DEF Tick
  <2>2. debugLeft' \in 0..DebugTtl
    BY <1>1, <2>1
  <2> QED
    BY <1>1, <1>3, <2>2 DEF Tick, Memory
<1>4. CASE Infer
  <2>1. debugLeft' = debugLeft /\ centres' \in Places \cup {"none"}
    BY <1>1, <1>4 DEF Infer
  <2> QED
    BY <1>1, <2>1 DEF Memory
<1>5. CASE /\ ~armDebug /\ ~Tick /\ ~Infer
  <2>1. UNCHANGED <<centres, debugLeft>>
    BY <1>5 DEF NextResults, NextButSend, Stopper, Worker, PublisherRest, Start, StopBegins,
           Stopped, CloseFrames, CloseResults, Submit, SubmitRefused, WorkerPops,
           WorkerUnchanged, PushResult, PublisherPops, Encodes, DropItem, Send, Notify,
           Wake, timeVars, vars
  <2> QED
    BY <1>1, <2>1 DEF Memory
<1> QED
  BY <1>2, <1>3, <1>4, <1>5

(* The socket's own types. *)
LEMMA SocketTypes ==
  ASSUME BInv, NextResults
  PROVE  PublisherTypeOK'
<1>1. PublisherTypeOK
  BY DEF BInv
<1>2. CASE UNCHANGED publisherVars
  BY <1>1, <1>2 DEF PublisherTypeOK, publisherVars
<1>3. CASE Publish(Current.frame)
  BY <1>1, <1>3 DEF Publish, PublisherTypeOK, Kept, Connections
<1>4. CASE NextButPublish
  <2>1. CASE \E c \in Clients : Connect(c) \/ Accept(c) \/ Register(c)
    BY <1>1, <2>1 DEF Connect, Accept, Register, PublisherTypeOK, Connections
  <2>2. CASE PublisherStops \/ CloseSocket \/ AcceptFails \/ CloseClients
    BY <1>1, <2>2 DEF PublisherStops, CloseSocket, AcceptFails, CloseClients,
           PublisherTypeOK, Connections
  <2> QED
    BY <1>4, <2>1, <2>2 DEF NextButPublish
<1> QED
  BY <1>2, <1>3, <1>4 DEF NextResults

LEMMA BudgetSubmit ==
  ASSUME QInv, BInv, Memory', PublisherTypeOK', Submit
  PROVE  BInv'
<1>1. /\ frames.pushed < MaxFrames /\ frames'.pushed = frames.pushed + 1
      /\ frames'.popped = frames.popped /\ results' = results
      /\ UNCHANGED <<running, stopper, worker, publisher, made, item, pending, coder>>
      /\ (RQ!First)' = RQ!First
  BY SubmitSeen, FirstsKept
<1>2. Counted'
  <2>1. frames.pushed \in Nat /\ MaxFrames \in Nat
    BY Numbers
  <2> QED
    BY <1>1, <2>1 DEF BInv, Counted, Busy, Publishing
<1>3. Phase'
  BY <1>1 DEF BInv, Phase
<1>4. \A n \in 1..MaxFrames : item[n].ticket => Around(n)'
  BY <1>1 DEF BInv, Tickets, Around, Publishing
<1> QED
  BY <1>1, <1>2, <1>3, <1>4, BudgetUntouched DEF BInv, Tickets

LEMMA BudgetWorkerPops ==
  ASSUME QInv, BInv, Memory', PublisherTypeOK', WorkerPops
  PROVE  BInv'
<1>1. /\ worker = "pop" /\ results' = results /\ (RQ!First)' = RQ!First
      /\ UNCHANGED <<running, stopper, publisher, made, item, pending, coder>>
      /\ \/ frames' = frames /\ worker' = worker
         \/ /\ frames'.pushed = frames.pushed /\ frames'.popped = FQ!First + 1
            /\ worker' = "infer"
         \/ frames' = frames /\ worker' = "gone"
  BY WorkerPopsSeen, FirstsKept
<1>2. Counted'
  <2>1. /\ frames.popped \in Nat /\ FQ!First \in Nat /\ results.pushed \in Nat
        /\ frames.popped <= FQ!First
    BY Numbers
  <2> QED
    BY <1>1, <2>1 DEF BInv, Counted, Busy, Publishing
<1>3. Phase'
  BY <1>1 DEF BInv, Phase
<1>4. \A n \in 1..MaxFrames : item[n].ticket => Around(n)'
  BY <1>1 DEF BInv, Tickets, Around, Publishing
<1> QED
  BY <1>1, <1>2, <1>3, <1>4, BudgetUntouched DEF BInv, Tickets

LEMMA BudgetPublisherPops ==
  ASSUME QInv, BInv, Memory', PublisherTypeOK', PublisherPops
  PROVE  BInv'
<1>1. /\ publisher = "pop" /\ frames' = frames
      /\ UNCHANGED <<running, stopper, worker, made, item, pending, coder>>
      /\ \/ results' = results /\ publisher' = publisher
         \/ /\ results'.pushed = results.pushed
            /\ results'.popped = RQ!First + 1 /\ RQ!First < results.pushed
            /\ (RQ!First)' = RQ!First + 1
            /\ publisher' = IF item[RQ!First + 1].ticket THEN "encode" ELSE "send"
         \/ results' = results /\ publisher' = "gone"
  BY PublisherPopsSeen
<1>2. /\ frames.popped \in Nat /\ FQ!First \in Nat /\ results.pushed \in Nat
      /\ frames.pushed \in Nat /\ MaxFrames \in Nat /\ RQ!First \in Nat
      /\ frames.popped <= FQ!First /\ FQ!First <= frames.pushed
      /\ frames.pushed <= MaxFrames /\ results.pushed <= frames.popped
  BY Numbers DEF BInv, Counted
<1>3. Counted'
  <2>1. CASE results' = results /\ publisher' \in {"pop", "gone"}
    BY <1>1, <2>1 DEF BInv, Counted, Busy, Publishing
  <2>2. CASE results' # results \/ publisher' \notin {"pop", "gone"}
    <3>1. /\ results'.pushed = results.pushed
          /\ results'.popped = RQ!First + 1 /\ RQ!First < results.pushed
      BY <1>1, <2>2
    <3>2. RQ!First + 1 \in 1..MaxFrames
      BY <1>2, <3>1
    <3> QED
      BY <1>1, <3>1, <3>2 DEF BInv, Counted, Busy, Publishing
  <2> QED
    BY <2>1, <2>2
<1>4. Phase'
  BY <1>1 DEF BInv, Phase
<1>5. ASSUME NEW n \in 1..MaxFrames, item[n].ticket PROVE Around(n)'
  <2>1. RQ!First < n /\ n <= results.pushed
    BY <1>1, <1>5 DEF BInv, Tickets, Around, Publishing
  <2>2. CASE results' = results
    BY <2>1, <2>2, FirstsKept DEF Around
  <2>3. CASE /\ results'.pushed = results.pushed /\ results'.popped = RQ!First + 1
             /\ (RQ!First)' = RQ!First + 1
             /\ publisher' = IF item[RQ!First + 1].ticket THEN "encode" ELSE "send"
    <3>1. CASE n = RQ!First + 1
      BY <1>5, <2>3, <3>1 DEF Around, Publishing
    <3>2. CASE n # RQ!First + 1
      BY <1>2, <2>1, <2>3, <3>2 DEF Around
    <3> QED
      BY <3>1, <3>2
  <2> QED
    BY <1>1, <2>2, <2>3
<1> QED
  BY <1>1, <1>3, <1>4, <1>5, BudgetUntouched DEF BInv, Tickets

(* process() takes a ticket when the budget grants one. *)
LEMMA BudgetInfer ==
  ASSUME QInv, BInv, Memory', PublisherTypeOK', Infer
  PROVE  BInv'
<1>1. PICK granted \in BOOLEAN :
        /\ worker = "infer" /\ worker' = "push"
        /\ made' = [frame |-> frames.popped, ticket |-> granted, picture |-> 0]
        /\ pending' = pending + IF granted THEN 1 ELSE 0
        /\ granted => pending < MaxPending
        /\ UNCHANGED <<frames, results, running, stopper, publisher, item, coder>>
  <2>1. PICK place \in Places \cup {"none"} :
          LET granted == Encode(place) /\ Budget
          IN  /\ made' = [frame |-> frames.popped, ticket |-> granted, picture |-> 0]
              /\ pending' = pending + IF granted THEN 1 ELSE 0
    BY Zenon DEF Infer
  <2>2. /\ worker = "infer" /\ worker' = "push"
        /\ UNCHANGED <<frames, results, running, stopper, publisher, item, coder>>
    BY DEF Infer, jobVars, queueVars
  <2>3. (Encode(place) /\ Budget) \in BOOLEAN
        /\ (Encode(place) /\ Budget => pending < MaxPending)
    BY DEF Budget
  <2> HIDE DEF Encode, Budget
  <2> QED
    BY Zenon, <2>1, <2>2, <2>3
<1>2. Counted'
  BY <1>1 DEF BInv, Counted, Busy, Publishing
<1>3. Phase'
  BY <1>1 DEF BInv, Phase
<1>4. Tickets'
  <2>1. frames.popped \in Nat
    BY Numbers
  <2>2. made' \in ItemType /\ made'.picture = 0
    BY <1>1, <2>1 DEF ItemType
  <2>3. \A n \in 1..MaxFrames : item[n].ticket => Around(n)'
    BY <1>1, FirstsKept DEF BInv, Tickets, Around, Publishing
  <2> QED
    BY <1>1, <2>2, <2>3 DEF BInv, Tickets
<1>5. Pictures'
  BY <1>1 DEF BInv, Pictures, PictureIsOfItsFrame
<1>6. BudgetIsExact'
  <2>1. Holders' = Holders
    BY <1>1 DEF Holders
  <2>2. ~made.ticket /\ made'.ticket = granted
    BY <1>1 DEF BInv, Tickets
  <2>3. /\ Cardinality(Holders) \in Nat /\ MaxPending \in Nat
        /\ pending = Cardinality(Holders) /\ pending <= MaxPending
    BY <2>2, HoldersCounted, Numbers DEF BInv, BudgetIsExact
  <2> QED
    BY <1>1, <2>1, <2>2, <2>3 DEF BudgetIsExact
<1> QED
  BY <1>2, <1>3, <1>4, <1>5, <1>6 DEF BInv

(* The result goes into the queue; the one it displaces gives its ticket back. *)
LEMMA BudgetPushResult ==
  ASSUME QInv, BInv, Memory', PublisherTypeOK', PushResult
  PROVE  BInv'
<1> DEFINE new == results.pushed + 1
           old == RQ!First + 1
<1>1. /\ worker = "push" /\ worker' = "pop" /\ frames' = frames
      /\ results'.pushed = new /\ results'.popped = results.popped
      /\ \/ Results!Displaced = {} /\ (RQ!First)' = RQ!First
         \/ /\ Results!Displaced = {old} /\ (RQ!First)' = old
            /\ RQ!First < results.pushed
      /\ UNCHANGED <<running, stopper, publisher, coder>>
  BY PushResultSeen
<1>2. /\ item' = [n \in 1..MaxFrames |->
                     CASE n = new -> made
                       [] n \in Results!Displaced -> NoItem
                       [] OTHER -> item[n]]
      /\ pending' = pending - Returned(Results!Displaced)
      /\ made' = NoItem
  BY DEF PushResult
<1>3. /\ results.pushed \in Nat /\ RQ!First \in Nat /\ MaxFrames \in Nat
      /\ results.popped \in Nat
      /\ results.popped <= RQ!First /\ RQ!First <= results.pushed
      /\ new \in 1..MaxFrames
      /\ results.pushed < frames.popped /\ frames.popped \in Nat
  <2>1. /\ frames.popped \in Nat /\ FQ!First \in Nat /\ frames.pushed \in Nat
        /\ frames.popped <= FQ!First /\ FQ!First <= frames.pushed
        /\ results.pushed \in Nat /\ MaxFrames \in Nat
    BY Numbers
  <2>2. frames.pushed <= MaxFrames /\ results.pushed < frames.popped
    BY <1>1 DEF BInv, Counted, Busy
  <2> QED
    BY <2>1, <2>2, Numbers
<1>4. Counted'
  BY <1>1, <1>3 DEF BInv, Counted, Busy, Publishing
<1>5. Phase'
  BY <1>1 DEF BInv, Phase
<1>6. NoItem \in ItemType /\ NoItem.ticket = FALSE /\ NoItem.picture = 0
  BY DEF NoItem, ItemType
<1>7. Results!Displaced \subseteq 1..results.pushed /\ new \notin Results!Displaced
  BY <1>1, <1>3
<1>8. Tickets'
  <2>1. item' \in [1..MaxFrames -> ItemType]
    BY <1>2, <1>6 DEF BInv, Tickets
  <2>2. ASSUME NEW n \in 1..MaxFrames, item'[n].ticket PROVE Around(n)'
    <3>1. CASE n = new
      BY <1>1, <1>3, <3>1 DEF Around
    <3>2. CASE n # new
      <4>1. n \notin Results!Displaced /\ item[n].ticket
        BY <1>2, <1>6, <2>2, <3>2
      <4>2. Around(n)
        BY <4>1 DEF BInv, Tickets
      <4> QED
        BY <1>1, <1>3, <4>1, <4>2 DEF Around, Publishing
    <3> QED
      BY <3>1, <3>2
  <2> QED
    BY <1>2, <1>6, <2>1, <2>2 DEF Tickets
<1>9. Pictures'
  <2>1. ASSUME NEW n \in 1..MaxFrames PROVE item'[n].picture \in {0, item'[n].frame}
    <3>1. item'[n] \in {made, NoItem, item[n]}
      BY <1>2
    <3> QED
      BY <1>6, <3>1 DEF BInv, Pictures, PictureIsOfItsFrame, Tickets
  <2> QED
    BY <1>1, <2>1 DEF BInv, Pictures, PictureIsOfItsFrame
<1>10. BudgetIsExact'
  <2> DEFINE back == {n \in Results!Displaced : item[n].ticket}
  <2>1. Holders' = (Holders \ back) \cup (IF made.ticket THEN {new} ELSE {})
    <3>1. ASSUME NEW n \in 1..MaxFrames
          PROVE  item'[n].ticket <=> \/ n = new /\ made.ticket
                                     \/ n # new /\ n \notin Results!Displaced
                                        /\ item[n].ticket
      BY <1>2, <1>6, <1>7 DEF BInv, Tickets, ItemType
    <3>2. new \notin Holders
      BY <1>3, HoldersCounted
    <3> QED
      BY <1>3, <3>1, <3>2 DEF Holders
  <2>2. /\ IsFiniteSet(Holders) /\ Cardinality(Holders) \in Nat
        /\ new \notin Holders
    BY <1>3, HoldersCounted
  <2>3. /\ back \subseteq Holders
        /\ IsFiniteSet(Holders \ back) /\ Cardinality(back) \in Nat
        /\ Cardinality(Holders \ back) = Cardinality(Holders) - Cardinality(back)
        /\ Cardinality(Holders \ back) \in Nat
    <3>1. back \subseteq Holders
      BY <1>1, <1>3 DEF Holders
    <3>2. IsFiniteSet(back) /\ Holders \cap back = back
      BY <2>2, <3>1, FS_Subset
    <3>3. /\ IsFiniteSet(Holders \ back)
          /\ Cardinality(Holders \ back) = Cardinality(Holders) - Cardinality(back)
      BY <2>2, <3>2, FS_Difference
    <3> HIDE DEF back
    <3> QED
      BY <3>1, <3>2, <3>3, FS_CardinalityType
  <2>4. Cardinality(Holders') = Cardinality(Holders) - Cardinality(back)
                                 + (IF made.ticket THEN 1 ELSE 0)
    <3>1. CASE made.ticket
      <4>1. Holders' = (Holders \ back) \cup {new} /\ new \notin Holders \ back
        BY <2>1, <2>2, <3>1
      <4> QED
        BY <2>2, <2>3, <3>1, <4>1, FS_AddElement
    <3>2. CASE ~made.ticket
      BY <2>1, <2>2, <2>3, <3>2
    <3> QED
      BY <3>1, <3>2
  <2>5. /\ pending = Cardinality(Holders) + (IF made.ticket THEN 1 ELSE 0)
        /\ pending <= MaxPending /\ MaxPending \in Nat
        /\ pending' = pending - Cardinality(back)
        /\ made'.ticket = FALSE
    BY <1>2, <1>6, Numbers DEF BInv, BudgetIsExact, Returned
  <2> HIDE DEF back
  <2> QED
    BY <2>2, <2>3, <2>4, <2>5 DEF BudgetIsExact
<1> QED
  BY <1>4, <1>5, <1>8, <1>9, <1>10 DEF BInv

(* The encoder returns the picture of the frame it was given, or none. *)
LEMMA BudgetEncodes ==
  ASSUME QInv, BInv, Memory', PublisherTypeOK', Encodes
  PROVE  BInv'
<1> DEFINE p == results.popped
<1>1. /\ publisher = "encode" /\ publisher' = "send"
      /\ UNCHANGED <<frames, results, running, stopper, worker, made, pending>>
  BY DEF Encodes, jobVars, queueVars
<1>2. p \in 1..MaxFrames /\ item \in [1..MaxFrames -> ItemType] /\ item[p] \in ItemType
  BY <1>1 DEF BInv, Counted, Publishing, Tickets
<1>3. /\ coder' = <<>>
      /\ item' = item \/ item' = [item EXCEPT ![p].picture = item[p].frame]
  <2>1. /\ Append(coder, Current.frame) = <<Current.frame>> /\ coder = <<>>
        /\ Head(<<Current.frame>>) = Current.frame /\ Tail(<<Current.frame>>) = <<>>
    <3>1. coder = <<>>
      BY DEF BInv, Pictures
    <3>2. Current.frame \in Nat
      BY <1>2 DEF Current, ItemType
    <3> QED
      BY <3>1, <3>2
  <2> QED
    BY <2>1 DEF Encodes, AfterTimeout, Current
<1>4. /\ item' \in [1..MaxFrames -> ItemType]
      /\ \A n \in 1..MaxFrames : /\ item'[n].ticket = item[n].ticket
                                 /\ item'[n].frame = item[n].frame
                                 /\ item'[n].picture \in {item[n].picture, item[n].frame}
  <2> DEFINE now == [item[p] EXCEPT !.picture = item[p].frame]
  <2>1. CASE item' = item
    BY <1>2, <2>1
  <2>2. CASE item' = [item EXCEPT ![p] = now]
    <3>1. /\ now \in ItemType /\ now.ticket = item[p].ticket
          /\ now.frame = item[p].frame /\ now.picture = item[p].frame
      BY <1>2 DEF ItemType
    <3> HIDE DEF now
    <3> QED
      BY <1>2, <2>2, <3>1
  <2> QED
    BY <1>3, <2>1, <2>2
<1>5. Counted'
  BY <1>1 DEF BInv, Counted, Busy, Publishing
<1>6. Phase'
  BY <1>1 DEF BInv, Phase
<1>7. Tickets'
  <2>1. ASSUME NEW n \in 1..MaxFrames, item'[n].ticket PROVE Around(n)'
    BY <1>1, <1>4, <2>1, FirstsKept DEF BInv, Tickets, Around, Publishing
  <2> QED
    BY <1>1, <1>4, <2>1 DEF BInv, Tickets
<1>8. Pictures'
  BY <1>3, <1>4 DEF BInv, Pictures, PictureIsOfItsFrame
<1>9. BudgetIsExact'
  <2>1. Holders' = Holders
    BY <1>4 DEF Holders
  <2> QED
    BY <1>1, <2>1 DEF BInv, BudgetIsExact
<1> QED
  BY <1>5, <1>6, <1>7, <1>8, <1>9 DEF BInv

(* The publisher drops what it sent, and with it the ticket. *)
LEMMA BudgetDropItem ==
  ASSUME QInv, BInv, Memory', PublisherTypeOK', DropItem
  PROVE  BInv'
<1> DEFINE p == results.popped
<1>1. /\ publisher = "drop" /\ publisher' = "pop"
      /\ pending' = pending - Returned({p})
      /\ item' = [item EXCEPT ![p] = NoItem]
      /\ UNCHANGED <<frames, results, running, stopper, worker, made, coder>>
  BY DEF DropItem, jobVars, queueVars
<1>2. p \in 1..MaxFrames /\ item \in [1..MaxFrames -> ItemType]
  BY <1>1 DEF BInv, Counted, Publishing, Tickets
<1>3. NoItem \in ItemType /\ NoItem.ticket = FALSE /\ NoItem.picture = 0
  BY DEF NoItem, ItemType
<1>4. /\ item' \in [1..MaxFrames -> ItemType]
      /\ item'[p] = NoItem /\ \A n \in (1..MaxFrames) \ {p} : item'[n] = item[n]
  BY <1>1, <1>2, <1>3
<1>5. Counted'
  BY <1>1 DEF BInv, Counted, Busy, Publishing
<1>6. Phase'
  BY <1>1 DEF BInv, Phase
<1>7. Tickets'
  <2>1. ASSUME NEW n \in 1..MaxFrames, item'[n].ticket PROVE Around(n)'
    <3>1. n # p /\ item[n].ticket
      BY <1>3, <1>4, <2>1
    <3> QED
      BY <1>1, <3>1, FirstsKept DEF BInv, Tickets, Around, Publishing
  <2> QED
    BY <1>1, <1>4, <2>1 DEF BInv, Tickets
<1>8. Pictures'
  BY <1>1, <1>3, <1>4 DEF BInv, Pictures, PictureIsOfItsFrame
<1>9. BudgetIsExact'
  <2>1. Holders' = Holders \ {p}
    BY <1>2, <1>3, <1>4 DEF Holders
  <2>2. /\ IsFiniteSet(Holders) /\ Cardinality(Holders) \in Nat
        /\ pending = Cardinality(Holders) + (IF made.ticket THEN 1 ELSE 0)
        /\ pending <= MaxPending /\ MaxPending \in Nat
    BY HoldersCounted, Numbers DEF BInv, BudgetIsExact
  <2>3. CASE item[p].ticket
    <3>1. p \in Holders /\ {n \in {p} : item[n].ticket} = {p}
      BY <1>2, <2>3 DEF Holders
    <3>2. Returned({p}) = 1
      BY <3>1, FS_Singleton DEF Returned
    <3>3. Cardinality(Holders \ {p}) = Cardinality(Holders) - 1
      BY <2>2, <3>1, FS_RemoveElement
    <3> QED
      BY <1>1, <2>1, <2>2, <3>2, <3>3 DEF BudgetIsExact
  <2>4. CASE ~item[p].ticket
    <3>1. Holders' = Holders /\ {n \in {p} : item[n].ticket} = {}
      BY <2>1, <2>4 DEF Holders
    <3>2. Returned({p}) = 0
      BY <3>1, FS_EmptySet DEF Returned
    <3> QED
      BY <1>1, <2>2, <3>1, <3>2 DEF BudgetIsExact
  <2> QED
    BY <2>3, <2>4
<1> QED
  BY <1>5, <1>6, <1>7, <1>8, <1>9 DEF BInv

(* Every other step. *)
LEMMA BudgetRest ==
  ASSUME QInv, BInv, Memory', PublisherTypeOK',
         \/ Start \/ StopBegins \/ CloseFrames \/ CloseResults \/ Stopped
         \/ SubmitRefused \/ armDebug \/ Send \/ Notify \/ Wake \/ Tick \/ UNCHANGED vars
  PROVE  BInv'
<1>1. /\ frames'.pushed = frames.pushed /\ frames'.popped = frames.popped
      /\ results'.pushed = results.pushed /\ results'.popped = results.popped
      /\ (RQ!First)' = RQ!First
      /\ UNCHANGED <<made, item, pending, coder>>
  <2>1. CASE CloseFrames
    BY <2>1, CloseFramesSeen, FirstsKept
  <2>2. CASE CloseResults
    BY <2>2, CloseResultsSeen, FirstsKept
  <2>3. CASE Notify \/ Wake
    BY <2>3, NotifySeen, FirstsKept DEF Quiet
  <2>4. CASE SubmitRefused
    BY <2>4, FirstsKept DEF SubmitRefused, Frames!PushRefused, Frames!vars, budgetVars
  <2>5. CASE Start \/ StopBegins \/ Stopped \/ armDebug \/ Send \/ Tick \/ UNCHANGED vars
    BY <2>5, FirstsKept DEF Start, StopBegins, Stopped, armDebug, Send, Tick, queueVars,
           budgetVars, vars
  <2> QED
    BY <2>1, <2>2, <2>3, <2>4, <2>5
<1>2. Phase' /\ Busy' = Busy /\ (Publishing' => Publishing)
      /\ (made.ticket => worker' = "push")
      /\ \A n : n = results.popped /\ Publishing /\ item[n].ticket => Publishing'
  <2>1. Phase /\ (made.ticket => worker = "push")
    BY DEF BInv, Tickets
  <2>2. CASE Start
    BY <2>1, <2>2 DEF Start, Phase, Busy, Publishing
  <2>3. CASE StopBegins \/ CloseFrames \/ CloseResults \/ Stopped
    <3>1. UNCHANGED <<worker, publisher>> /\ running' \in BOOLEAN
          /\ (running' = running \/ (running' = FALSE /\ stopper' = "frames"))
          /\ stopper' \in {"frames", "worker", "publisher", "done"}
      BY <2>1, <2>3 DEF StopBegins, CloseFrames, CloseResults, Stopped, Phase
    <3> QED
      BY <2>1, <3>1 DEF Phase, Busy, Publishing
  <2>4. CASE SubmitRefused \/ armDebug \/ Notify \/ Wake \/ Tick \/ UNCHANGED vars
    <3>1. UNCHANGED <<running, stopper, worker, publisher>>
      BY <2>4 DEF SubmitRefused, armDebug, Notify, Wake, Tick, vars, jobVars
    <3> QED
      BY <2>1, <3>1 DEF Phase, Busy, Publishing
  <2>5. CASE Send
    BY <2>1, <2>5 DEF Send, jobVars, Phase, Busy, Publishing
  <2> QED
    BY <2>2, <2>3, <2>4, <2>5
<1>3. Counted'
  BY <1>1, <1>2 DEF BInv, Counted
<1>4. \A n \in 1..MaxFrames : item[n].ticket => Around(n)'
  BY <1>1, <1>2 DEF BInv, Tickets, Around
<1> QED
  BY <1>1, <1>2, <1>3, <1>4, BudgetUntouched

LEMMA BudgetInvariant == SpecResults => []BInv
<1>1. InitResults => BInv
  BY InitBInv
<1>2. QInv /\ BInv /\ [NextResults]_allVars => BInv'
  <2> SUFFICES ASSUME QInv, BInv, [NextResults]_allVars PROVE BInv'
    OBVIOUS
  <2>1. CASE UNCHANGED allVars
    <3>1. Memory' /\ PublisherTypeOK' /\ UNCHANGED vars
      BY <2>1 DEF BInv, Memory, PublisherTypeOK, allVars, vars, timeVars, publisherVars
    <3> QED
      BY <3>1, BudgetRest
  <2>2. CASE NextResults
    <3>1. Memory' /\ PublisherTypeOK'
      BY <2>2, MemoryKept, SocketTypes
    <3>2. \/ Start \/ StopBegins \/ CloseFrames \/ CloseResults \/ Stopped
          \/ SubmitRefused \/ armDebug \/ Send \/ Notify \/ Wake \/ Tick \/ UNCHANGED vars
          \/ Submit \/ WorkerPops \/ Infer \/ PushResult
          \/ PublisherPops \/ Encodes \/ DropItem
      BY <2>2 DEF NextResults, NextButSend, Stopper, Worker, PublisherRest
    <3> QED
      BY <3>1, <3>2, BudgetRest, BudgetSubmit, BudgetWorkerPops, BudgetInfer,
         BudgetPushResult, BudgetPublisherPops, BudgetEncodes, BudgetDropItem
  <2> QED
    BY <2>1, <2>2
<1>3. SpecResults => []QInv
  BY QueuesKeepOrder DEF QInv
<1> QED
  BY <1>1, <1>2, <1>3, PTL DEF SpecResults

(* Whatever is displaced, refused, timed out or      *)
(* dropped on the way, the count of pending encodes is the number of results *)
(* that hold a ticket and never above the budget (m_pendingEncodes of        *)
(* AiJob), for every budget, capacity and number of frames.                  *)
THEOREM BudgetNeverLeaks == SpecResults => []BudgetIsKept
<1>1. SpecResults => []QInv
  BY QueuesKeepOrder DEF QInv
<1> QED
  BY <1>1, BudgetInvariant, BudgetHolds, PTL

-----------------------------------------------------------------------------
(* What a consumer receives.  The results that are not sent yet are of newer  *)
(* frames the higher their number, all newer than what was sent (Ordered);    *)
(* a connection in the list has only whole messages on it (Wired).            *)

Unsent(n) ==
    \/ RQ!First < n /\ n <= results.pushed
    \/ n = results.popped /\ publisher \in {"encode", "send"}
Before(f) == f <= frames.popped /\ (Busy => f < frames.popped)
Ordered ==
    /\ \A n \in 1..MaxFrames : Unsent(n) => sent < item[n].frame /\ Before(item[n].frame)
    /\ \A m, n \in 1..MaxFrames :
          m < n /\ Unsent(m) /\ Unsent(n) => item[m].frame < item[n].frame
    /\ sent \in Nat /\ Before(sent)
    /\ worker = "push" => made.frame = frames.popped
Wired ==
    /\ wire \in [Clients -> Seq(Nat)]
    /\ \A c \in Clients : \A i \in DOMAIN wire[c] : wire[c][i] <= sent
    /\ \A c \in Clients : conn[c] = "listed" => \A i \in DOMAIN wire[c] : wire[c][i] # Cut
    /\ \A c \in Clients : conn[c] \in {"none", "backlog", "accepted"} => wire[c] = <<>>

OInv == Ordered /\ Wired /\ WireIsReadable

LEMMA InitOInv == InitResults => OInv
<1> SUFFICES ASSUME InitResults PROVE OInv
  OBVIOUS
<1>1. /\ frames.popped = 0 /\ results.pushed = 0 /\ Len(results.items) = 0
      /\ worker = "idle" /\ publisher = "idle" /\ sent = 0
  BY DEF InitResults, Init, Frames!Init, Results!Init
<1>2. \A n \in 1..MaxFrames : ~Unsent(n)
  <2>1. MaxFrames \in Nat /\ RQ!First = 0
    BY <1>1, JobAssumption DEF RQ!First
  <2> QED
    BY <1>1, <2>1 DEF Unsent
<1>3. Ordered
  BY <1>1, <1>2 DEF Ordered, Before, Busy
<1>4. wire = [c \in Clients |-> <<>>] /\ conn = [c \in Clients |-> "none"]
  BY DEF InitResults, InitPublisher
<1>5. Wired /\ WireIsReadable
  BY <1>1, <1>4 DEF Wired, WireIsReadable
<1> QED
  BY <1>3, <1>5 DEF OInv

(* The numbers of the results that are not sent. *)
LEMMA UnsentNumbers ==
  ASSUME QInv, BInv
  PROVE  /\ \A n \in 1..MaxFrames : Unsent(n) => n <= results.pushed
         /\ \A n \in 1..MaxFrames : item[n].frame \in Nat
<1>1. \A n \in 1..MaxFrames : Unsent(n) => n <= results.pushed
  BY Numbers DEF Unsent
<1>2. \A n \in 1..MaxFrames : item[n].frame \in Nat
  BY DEF BInv, Tickets, ItemType
<1> QED
  BY <1>1, <1>2

(* A step that makes no result newer or older. *)
LEMMA OrderUntouched ==
  ASSUME QInv, BInv, Ordered, UNCHANGED sent,
         frames'.popped = frames.popped, Busy' => Busy,
         worker' = "push" => made'.frame = frames.popped,
         \A n \in 1..MaxFrames : Unsent(n)' => Unsent(n) /\ item'[n].frame = item[n].frame
  PROVE  Ordered'
<1>1. sent' \in Nat /\ Before(sent)'
  BY DEF Ordered, Before
<1>2. ASSUME NEW n \in 1..MaxFrames, Unsent(n)'
      PROVE  sent' < item'[n].frame /\ Before(item[n].frame)'
  BY <1>2 DEF Ordered, Before
<1>3. ASSUME NEW m \in 1..MaxFrames, NEW n \in 1..MaxFrames, m < n, Unsent(m)', Unsent(n)'
      PROVE  item'[m].frame < item'[n].frame
  BY <1>3 DEF Ordered
<1> QED
  BY <1>1, <1>2, <1>3 DEF Ordered

LEMMA OrderWorkerPops ==
  ASSUME QInv, BInv, Ordered, WorkerPops
  PROVE  Ordered'
<1>1. /\ worker = "pop" /\ results' = results /\ (RQ!First)' = RQ!First
      /\ UNCHANGED <<publisher, made, item, sent>>
      /\ \/ frames' = frames /\ worker' \in {"pop", "gone"}
         \/ frames'.popped = FQ!First + 1 /\ worker' = "infer"
  BY WorkerPopsSeen, FirstsKept
<1>2. frames.popped \in Nat /\ FQ!First \in Nat /\ frames.popped <= FQ!First
  BY Numbers
<1>3. \A f \in Nat : Before(f) => Before(f)'
  BY <1>1, <1>2 DEF Before, Busy
<1>4. \A n \in 1..MaxFrames : Unsent(n)' <=> Unsent(n)
  BY <1>1 DEF Unsent
<1>5. \A n \in 1..MaxFrames : item[n].frame \in Nat
  BY UnsentNumbers
<1>6. Before(sent)' /\ sent' \in Nat
  BY <1>1, <1>3 DEF Ordered
<1>7. ASSUME NEW n \in 1..MaxFrames, Unsent(n)'
      PROVE  sent' < item'[n].frame /\ Before(item[n].frame)'
  BY <1>1, <1>3, <1>4, <1>5, <1>7 DEF Ordered
<1>8. \A m, n \in 1..MaxFrames :
         m < n /\ Unsent(m)' /\ Unsent(n)' => item'[m].frame < item'[n].frame
  BY <1>1, <1>4 DEF Ordered
<1> QED
  BY <1>1, <1>6, <1>7, <1>8 DEF Ordered

LEMMA OrderPushResult ==
  ASSUME QInv, BInv, Ordered, PushResult
  PROVE  Ordered'
<1> DEFINE new == results.pushed + 1
           old == RQ!First + 1
<1>1. /\ worker = "push" /\ worker' = "pop" /\ frames' = frames
      /\ results'.pushed = new /\ results'.popped = results.popped
      /\ \/ Results!Displaced = {} /\ (RQ!First)' = RQ!First
         \/ /\ Results!Displaced = {old} /\ (RQ!First)' = old
            /\ RQ!First < results.pushed
      /\ UNCHANGED <<publisher, sent>>
  BY PushResultSeen
<1>2. item' = [n \in 1..MaxFrames |->
                  CASE n = new -> made
                    [] n \in Results!Displaced -> NoItem
                    [] OTHER -> item[n]]
  BY DEF PushResult
<1>3. /\ results.pushed \in Nat /\ RQ!First \in Nat /\ results.popped \in Nat
      /\ results.popped <= RQ!First /\ RQ!First <= results.pushed
      /\ frames.popped \in Nat /\ MaxFrames \in Nat
  BY Numbers
<1>4. ASSUME NEW n \in 1..MaxFrames, Unsent(n)', n # new
      PROVE  Unsent(n) /\ item'[n] = item[n]
  <2>1. Unsent(n) /\ n \notin Results!Displaced
    BY <1>1, <1>3, <1>4 DEF Unsent
  <2> QED
    BY <1>2, <1>4, <2>1
<1>5. ASSUME NEW n \in 1..MaxFrames, n = new PROVE item'[n] = made
  <2>1. item'[n] = CASE n = new -> made
                     [] n \in Results!Displaced -> NoItem
                     [] OTHER -> item[n]
    BY <1>2
  <2>2. n \notin Results!Displaced
    BY <1>1, <1>3, <1>5
  <2> QED
    BY <1>5, <2>1, <2>2
<1>6. made.frame = frames.popped /\ sent < frames.popped /\ sent \in Nat
  BY <1>1 DEF Ordered, Before, Busy
<1>7. ASSUME NEW n \in 1..MaxFrames, Unsent(n)'
      PROVE  /\ sent' < item'[n].frame /\ item'[n].frame <= frames.popped
             /\ n # new => item'[n].frame < frames.popped
             /\ n <= new
  <2>1. CASE n = new
    BY <1>1, <1>3, <1>5, <1>6, <2>1
  <2>2. CASE n # new
    <3>1. Unsent(n) /\ item'[n] = item[n] /\ n <= results.pushed /\ item[n].frame \in Nat
      BY <1>4, <1>7, <2>2, UnsentNumbers
    <3>2. sent < item[n].frame /\ item[n].frame < frames.popped
      BY <1>1, <3>1 DEF Ordered, Before, Busy
    <3> QED
      BY <1>1, <1>3, <3>1, <3>2
  <2> QED
    BY <2>1, <2>2
<1>8. ASSUME NEW m \in 1..MaxFrames, NEW n \in 1..MaxFrames, m < n, Unsent(m)', Unsent(n)'
      PROVE  item'[m].frame < item'[n].frame
  <2>1. m # new /\ m <= new /\ n <= new
    BY <1>3, <1>7, <1>8
  <2>2. CASE n = new
    BY <1>5, <1>6, <1>7, <1>8, <2>1, <2>2
  <2>3. CASE n # new
    <3>1. Unsent(m) /\ Unsent(n) /\ item'[m] = item[m] /\ item'[n] = item[n]
      BY <1>4, <1>8, <2>1, <2>3
    <3> QED
      BY <1>8, <3>1 DEF Ordered
  <2> QED
    BY <2>2, <2>3
<1>9. ~Busy' /\ frames'.popped = frames.popped
  BY <1>1 DEF Busy
<1>10. sent' \in Nat /\ Before(sent)'
  BY <1>1, <1>3, <1>6, <1>9 DEF Before
<1>11. \A n \in 1..MaxFrames : Unsent(n)' => Before(item[n].frame)'
  BY <1>7, <1>9 DEF Before
<1> QED
  BY <1>1, <1>7, <1>8, <1>10, <1>11 DEF Ordered

LEMMA OrderSend ==
  ASSUME QInv, BInv, Ordered, Send
  PROVE  Ordered' /\ sent' = Current.frame /\ sent < Current.frame /\ Current.frame \in Nat
<1> DEFINE p == results.popped
<1>1. /\ publisher = "send" /\ publisher' = "drop" /\ sent' = item[p].frame
      /\ UNCHANGED <<frames, results, worker, made, item>> /\ (RQ!First)' = RQ!First
  BY FirstsKept DEF Send, Current, queueVars, budgetVars
<1>2. p \in 1..MaxFrames /\ Unsent(p) /\ p <= RQ!First
  BY <1>1, Numbers DEF BInv, Counted, Publishing, Unsent
<1>3. /\ item[p].frame \in Nat /\ sent < item[p].frame /\ Before(item[p].frame)
  BY <1>2, UnsentNumbers DEF Ordered
<1>4. ASSUME NEW n \in 1..MaxFrames, Unsent(n)'
      PROVE  Unsent(n) /\ p < n
  <2>1. RQ!First < n /\ n <= results.pushed
    BY <1>1, <1>4 DEF Unsent
  <2>2. RQ!First \in Nat /\ results.popped \in Nat
    BY Numbers
  <2> QED
    BY <1>2, <2>1, <2>2 DEF Unsent
<1>5. \A n \in 1..MaxFrames : Unsent(n)' => item[p].frame < item[n].frame
  BY <1>2, <1>4 DEF Ordered
<1>6. Busy' = Busy
  BY <1>1 DEF Busy
<1>7. \A n \in 1..MaxFrames : Unsent(n)' => sent' < item'[n].frame /\ Before(item[n].frame)'
  BY <1>1, <1>4, <1>5, <1>6 DEF Ordered, Before
<1>8. sent' \in Nat /\ Before(sent)'
  BY <1>1, <1>3, <1>6 DEF Before
<1>9. \A m, n \in 1..MaxFrames :
         m < n /\ Unsent(m)' /\ Unsent(n)' => item'[m].frame < item'[n].frame
  BY <1>1, <1>4 DEF Ordered
<1>10. Ordered'
  BY <1>1, <1>7, <1>8, <1>9 DEF Ordered
<1> QED
  BY <1>1, <1>3, <1>10 DEF Current

LEMMA OrderRest ==
  ASSUME QInv, BInv, Ordered,
         \/ Start \/ StopBegins \/ CloseFrames \/ CloseResults \/ Stopped
         \/ Submit \/ SubmitRefused \/ armDebug \/ Infer \/ PublisherPops \/ Encodes
         \/ DropItem \/ Notify \/ Wake \/ Tick \/ UNCHANGED vars
  PROVE  Ordered'
<1>1. CASE \/ Start \/ StopBegins \/ CloseFrames \/ CloseResults \/ Stopped
           \/ Submit \/ SubmitRefused \/ armDebug \/ Notify \/ Wake \/ Tick \/ UNCHANGED vars
  <2>1. /\ frames'.popped = frames.popped
        /\ results'.pushed = results.pushed /\ results'.popped = results.popped
        /\ (RQ!First)' = RQ!First
        /\ UNCHANGED <<made, item, sent>>
    <3>1. CASE CloseFrames
      BY <3>1, CloseFramesSeen, FirstsKept
    <3>2. CASE CloseResults
      BY <3>2, CloseResultsSeen, FirstsKept
    <3>3. CASE Notify \/ Wake
      BY <3>3, NotifySeen, FirstsKept DEF Quiet
    <3>4. CASE SubmitRefused
      BY <3>4, FirstsKept DEF SubmitRefused, Frames!PushRefused, Frames!vars, budgetVars
    <3>5. CASE Start \/ StopBegins \/ Stopped \/ armDebug \/ Tick \/ UNCHANGED vars
      BY <3>5, FirstsKept DEF Start, StopBegins, Stopped, armDebug, Tick, queueVars,
             budgetVars, vars
    <3>6. CASE Submit
      BY <3>6, SubmitSeen, FirstsKept
    <3> QED
      BY <1>1, <3>1, <3>2, <3>3, <3>4, <3>5, <3>6
  <2>2. \/ UNCHANGED <<worker, publisher>>
        \/ worker' = "pop" /\ publisher' = "pop"
    <3>1. CASE Notify \/ Wake
      BY <3>1, NotifySeen DEF Quiet
    <3> QED
      BY <1>1, <3>1 DEF Start, StopBegins, CloseFrames, CloseResults, Stopped, Submit,
             SubmitRefused, armDebug, Tick, vars
  <2>3. Busy' => Busy
    BY <2>2 DEF Busy
  <2>4. worker' = "push" => made'.frame = frames.popped
    BY <2>1, <2>2 DEF Ordered
  <2>5. \A n \in 1..MaxFrames : Unsent(n)' => Unsent(n) /\ item'[n].frame = item[n].frame
    BY <2>1, <2>2 DEF Unsent
  <2> QED
    BY <2>1, <2>3, <2>4, <2>5, OrderUntouched
<1>2. CASE Infer
  <2>1. /\ worker = "infer" /\ worker' = "push" /\ made'.frame = frames.popped
        /\ UNCHANGED <<frames, results, publisher, item, sent>> /\ (RQ!First)' = RQ!First
    <3>1. PICK place \in Places \cup {"none"} :
            LET granted == Encode(place) /\ Budget
            IN  made' = [frame |-> frames.popped, ticket |-> granted, picture |-> 0]
      BY <1>2, Zenon DEF Infer
    <3>2. made'.frame = frames.popped
      BY <3>1
    <3>3. /\ worker = "infer" /\ worker' = "push"
          /\ UNCHANGED <<frames, results, publisher, item, sent>>
      BY <1>2 DEF Infer, queueVars
    <3> QED
      BY <3>2, <3>3, FirstsKept
  <2>2. Busy' => Busy
    BY <2>1 DEF Busy
  <2>3. \A n \in 1..MaxFrames : Unsent(n)' => Unsent(n) /\ item'[n].frame = item[n].frame
    BY <2>1 DEF Unsent
  <2> QED
    BY <2>1, <2>2, <2>3, OrderUntouched
<1>3. CASE PublisherPops
  <2>1. /\ publisher = "pop" /\ frames' = frames
        /\ UNCHANGED <<worker, made, item, sent>>
        /\ \/ results' = results /\ publisher' \in {"pop", "gone"}
           \/ /\ results'.pushed = results.pushed
              /\ results'.popped = RQ!First + 1 /\ RQ!First < results.pushed
              /\ (RQ!First)' = RQ!First + 1
    BY <1>3, PublisherPopsSeen
  <2>2. RQ!First \in Nat /\ results.pushed \in Nat
    BY Numbers
  <2>3. \A n \in 1..MaxFrames : Unsent(n)' => Unsent(n)
    BY <2>1, <2>2, FirstsKept DEF Unsent
  <2> QED
    BY <2>1, <2>3, OrderUntouched DEF Busy, Ordered
<1>4. CASE Encodes
  <2>1. /\ publisher = "encode" /\ publisher' = "send"
        /\ UNCHANGED <<frames, results, worker, made, sent>> /\ (RQ!First)' = RQ!First
    BY <1>4, FirstsKept DEF Encodes, queueVars
  <2>2. \A n \in 1..MaxFrames : item'[n].frame = item[n].frame
    <3>1. results.popped \in 1..MaxFrames /\ item \in [1..MaxFrames -> ItemType]
      BY <2>1 DEF BInv, Counted, Publishing, Tickets
    <3>2. \/ item' = item
          \/ \E f : item' = [item EXCEPT ![results.popped] =
                                [item[results.popped] EXCEPT !.picture = f]]
      BY <1>4 DEF Encodes
    <3>3. ASSUME NEW f PROVE [item[results.popped] EXCEPT !.picture = f].frame
                             = item[results.popped].frame
      BY <3>1 DEF ItemType
    <3> QED
      BY <3>1, <3>2, <3>3
  <2>3. \A n \in 1..MaxFrames : Unsent(n)' => Unsent(n)
    BY <2>1 DEF Unsent
  <2> QED
    BY <2>1, <2>2, <2>3, OrderUntouched DEF Busy, Ordered
<1>5. CASE DropItem
  <2>1. /\ publisher = "drop" /\ publisher' = "pop"
        /\ item' = [item EXCEPT ![results.popped] = NoItem]
        /\ UNCHANGED <<frames, results, worker, made, sent>> /\ (RQ!First)' = RQ!First
    BY <1>5, FirstsKept DEF DropItem, queueVars
  <2>2. RQ!First \in Nat /\ results.popped \in Nat /\ results.popped <= RQ!First
    BY Numbers
  <2>3. ASSUME NEW n \in 1..MaxFrames, Unsent(n)'
        PROVE  Unsent(n) /\ item'[n].frame = item[n].frame
    <3>1. RQ!First < n /\ n <= results.pushed
      BY <2>1, <2>3 DEF Unsent
    <3>2. n # results.popped
      BY <2>2, <3>1
    <3> QED
      BY <2>1, <3>1, <3>2 DEF Unsent, BInv, Tickets
  <2> QED
    BY <2>1, <2>3, OrderUntouched DEF Busy, Ordered
<1> QED
  BY <1>1, <1>2, <1>3, <1>4, <1>5

(* The socket does what it does without touching what was sent. *)
LEMMA WireKeeps ==
  ASSUME BInv, Wired, WireIsReadable, UNCHANGED sent,
         NextButPublish \/ UNCHANGED publisherVars
  PROVE  Wired' /\ WireIsReadable'
<1>1. wire' = wire
  BY DEF NextButPublish, Connect, Accept, Register, PublisherStops, CloseSocket,
         AcceptFails, CloseClients, publisherVars
<1>2. ASSUME NEW c \in Clients
      PROVE  /\ conn'[c] = "listed" => conn[c] \in {"accepted", "listed"}
             /\ conn'[c] \in {"none", "backlog", "accepted"} =>
                   conn[c] \in {"none", "backlog", "accepted"}
  <2>1. conn \in [Clients -> Connections]
    BY DEF BInv, PublisherTypeOK
  <2>2. CASE \E d \in Clients : Connect(d) \/ Accept(d) \/ Register(d)
    BY <2>1, <2>2 DEF Connect, Accept, Register
  <2>3. CASE PublisherStops \/ CloseSocket \/ AcceptFails \/ CloseClients
             \/ UNCHANGED publisherVars
    BY <2>1, <2>3 DEF PublisherStops, CloseSocket, AcceptFails, CloseClients, publisherVars
  <2> QED
    BY <2>2, <2>3 DEF NextButPublish
<1>3. Wired'
  BY <1>1, <1>2 DEF Wired
<1> QED
  BY <1>1, <1>3 DEF WireIsReadable

(* A message newer than all that was sent. *)
LEMMA PublishKeeps ==
  ASSUME BInv, Wired, WireIsReadable, NEW message \in Nat, sent < message, sent \in Nat,
         sent' = message, Publish(message)
  PROVE  Wired' /\ WireIsReadable'
<1>1. PICK failing \in SUBSET Listed :
        /\ wire' = [c \in Clients |->
                       CASE c \in failing -> Append(wire[c], Cut)
                         [] c \in Listed \ failing -> Append(wire[c], message)
                         [] OTHER -> wire[c]]
        /\ conn' = [c \in Clients |-> IF c \in failing THEN Kept(c) ELSE conn[c]]
  BY Zenon DEF Publish
<1>2. wire \in [Clients -> Seq(Nat)]
  BY DEF Wired
<1>3. ASSUME NEW c \in Clients
      PROVE  /\ wire'[c] \in Seq(Nat)
             /\ \A i \in DOMAIN wire'[c] : wire'[c][i] <= message
             /\ conn'[c] = "listed" => \A i \in DOMAIN wire'[c] : wire'[c][i] # Cut
             /\ conn'[c] \in {"none", "backlog", "accepted"} => wire'[c] = <<>>
             /\ \A i, j \in DOMAIN wire'[c] :
                   i < j => /\ wire'[c][i] # Cut
                            /\ wire'[c][j] # Cut => wire'[c][i] < wire'[c][j]
  <2> DEFINE w == wire[c]
  <2>1. /\ w \in Seq(Nat) /\ DOMAIN w = 1..Len(w) /\ Len(w) \in Nat
        /\ \A i \in 1..Len(w) : w[i] \in Nat /\ w[i] <= sent
        /\ \A i, j \in 1..Len(w) : i < j => w[i] # Cut /\ (w[j] # Cut => w[i] < w[j])
    <3>1. w \in Seq(Nat) /\ DOMAIN w = 1..Len(w) /\ Len(w) \in Nat
          /\ \A i \in 1..Len(w) : w[i] \in Nat
      BY <1>2
    <3>2. \A i \in DOMAIN w : w[i] <= sent
      BY DEF Wired
    <3>3. \A i, j \in DOMAIN w : i < j => w[i] # Cut /\ (w[j] # Cut => w[i] < w[j])
      BY DEF WireIsReadable
    <3> QED
      BY <3>1, <3>2, <3>3
  <2>2. CASE c \notin Listed
    <3>1. wire'[c] = w /\ conn'[c] = conn[c]
      BY <1>1, <2>2
    <3>2. conn[c] # "listed"
      BY <2>2 DEF Listed
    <3>3. conn[c] \in {"none", "backlog", "accepted"} => w = <<>>
      BY DEF Wired
    <3> HIDE DEF w
    <3>4. \A i \in 1..Len(w) : w[i] <= message
      <4>1. ASSUME NEW i \in 1..Len(w) PROVE w[i] <= message
        <5>1. w[i] \in Nat /\ w[i] <= sent
          BY <2>1
        <5> QED
          BY <5>1
      <4> QED
        BY <4>1
    <3> QED
      BY <2>1, <3>1, <3>2, <3>3, <3>4
  <2>3. CASE c \in Listed
    <3>1. conn[c] = "listed" /\ \A i \in 1..Len(w) : w[i] # Cut
      BY <2>1, <2>3 DEF Listed, Wired
    <3>2. PICK last \in {Cut, message} :
             /\ wire'[c] = Append(w, last)
             /\ \/ last = Cut /\ conn'[c] = "closed"
                \/ last = message /\ conn'[c] = "listed"
      <4>1. CASE c \in failing
        <5>1. wire'[c] = Append(w, Cut) /\ conn'[c] = "closed"
          BY <1>1, <4>1 DEF Kept
        <5> QED
          BY <5>1
      <4>2. CASE c \notin failing
        <5>1. wire'[c] = Append(w, message) /\ conn'[c] = "listed"
          BY <1>1, <2>3, <3>1, <4>2
        <5> QED
          BY <5>1
      <4> QED
        BY <4>1, <4>2
    <3> DEFINE v == Append(w, last)
    <3>3. last \in Nat /\ last <= message /\ Cut = 0
      BY <3>2 DEF Cut
    <3>4. /\ v \in Seq(Nat) /\ DOMAIN v = 1..(Len(w) + 1)
          /\ v[Len(w) + 1] = last /\ \A i \in 1..Len(w) : v[i] = w[i]
      BY <2>1, <3>3
    <3> HIDE DEF w, v
    <3>5. \A i \in 1..(Len(w) + 1) : v[i] <= message
      <4>1. \A i \in 1..Len(w) : w[i] \in Nat /\ w[i] <= sent
        BY <2>1
      <4> QED
        BY <2>1, <3>3, <3>4, <4>1
    <3>6. last = message => \A i \in 1..(Len(w) + 1) : v[i] # Cut
      BY <2>1, <3>1, <3>3, <3>4
    <3>7. ASSUME NEW i \in 1..(Len(w) + 1), NEW j \in 1..(Len(w) + 1), i < j
          PROVE  v[i] # Cut /\ (v[j] # Cut => v[i] < v[j])
      <4>1. i \in 1..Len(w) /\ v[i] = w[i] /\ v[i] # Cut /\ v[i] \in Nat /\ v[i] <= sent
        BY <2>1, <3>1, <3>4, <3>7
      <4>2. CASE j = Len(w) + 1
        BY <3>2, <3>4, <4>1, <4>2
      <4>3. CASE j # Len(w) + 1
        <5>1. j \in 1..Len(w) /\ v[j] = w[j]
          BY <2>1, <3>4, <4>3
        <5> QED
          BY <2>1, <3>7, <4>1, <5>1
      <4> QED
        BY <4>2, <4>3
    <3>8. wire'[c] = v
      BY <3>2 DEF v
    <3> QED
      BY <3>2, <3>4, <3>5, <3>6, <3>7, <3>8
  <2> QED
    BY <2>2, <2>3
<1>4. wire' \in [Clients -> Seq(Nat)]
  <2>1. wire' = [c \in Clients |-> wire'[c]]
    BY <1>1
  <2> QED
    BY <1>3, <2>1
<1>5. Wired'
  BY <1>3, <1>4 DEF Wired
<1>6. WireIsReadable'
  BY <1>3 DEF WireIsReadable
<1> QED
  BY <1>5, <1>6

LEMMA OrderInvariant == SpecResults => []OInv
<1>1. InitResults => BInv /\ OInv
  BY InitBInv, InitOInv
<1>2. QInv /\ BInv /\ OInv /\ [NextResults]_allVars => OInv'
  <2> SUFFICES ASSUME QInv, BInv, OInv, [NextResults]_allVars PROVE OInv'
    OBVIOUS
  <2>1. Ordered /\ Wired /\ WireIsReadable
    BY DEF OInv
  <2>2. CASE Send /\ Publish(Current.frame)
    <3>1. /\ Ordered' /\ sent' = Current.frame /\ sent < Current.frame
          /\ Current.frame \in Nat /\ sent \in Nat
      BY <2>1, <2>2, OrderSend DEF Ordered
    <3>2. Wired' /\ WireIsReadable'
      BY <2>1, <2>2, <3>1, PublishKeeps
    <3> QED
      BY <3>1, <3>2 DEF OInv
  <2>3. CASE NextButSend /\ UNCHANGED publisherVars
    <3>1. CASE WorkerPops \/ PushResult
      <4>1. Ordered'
        BY <2>1, <3>1, OrderWorkerPops, OrderPushResult
      <4>2. sent' = sent
        BY <3>1, WorkerPopsSeen, PushResultSeen
      <4> QED
        BY <2>1, <2>3, <4>1, <4>2, WireKeeps DEF OInv
    <3>2. CASE ~WorkerPops /\ ~PushResult
      <4>1. \/ Start \/ StopBegins \/ CloseFrames \/ CloseResults \/ Stopped
            \/ Submit \/ SubmitRefused \/ armDebug \/ Infer \/ PublisherPops \/ Encodes
            \/ DropItem \/ Notify \/ Wake \/ Tick
        BY <2>3, <3>2 DEF NextButSend, Stopper, Worker, PublisherRest
      <4>2. Ordered'
        BY <2>1, <4>1, OrderRest
      <4>3. sent' = sent
        BY <4>1 DEF Start, StopBegins, CloseFrames, CloseResults, Stopped, Submit,
               SubmitRefused, armDebug, Infer, PublisherPops, Encodes, DropItem, Notify,
               Wake, Tick
      <4> QED
        BY <2>1, <2>3, <4>2, <4>3, WireKeeps DEF OInv
    <3> QED
      BY <3>1, <3>2
  <2>4. CASE (NextButPublish \/ UNCHANGED publisherVars) /\ UNCHANGED vars
    <3>1. Ordered'
      BY <2>1, <2>4, OrderRest
    <3>2. sent' = sent
      BY <2>4 DEF vars
    <3> QED
      BY <2>1, <2>4, <3>1, <3>2, WireKeeps DEF OInv
  <2> QED
    BY <2>2, <2>3, <2>4 DEF NextResults, allVars
<1>3. SpecResults => []QInv
  BY QueuesKeepOrder DEF QInv
<1>4. SpecResults => []BInv
  BY BudgetInvariant
<1> QED
  BY <1>1, <1>2, <1>3, <1>4, PTL DEF SpecResults

(* Whatever is displaced and whoever is cut off, what a consumer was sent is  *)
(* whole messages in the order of the frames, no frame twice, with nothing    *)
(* after a part of one (ResultPublisher::publish), and each picture is of the *)
(* frame of its result (JpegEncoder's teardown after a timeout).             *)
THEOREM ConsumersCanRead == SpecResults => []SentIsReadable
<1>1. BInv /\ OInv => SentIsReadable
  BY DEF BInv, OInv, Pictures, SentIsReadable
<1> QED
  BY <1>1, BudgetInvariant, OrderInvariant, PTL

-----------------------------------------------------------------------------
(* What stop() leaves behind.  Each thread ends on a queue that is closed and *)
(* empty, and the second queue is closed after the worker ended (Phases);     *)
(* the newest result is of the newest frame until it is sent (Newest).        *)

Phases ==
    /\ stopper \in {"publisher", "done"} => worker = "gone"
    /\ stopper = "done" => publisher = "gone"
    /\ worker = "gone" => frames.items = <<>> /\ frames.closed = TRUE
    /\ publisher = "gone" => results.items = <<>> /\ results.closed = TRUE
    /\ results.closed = TRUE => worker = "gone"
OnItsWay == RQ!First < results.pushed \/ publisher \in {"encode", "send"}
Newest ==
    worker \in {"idle", "pop", "gone"} =>
        /\ OnItsWay => item[results.pushed].frame = frames.popped
        /\ ~OnItsWay => sent = frames.popped
Last == RQ!First = results.pushed => results.popped = results.pushed
Doors ==
    /\ \A c \in Clients : conn[c] = "accepted" => acceptor = "register"
    /\ \A c, d \in Clients : conn[c] = "accepted" /\ conn[d] = "accepted" => c = d
    /\ closer = "done" => acceptor = "gone" /\ \A c \in Clients : conn[c] # "listed"

SInv == Phases /\ Newest /\ Last /\ Doors

LEMMA InitSInv == InitResults => SInv
<1> SUFFICES ASSUME InitResults PROVE SInv
  OBVIOUS
<1>1. /\ frames.popped = 0 /\ results.pushed = 0 /\ results.popped = 0
      /\ Len(results.items) = 0 /\ results.closed = FALSE
      /\ stopper = "out" /\ worker = "idle" /\ publisher = "idle" /\ sent = 0
  BY DEF InitResults, Init, Frames!Init, Results!Init
<1>2. RQ!First = 0
  BY <1>1 DEF RQ!First
<1>3. Phases
  BY <1>1 DEF Phases
<1>4. Newest /\ Last
  BY <1>1, <1>2 DEF Newest, Last, OnItsWay
<1>5. Doors
  BY DEF InitResults, InitPublisher, Doors
<1> QED
  BY <1>3, <1>4, <1>5 DEF SInv

(* The socket: a connection that was accepted is in the hands of the accept   *)
(* thread, which stop() joins before it closes those in the list.            *)
LEMMA DoorsKept ==
  ASSUME BInv, Doors, NextResults \/ UNCHANGED allVars
  PROVE  Doors'
<1>1. conn \in [Clients -> Connections] /\ acceptor \in {"accept", "register", "gone"}
  BY DEF BInv, PublisherTypeOK
<1>2. CASE UNCHANGED publisherVars
  BY <1>2 DEF Doors, publisherVars
<1>3. CASE Publish(Current.frame)
  <2>1. /\ UNCHANGED <<acceptor, closer>>
        /\ \A c \in Clients : conn'[c] \in {conn[c], "closed"}
    BY <1>1, <1>3 DEF Publish, Kept
  <2> QED
    BY <2>1 DEF Doors
<1>4. ASSUME NEW c \in Clients, Connect(c) PROVE Doors'
  BY <1>1, <1>4 DEF Connect, Doors
<1>5. ASSUME NEW c \in Clients, Accept(c) PROVE Doors'
  BY <1>1, <1>5 DEF Accept, Doors
<1>6. ASSUME NEW c \in Clients, Register(c) PROVE Doors'
  BY <1>1, <1>6 DEF Register, Doors
<1>7. CASE PublisherStops \/ CloseSocket \/ AcceptFails
  BY <1>1, <1>7 DEF PublisherStops, CloseSocket, AcceptFails, Doors
<1>8. CASE CloseClients
  BY <1>1, <1>8 DEF CloseClients, AcceptorJoined, Doors
<1> QED
  BY <1>2, <1>3, <1>4, <1>5, <1>6, <1>7, <1>8 DEF NextResults, NextButPublish, allVars

LEMMA StopPushResult ==
  ASSUME QInv, BInv, Ordered, Phases, Newest, Last, PushResult
  PROVE  Phases' /\ Newest' /\ Last'
<1> DEFINE new == results.pushed + 1
<1>1. /\ worker = "push" /\ worker' = "pop" /\ frames' = frames
      /\ results.closed = FALSE /\ results'.closed = FALSE
      /\ results'.pushed = new /\ results'.popped = results.popped
      /\ (RQ!First)' < results'.pushed
      /\ \/ Results!Displaced = {}
         \/ /\ Results!Displaced = {RQ!First + 1}
            /\ RQ!First < results.pushed
      /\ UNCHANGED <<stopper, publisher, sent>>
  BY PushResultSeen
<1>2. /\ results.pushed \in Nat /\ RQ!First \in Nat /\ MaxFrames \in Nat
      /\ RQ!First <= results.pushed
  BY Numbers
<1>3. new \in 1..MaxFrames /\ new \notin Results!Displaced
  <2>1. /\ frames.popped \in Nat /\ FQ!First \in Nat /\ frames.pushed \in Nat
        /\ frames.popped <= FQ!First /\ FQ!First <= frames.pushed
    BY Numbers
  <2>2. frames.pushed <= MaxFrames /\ results.pushed < frames.popped
    BY <1>1 DEF BInv, Counted, Busy
  <2> QED
    BY <1>1, <1>2, <2>1, <2>2
<1>4. item'[new] = made
  <2>1. item'[new] = CASE new = new -> made
                       [] new \in Results!Displaced -> NoItem
                       [] OTHER -> item[new]
    BY <1>3, Zenon DEF PushResult
  <2> QED
    BY <1>3, <2>1
<1>5. made.frame = frames.popped
  BY <1>1 DEF Ordered
<1>6. Phases'
  BY <1>1 DEF Phases
<1>7. (RQ!First)' # results'.pushed
  <2>1. (RQ!First)' \in Nat
    BY <1>2, PushResultSeen
  <2> QED
    BY <1>1, <1>2, <2>1
<1>8. Newest' /\ Last'
  BY <1>1, <1>4, <1>5, <1>7 DEF Newest, Last, OnItsWay
<1> QED
  BY <1>6, <1>8

LEMMA StopPops ==
  ASSUME QInv, BInv, Phases, Newest, Last, WorkerPops \/ PublisherPops
  PROVE  Phases' /\ Newest' /\ Last'
<1>1. CASE WorkerPops
  <2>1. /\ worker = "pop" /\ results' = results /\ (RQ!First)' = RQ!First
        /\ UNCHANGED <<stopper, publisher, item, sent>>
        /\ \/ frames' = frames /\ worker' = worker
           \/ frames'.closed = frames.closed /\ worker' = "infer"
           \/ /\ frames' = frames /\ frames.items = <<>> /\ frames.closed = TRUE
              /\ worker' = "gone"
    BY <1>1, WorkerPopsSeen, FirstsKept
  <2>2. Phases'
    BY <2>1 DEF Phases
  <2>3. Newest' /\ Last'
    BY <2>1 DEF Newest, Last, OnItsWay
  <2> QED
    BY <2>2, <2>3
<1>2. CASE PublisherPops
  <2>1. /\ publisher = "pop" /\ frames' = frames
        /\ UNCHANGED <<stopper, worker, item, sent>>
        /\ \/ results' = results /\ publisher' = publisher
           \/ /\ results'.pushed = results.pushed /\ results'.closed = results.closed
              /\ results'.popped = RQ!First + 1 /\ RQ!First < results.pushed
              /\ (RQ!First)' = RQ!First + 1
              /\ publisher' \in {"encode", "send"}
           \/ /\ results' = results /\ results.items = <<>> /\ results.closed = TRUE
              /\ publisher' = "gone"
    BY <1>2, PublisherPopsSeen
  <2>2. Phases'
    BY <2>1 DEF Phases
  <2>3. Newest' /\ Last'
    BY <2>1, FirstsKept DEF Newest, Last, OnItsWay
  <2> QED
    BY <2>2, <2>3
<1> QED
  BY <1>1, <1>2

LEMMA StopSends ==
  ASSUME QInv, BInv, Phases, Newest, Last, Encodes \/ Send \/ DropItem
  PROVE  Phases' /\ Newest' /\ Last'
<1>1. /\ UNCHANGED <<frames, results, stopper, worker>> /\ (RQ!First)' = RQ!First
      /\ publisher' # "gone" /\ publisher # "gone"
  BY FirstsKept DEF Encodes, Send, DropItem, queueVars, jobVars
<1>2. Phases' /\ Last'
  BY <1>1 DEF Phases, Last
<1>3. /\ RQ!First \in Nat /\ results.pushed \in Nat /\ results.popped \in Nat
      /\ results.popped <= RQ!First /\ RQ!First <= results.pushed
  BY Numbers
<1>4. CASE Encodes
  <2>1. publisher = "encode" /\ publisher' = "send" /\ sent' = sent
    BY <1>4 DEF Encodes
  <2>2. item'[results.pushed].frame = item[results.pushed].frame
    <3>1. results.popped \in 1..MaxFrames /\ item \in [1..MaxFrames -> ItemType]
      BY <2>1 DEF BInv, Counted, Publishing, Tickets
    <3>2. \/ item' = item
          \/ \E f : item' = [item EXCEPT ![results.popped] =
                                [item[results.popped] EXCEPT !.picture = f]]
      BY <1>4 DEF Encodes
    <3>3. ASSUME NEW f PROVE [item[results.popped] EXCEPT !.picture = f].frame
                             = item[results.popped].frame
      BY <3>1 DEF ItemType
    <3>4. results.pushed \in 1..MaxFrames
      <4>1. /\ results.pushed <= frames.popped /\ frames.pushed <= MaxFrames
            /\ frames.popped <= FQ!First /\ FQ!First <= frames.pushed
            /\ frames.popped \in Nat /\ FQ!First \in Nat /\ frames.pushed \in Nat
            /\ MaxFrames \in Nat
        BY Numbers DEF BInv, Counted
      <4> QED
        BY <1>3, <3>1, <4>1
    <3>5. CASE item' = item
      BY ONLY <3>5
    <3>6. ASSUME NEW f,
                 item' = [item EXCEPT ![results.popped] =
                             [item[results.popped] EXCEPT !.picture = f]]
          PROVE  item'[results.pushed].frame = item[results.pushed].frame
      <4>1. CASE results.pushed = results.popped
        <5>1. item'[results.pushed] = [item[results.popped] EXCEPT !.picture = f]
          BY ONLY <3>1, <3>6, <4>1
        <5> QED
          BY ONLY <3>3, <4>1, <5>1
      <4>2. CASE results.pushed # results.popped
        <5>1. item'[results.pushed] = item[results.pushed]
          BY ONLY <3>1, <3>4, <3>6, <4>2
        <5> QED
          BY ONLY <5>1
      <4> QED
        BY <4>1, <4>2
    <3> QED
      BY <3>2, <3>5, <3>6
  <2> QED
    BY <1>1, <1>2, <2>1, <2>2 DEF Newest, OnItsWay
<1>5. CASE Send
  <2>1. /\ publisher = "send" /\ publisher' = "drop" /\ item' = item
        /\ sent' = item[results.popped].frame
    BY <1>5 DEF Send, Current, budgetVars
  <2>2. ~(RQ!First < results.pushed) => results.popped = results.pushed
    BY <1>3 DEF Last
  <2> QED
    BY <1>1, <1>2, <2>1, <2>2 DEF Newest, OnItsWay
<1>6. CASE DropItem
  <2>1. /\ publisher = "drop" /\ publisher' = "pop" /\ sent' = sent
        /\ item' = [item EXCEPT ![results.popped] = NoItem]
        /\ item \in [1..MaxFrames -> ItemType]
    BY <1>6 DEF DropItem, BInv, Tickets
  <2>2. RQ!First < results.pushed => item'[results.pushed] = item[results.pushed]
    BY <1>3, <2>1
  <2> QED
    BY <1>1, <1>2, <2>1, <2>2 DEF Newest, OnItsWay
<1> QED
  BY <1>4, <1>5, <1>6

LEMMA StopRest ==
  ASSUME QInv, BInv, Phases, Newest, Last,
         \/ Start \/ StopBegins \/ CloseFrames \/ CloseResults \/ Stopped
         \/ Submit \/ SubmitRefused \/ armDebug \/ Infer \/ Notify \/ Wake \/ Tick
         \/ UNCHANGED vars
  PROVE  Phases' /\ Newest' /\ Last'
<1>1. CASE CloseFrames
  <2>1. /\ stopper' = "worker" /\ results' = results /\ (RQ!First)' = RQ!First
        /\ frames'.popped = frames.popped /\ frames'.closed = TRUE
        /\ frames'.items = frames.items
        /\ UNCHANGED <<worker, publisher, item, sent>>
    BY <1>1, CloseFramesSeen, FirstsKept
  <2> QED
    BY <2>1 DEF Phases, Newest, Last, OnItsWay
<1>2. CASE CloseResults
  <2>1. /\ stopper' = "publisher" /\ frames' = frames /\ worker = "gone"
        /\ results'.pushed = results.pushed /\ results'.popped = results.popped
        /\ results'.closed = TRUE /\ results'.items = results.items
        /\ (RQ!First)' = RQ!First
        /\ UNCHANGED <<worker, publisher, item, sent>>
    BY <1>2, CloseResultsSeen
  <2> QED
    BY <2>1 DEF Phases, Newest, Last, OnItsWay
<1>3. CASE Submit
  <2>1. /\ frames.closed = FALSE /\ frames'.popped = frames.popped
        /\ results' = results /\ (RQ!First)' = RQ!First
        /\ UNCHANGED <<stopper, worker, publisher, item, sent>>
    BY <1>3, SubmitSeen, FirstsKept
  <2> QED
    BY <2>1 DEF Phases, Newest, Last, OnItsWay
<1>4. CASE Notify \/ Wake
  <2>1. UNCHANGED <<frames, results, stopper, worker, publisher, item, sent>>
        /\ (RQ!First)' = RQ!First
    BY <1>4, NotifySeen, FirstsKept DEF Quiet
  <2> QED
    BY <2>1 DEF Phases, Newest, Last, OnItsWay
<1>5. CASE Infer
  <2>1. /\ UNCHANGED <<frames, results, stopper, publisher, item, sent>>
        /\ (RQ!First)' = RQ!First /\ worker = "infer" /\ worker' = "push"
    BY <1>5, FirstsKept DEF Infer, queueVars, jobVars
  <2> QED
    BY <2>1 DEF Phases, Newest, Last, OnItsWay
<1>6. CASE Start
  <2>1. worker = "idle" /\ publisher = "idle"
    BY <1>6 DEF Start, BInv, Phase
  <2>2. /\ UNCHANGED <<frames, results, stopper, item, sent>> /\ stopper = "out"
        /\ (RQ!First)' = RQ!First /\ worker' = "pop" /\ publisher' = "pop"
    BY <1>6, FirstsKept DEF Start, queueVars, budgetVars
  <2> QED
    BY <2>1, <2>2 DEF Phases, Newest, Last, OnItsWay
<1>7. CASE SubmitRefused \/ armDebug \/ Tick \/ UNCHANGED vars
  <2>1. UNCHANGED <<frames, results, stopper, worker, publisher, item, sent>>
        /\ (RQ!First)' = RQ!First
    BY <1>7, FirstsKept DEF SubmitRefused, Frames!PushRefused, Frames!vars, armDebug, Tick,
           queueVars, budgetVars, jobVars, vars
  <2> QED
    BY <2>1 DEF Phases, Newest, Last, OnItsWay
<1>8. CASE StopBegins \/ Stopped
  <2>1. /\ UNCHANGED <<frames, results, worker, publisher, item, sent>>
        /\ (RQ!First)' = RQ!First
        /\ \/ stopper' = "frames"
           \/ stopper = "publisher" /\ stopper' = "done" /\ publisher = "gone"
    BY <1>8, FirstsKept DEF StopBegins, Stopped, queueVars, budgetVars
  <2> QED
    BY <2>1 DEF Phases, Newest, Last, OnItsWay
<1> QED
  BY <1>1, <1>2, <1>3, <1>4, <1>5, <1>6, <1>7, <1>8

(* Stopping leaves nothing behind: every result but those displaced has been  *)
(* sent, down to the newest, every ticket is back (AiJob::stop joins the      *)
(* worker before it closes m_pubQueue), and no connection stays open, however *)
(* late it was accepted (ResultPublisher::stop).                             *)
THEOREM StoppingIsClean == SpecResults => []StopIsClean
<1>1. InitResults => SInv
  BY InitSInv
<1>2. QInv /\ BInv /\ OInv /\ SInv /\ [NextResults]_allVars => SInv'
  <2> SUFFICES ASSUME QInv, BInv, OInv, SInv, [NextResults]_allVars PROVE SInv'
    OBVIOUS
  <2>1. Ordered /\ Phases /\ Newest /\ Last /\ Doors
    BY DEF OInv, SInv
  <2>2. Doors'
    BY <2>1, DoorsKept
  <2>3. \/ Start \/ StopBegins \/ CloseFrames \/ CloseResults \/ Stopped
        \/ Submit \/ SubmitRefused \/ armDebug \/ Infer \/ Notify \/ Wake \/ Tick
        \/ UNCHANGED vars
        \/ PushResult \/ WorkerPops \/ PublisherPops \/ Encodes \/ Send \/ DropItem
    BY DEF NextResults, NextButSend, Stopper, Worker, PublisherRest, allVars
  <2>4. Phases' /\ Newest' /\ Last'
    BY <2>1, <2>3, StopRest, StopPushResult, StopPops, StopSends
  <2> QED
    BY <2>2, <2>4 DEF SInv
<1>3. QInv /\ BInv /\ SInv => StopIsClean
  <2> SUFFICES ASSUME QInv, BInv, SInv PROVE StopIsClean
    OBVIOUS
  <2>1. NoClientLeft
    BY DEF SInv, Doors, NoClientLeft
  <2>2. ASSUME stopper = "done"
        PROVE  /\ frames.items = <<>> /\ results.items = <<>> /\ pending = 0
               /\ results.popped = results.pushed /\ sent = frames.popped
    <3>1. /\ worker = "gone" /\ publisher = "gone"
          /\ frames.items = <<>> /\ results.items = <<>>
      BY <2>2 DEF SInv, Phases
    <3>2. RQ!First = results.pushed /\ results.pushed \in Nat
      BY <3>1, Numbers
    <3>3. results.popped = results.pushed
      BY <3>2 DEF SInv, Last
    <3>4. sent = frames.popped
      BY <3>1, <3>2 DEF SInv, Newest, OnItsWay
    <3>5. \A n \in 1..MaxFrames : ~item[n].ticket
      <4>1. ASSUME NEW n \in 1..MaxFrames, Around(n) PROVE FALSE
        BY <3>1, <3>2, <4>1 DEF Around, Publishing
      <4> QED
        BY <4>1 DEF BInv, Tickets
    <3>6. Holders = {} /\ ~made.ticket
      BY <3>1, <3>5 DEF Holders, BInv, Tickets
    <3>7. pending = 0
      BY <3>6, FS_EmptySet DEF BInv, BudgetIsExact
    <3> QED
      BY <3>1, <3>3, <3>4, <3>7
  <2> QED
    BY <2>1, <2>2 DEF StopIsClean, StopLosesNothing
<1>4. SpecResults => []QInv
  BY QueuesKeepOrder DEF QInv
<1>5. SpecResults => []BInv
  BY BudgetInvariant
<1>6. SpecResults => []OInv
  BY OrderInvariant
<1> QED
  BY <1>1, <1>2, <1>3, <1>4, <1>5, <1>6, PTL DEF SpecResults
=============================================================================
