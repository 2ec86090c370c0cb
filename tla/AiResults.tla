----------------------------- MODULE AiResults -----------------------------
(***************************************************************************)
(* An AI job and the socket its results leave by: the sink that             *)
(* AiManager::rebuildLocked gives each job calls ResultPublisher::publish   *)
(* on the job's publish thread.                                            *)
(***************************************************************************)
EXTENDS AiJob, ResultPublisher

allVars == <<vars, publisherVars>>

InitResults == Init /\ InitPublisher

\* AiManager::stop() tears the jobs down before it stops the publisher.
StopOrder == closer' = closer \/ stopper = "done" \/ worker = "idle"

NextResults ==
    \/ NextButSend /\ UNCHANGED publisherVars
    \/ Send /\ Publish(Current.frame)
    \/ NextButPublish /\ StopOrder /\ UNCHANGED vars

SpecResults == InitResults /\ [][NextResults]_allVars

\* Threads run: the queues' calls and notifications end, inference and
\* encoding end (the encoder gives up after two seconds), send() ends (the
\* socket has a timeout), and a stop() that began goes on.
FairResults ==
    /\ SpecResults
    /\ WF_allVars(Worker /\ UNCHANGED publisherVars)
    /\ WF_allVars(PublisherRest /\ UNCHANGED publisherVars)
    /\ WF_allVars(Send /\ Publish(Current.frame))
    /\ WF_allVars(Notify /\ UNCHANGED publisherVars)
    /\ WF_allVars(Stopper /\ UNCHANGED publisherVars)

\* The types of both; a budget that is neither exceeded nor leaked.
BudgetIsKept == TypeOK /\ PublisherTypeOK /\ BudgetIsExact

\* What a consumer receives can be read, and each picture is of its result.
SentIsReadable == PictureIsOfItsFrame /\ WireIsReadable

\* Stopping leaves nothing behind: no result unsent, no connection open.
StopIsClean == StopLosesNothing /\ NoClientLeft
=============================================================================
