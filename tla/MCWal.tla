-------------------------------- MODULE MCWal --------------------------------
(***************************************************************************)
(* A topic of the Walrus engine on small instances: a caller that makes    *)
(* one call at a time, and threads that also see appends fail.             *)
(***************************************************************************)
EXTENDS WalTopic

VARIABLE mode   \* "serial" or "failures"; chosen at the start

walVars == <<topicVars, mode>>

Serial == mode = "serial"

\* Bounds on entries and restarts together in each mode, and on a batch of
\* the second.
SerialSteps == 5
FailingSteps == 3
FailingBatch == 2

CallerNext == SerialNext /\ entries' + Len(restarts') <= SerialSteps

FailingNext ==
  /\ TopicNext
  /\ entries' + Len(restarts') <= FailingSteps /\ Len(batch'.plan) <= FailingBatch

\* The caller, who keeps reading, and the threads that finish an append run on.
SerialFairness ==
  /\ \A r \in Reader : WF_topicVars(Serial /\ WriterFree /\ ReadStep(r))
  /\ \A r \in Reader : SF_topicVars(Serial /\ WriterFree /\ Counted /\ ReadStart(r, TRUE))
  /\ WF_topicVars(Serial /\ (BatchDone \/ \E i \in batch.todo : BatchWriteOne(i)))
  /\ WF_topicVars(Serial /\ CountNext)

WalSpec ==
  /\ TopicInit /\ mode \in {"serial", "failures"}
  /\ [][(IF Serial THEN CallerNext ELSE FailingNext) /\ UNCHANGED mode]_walVars
  /\ SerialFairness

-----------------------------------------------------------------------------
Queue == INSTANCE WalQueue WITH queue <- IF Serial THEN Content ELSE <<>>,
                                taken <- IF Serial THEN Past ELSE 0

\* A caller that makes one call at a time sees a queue: block rotation, the
\* carrying over of tail progress, the two forms of the persisted position and
\* the renumbering of blocks at a restart neither lose, repeat nor reorder an
\* entry, and a restart in the middle of a call puts the reader back at most.
ImplementsQueue == Queue!QueueSpec

\* A reader that keeps calling read_next gets every entry whose append
\* returned Ok, over block rotations and restarts.
AckedDelivered ==
  Serial => []<>(\A i \in DOMAIN acked :
                   \E j \in DOMAIN delivered : delivered[j] = acked[i])
=============================================================================
