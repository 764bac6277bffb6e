---------------------------- MODULE MCRaftTasks ----------------------------
(***************************************************************************)
(* The tasks of a leader on small instances; part says what runs.          *)
(* "stream": RaftStream with either a fault and a membership change, of a  *)
(* leader with two entries, or two changes.  "ids", "progress", "members": *)
(* the data structures the engine is built on, each explored alone.        *)
(***************************************************************************)
EXTENDS RaftStream, RaftLogIds, RaftProgress, MembershipChange

VARIABLE part

tasksVars == <<part, streamVars, logIdVars, progressVars, conf>>

SomeProgress ==
  \E voters \in SUBSET Ids \ {{}} :
    \E l \in voters, nodes \in {voters, Ids} : ProgressInit(Uniform(voters, nodes), l)

TasksInit ==
  /\ part \in {"stream", "ids", "progress", "members"}
  /\ IF part = "stream"
     THEN (StreamInit(0, MaxSessions - 1) /\ core.last = 2) \/ StreamInit(MaxFaults, 0)
     ELSE StreamInit(MaxFaults, 0) /\ core.last = 1 /\ core.purged = 0 /\ target = 0
  /\ LogIdsInit
  /\ IF part = "progress" THEN SomeProgress ELSE ProgressInit(Uniform({1}, {1}), 1)
  /\ IF part = "members" THEN ConfInit ELSE conf = Uniform(Ids, Ids)

TasksNext ==
  /\ UNCHANGED part
  /\ \/ part = "stream" /\ StreamNext
        /\ UNCHANGED <<logIdVars, progressVars, conf>>
     \/ part = "ids" /\ LogIdsNext
        /\ UNCHANGED <<streamVars, progressVars, conf>>
     \/ part = "progress" /\ ProgressNext
        /\ UNCHANGED <<streamVars, logIdVars, conf>>
     \/ part = "members" /\ ConfNext
        /\ UNCHANGED <<streamVars, logIdVars, progressVars>>

Off == part # "stream"

\* The core's loop, the tasks and the heartbeat keep running, a request ends (at
\* the latest with its timeout) and a backoff is over some time: weak fairness,
\* with the states written out in which an action has nothing to do.
StreamFairness ==
  /\ []<>(Off \/ CoreIdle) \/ []<><<~Off /\ LeaderHandlesNotification>>_streamVars
  /\ []<>(Off \/ ~core.joining \/ strm.pc # "ended")
  /\ []<>(Off \/ TaskIdle) \/ []<><<~Off /\ StreamTask>>_streamVars
  /\ []<>(Off \/ sender = {}) \/ []<><<~Off /\ SnapshotSent>>_streamVars
  /\ []<>(Off \/ HeartbeatIdle) \/ []<><<~Off /\ Heartbeat>>_streamVars
  /\ []<>(Off \/ strm.pc # "backoff")

TasksSpec == TasksInit /\ [][TasksNext]_tasksVars /\ StreamFairness

-----------------------------------------------------------------------------
\* Where the stream runs, the target gets the whole log of the leader
\* (TargetCatchesUp of module RaftStream).
StreamCatchesUp == part = "stream" => TargetCatchesUp
=============================================================================
