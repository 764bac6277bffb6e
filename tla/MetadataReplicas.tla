-------------------------- MODULE MetadataReplicas --------------------------
(***************************************************************************)
(* The metadata replicated through Raft.  Raft itself (the vendored        *)
(* openraft) is external: what the code relies on is one committed log of  *)
(* commands, which each node applies in order to its own replica.          *)
(*                                                                         *)
(* A proposal is in flight in a slot from the moment a node hands it to    *)
(* Raft until it commits or is lost.  The proposer may stop waiting for it *)
(* long before (propose_metadata gives up after 10 or 15 seconds), so a    *)
(* slot belongs to no one.                                                 *)
(***************************************************************************)
EXTENDS Metadata, Sequences

CONSTANTS Slot,        \* proposals that may be in flight at once
          MaxLog,      \* bound on the number of committed commands
          MaxCount,    \* bound on the count a rollover may carry
          MaxRestarts  \* bound on the number of node restarts

ASSUME BoundsAssumption ==
  /\ MaxLog \in Nat
  /\ MaxCount \in Nat
  /\ MaxRestarts \in Nat

VARIABLES log,      \* the committed commands
          history,  \* history[i]: the cluster state after i - 1 commands
          applied,  \* how many commands each replica has applied
          meta,     \* the replica of each node
          halted,   \* nodes whose Raft core stopped on an apply error
          inflight, \* the proposal in each slot
          restarts

replicaVars == <<log, history, applied, meta, halted, inflight, restarts>>

NoCmd == [op |-> "None"]

\* The state of a replica that has applied everything.
Committed == history[Len(history)]

ReplicaTypeOK ==
  /\ log \in Seq(MetadataCmd)
  /\ Len(log) <= MaxLog
  /\ Len(history) = Len(log) + 1
  /\ \A i \in 1..Len(history) : IsClusterState(history[i])
  /\ applied \in [Node -> 0..Len(log)]
  /\ \A n \in Node : IsClusterState(meta[n])
  /\ halted \subseteq Node
  /\ inflight \in [Slot -> MetadataCmd \cup {NoCmd}]
  /\ restarts \in 0..MaxRestarts

ReplicaInit ==
  /\ log = <<>>
  /\ history = <<EmptyCluster>>
  /\ applied = [n \in Node |-> 0]
  /\ meta = [n \in Node |-> EmptyCluster]
  /\ halted = {}
  /\ inflight = [i \in Slot |-> NoCmd]
  /\ restarts = 0

-----------------------------------------------------------------------------
\* Whether node n may propose cmd, judged by its own replica: ensure_topic
\* returns early when the topic is known; a rollover is proposed only for a
\* topic the node has seen (owned_topics, or the key of an append that held
\* a lease); a node address is recorded unconditionally.
MayPropose(n, cmd) ==
  CASE cmd.op = "CreateTopic"   -> cmd.name \notin DOMAIN meta[n].topics
    [] cmd.op = "RolloverTopic" -> cmd.name \in DOMAIN meta[n].topics
    [] cmd.op = "UpsertNode"    -> TRUE

\* propose_metadata hands the command to Raft, here or through the leader.
Propose(n, i, cmd) ==
  /\ n \notin halted
  /\ inflight[i] = NoCmd
  /\ MayPropose(n, cmd)
  /\ inflight' = [inflight EXCEPT ![i] = cmd]
  /\ UNCHANGED <<log, history, applied, meta, halted, restarts>>

\* Raft commits the proposal.
Commit(i) ==
  /\ inflight[i] # NoCmd
  /\ Len(log) < MaxLog
  /\ log' = Append(log, inflight[i])
  /\ history' = Append(history, Apply(Committed, inflight[i]))
  /\ inflight' = [inflight EXCEPT ![i] = NoCmd]
  /\ UNCHANGED <<applied, meta, halted, restarts>>

\* The proposal is lost: no leader, an unreachable leader, a leader change.
Lose(i) ==
  /\ inflight[i] # NoCmd
  /\ inflight' = [inflight EXCEPT ![i] = NoCmd]
  /\ UNCHANGED <<log, history, applied, meta, halted, restarts>>

\* Faulty: the last command is not applied.
BadApplyNextStops(n) ==
  /\ applied[n] + 1 < Len(log)
  /\ meta' = [meta EXCEPT ![n] = Apply(meta[n], log[applied[n] + 1])]
  /\ applied' = [applied EXCEPT ![n] = @ + 1]
  /\ UNCHANGED <<log, history, halted, inflight, restarts>>

\* MemStateMachine::apply hands the next committed command to Metadata.  An
\* Err becomes a storage error, which stops the Raft core of the node.
ApplyNext(n) ==
  /\ n \notin halted
  /\ applied[n] < Len(log)
  /\ LET cmd == log[applied[n] + 1]
     IN  IF ApplyFails(meta[n], cmd)
         THEN /\ halted' = halted \cup {n}
              /\ UNCHANGED <<applied, meta>>
         ELSE /\ meta' = [meta EXCEPT ![n] = Apply(meta[n], cmd)]
              /\ applied' = [applied EXCEPT ![n] = @ + 1]
              /\ UNCHANGED halted
  /\ UNCHANGED <<log, history, inflight, restarts>>

\* Faulty: the state machine is lost but not rebuilt.
BadRestart(n) ==
  /\ restarts < MaxRestarts
  /\ restarts' = restarts + 1
  /\ meta' = [meta EXCEPT ![n] = EmptyCluster]
  /\ UNCHANGED <<log, history, applied, halted, inflight>>

\* The node process restarts: the state machine is in memory only and is
\* rebuilt from the log.
Restart(n) ==
  /\ restarts < MaxRestarts
  /\ restarts' = restarts + 1
  /\ meta' = [meta EXCEPT ![n] = EmptyCluster]
  /\ applied' = [applied EXCEPT ![n] = 0]
  /\ halted' = halted \ {n}
  /\ UNCHANGED <<log, history, inflight>>

-----------------------------------------------------------------------------
\* The commands some node may come to propose.
Proposals ==
  CreateTopicCmd \cup UpsertNodeCmd \cup
  [op : {"RolloverTopic"}, name : Topic, new_leader : Node,
   sealed_segment_entry_count : 0..MaxCount]

ReplicaNext ==
  \/ \E n \in Node, i \in Slot, cmd \in Proposals : Propose(n, i, cmd)
  \/ \E i \in Slot : Commit(i)
  \/ \E i \in Slot : Lose(i)
  \/ \E n \in Node : ApplyNext(n)
  \/ \E n \in Node : Restart(n)

\* Raft keeps delivering committed commands to a node that runs.
ReplicaFairness == \A n \in Node : WF_replicaVars(ApplyNext(n))

ReplicaSpec == ReplicaInit /\ [][ReplicaNext]_replicaVars /\ ReplicaFairness

-----------------------------------------------------------------------------
\* A topic's segments are numbered without a gap: exactly the segments before
\* the current one are sealed, every segment up to the current one has a
\* leader on record, and the leader of the current one is leader_node.  This
\* is what lets a read cursor walk segment + 1, and what makes the fallbacks
\* of sealed_count and segment_leader unreachable for a known topic.
WellFormed(cs) ==
  \A t \in DOMAIN cs.topics :
    LET ts == cs.topics[t]
    IN  /\ ts.current_segment >= 1
        /\ DOMAIN ts.sealed_segments = 1..(ts.current_segment - 1)
        /\ DOMAIN ts.segment_leaders = 1..ts.current_segment
        /\ ts.leader_node = ts.segment_leaders[ts.current_segment]

SegmentsContiguous == \A n \in Node : WellFormed(meta[n])

\* cs2 knows everything cs1 knows about topics, sealed segments and segment
\* leaders, and nothing of it differently.
Extends(cs1, cs2) ==
  \A t \in DOMAIN cs1.topics :
    /\ t \in DOMAIN cs2.topics
    /\ cs1.topics[t].current_segment <= cs2.topics[t].current_segment
    /\ \A s \in DOMAIN cs1.topics[t].sealed_segments :
         /\ s \in DOMAIN cs2.topics[t].sealed_segments
         /\ cs2.topics[t].sealed_segments[s] = cs1.topics[t].sealed_segments[s]
    /\ \A s \in DOMAIN cs1.topics[t].segment_leaders :
         /\ s \in DOMAIN cs2.topics[t].segment_leaders
         /\ cs2.topics[t].segment_leaders[s] = cs1.topics[t].segment_leaders[s]

\* Replicas lag behind each other but never contradict each other: of any two,
\* the one that applied less knows a part of what the other knows.  A sealed
\* count and a segment leader read on one node can be trusted on every other,
\* through restarts included.
ReplicasAgree ==
  \A m, n \in Node : applied[m] <= applied[n] => Extends(meta[m], meta[n])

\* Metadata::apply never returns Err for a committed command, so no Raft core
\* is stopped by "Topic not found": by the time a rollover of a topic commits,
\* the topic's creation is in the log before it.
NoReplicaHalts == halted = {}

\* A segment that was sealed stays sealed, with its count, and no segment is
\* given to another leader, whatever commits; only a restart forgets.
SealedForGood ==
  [][\A n \in Node : applied'[n] >= applied[n] => Extends(meta[n], meta'[n])]_replicaVars

\* Again and again every replica has caught up with the committed log, whatever
\* restarts, lost proposals and commands that change nothing came in between.
EventuallyCaughtUp == []<>(\A n \in Node : applied[n] = Len(log))
=============================================================================
