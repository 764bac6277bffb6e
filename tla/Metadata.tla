------------------------------ MODULE Metadata ------------------------------
(***************************************************************************)
(* The cluster metadata state machine of distributed-walrus                *)
(* (distributed-walrus/src/metadata.rs): the values it ranges over, the    *)
(* transition function every replica applies to the committed Raft log,    *)
(* and the queries the rest of a node makes of its replica.                *)
(*                                                                         *)
(* A node address is abstracted to whether the node has one on record.     *)
(***************************************************************************)
EXTENDS Integers

CONSTANTS Node,   \* the ids of the nodes
          Topic   \* the topic names

-----------------------------------------------------------------------------
\* A TopicState and a ClusterState, each map with whatever keys it has.
IsTopicState(ts) ==
  /\ ts.current_segment \in Nat \ {0}
  /\ ts.leader_node \in Node
  /\ ts.last_sealed_entry_offset \in Nat
  /\ ts.sealed_segments \in [DOMAIN ts.sealed_segments -> Nat]
  /\ ts.segment_leaders \in [DOMAIN ts.segment_leaders -> Node]

IsClusterState(cs) ==
  /\ DOMAIN cs.topics \subseteq Topic
  /\ \A t \in DOMAIN cs.topics : IsTopicState(cs.topics[t])
  /\ cs.nodes \subseteq Node

\* ClusterState::default(), what Metadata::new starts from.
EmptyCluster == [topics |-> [t \in {} |-> {}], nodes |-> {}]

CreateTopicCmd == [op : {"CreateTopic"}, name : Topic, initial_leader : Node]

RolloverTopicCmd ==
  [op : {"RolloverTopic"}, name : Topic, new_leader : Node,
   sealed_segment_entry_count : Nat]

UpsertNodeCmd == [op : {"UpsertNode"}, node_id : Node]

MetadataCmd == CreateTopicCmd \cup RolloverTopicCmd \cup UpsertNodeCmd

-----------------------------------------------------------------------------
\* The entry a CreateTopic inserts for a name that is not there yet.
NewTopic(leader) ==
  [current_segment          |-> 1,
   leader_node              |-> leader,
   last_sealed_entry_offset |-> 0,
   sealed_segments          |-> [s \in 1..0 |-> 0],
   segment_leaders          |-> [s \in 1..1 |-> leader]]

\* Faulty variants of the definition that follows, which the properties catch:
\* the open segment has no leader on record; the sealed segment is handed to
\* the new leader.
BadRolledNoLeader(ts, newLeader, count) ==
  [current_segment          |-> ts.current_segment + 1,
   leader_node              |-> newLeader,
   last_sealed_entry_offset |-> ts.last_sealed_entry_offset + count,
   sealed_segments          |-> [s \in 1..ts.current_segment |->
      IF s = ts.current_segment THEN count ELSE ts.sealed_segments[s]],
   segment_leaders          |-> ts.segment_leaders]

BadRolledLeaderFirst(ts, newLeader, count) ==
  [BadRolledNoLeader(ts, newLeader, count) EXCEPT !.segment_leaders =
     [s \in 1..(ts.current_segment + 1) |->
        IF s >= ts.current_segment THEN newLeader ELSE ts.segment_leaders[s]]]

\* Seal the segment that is current when the command is applied, with the
\* count the command carries, and open the next one.  The command does not
\* say which segment its proposer meant.
Rolled(ts, newLeader, count) ==
  LET sealed == ts.current_segment
  IN  [current_segment          |-> sealed + 1,
       leader_node              |-> newLeader,
       last_sealed_entry_offset |-> ts.last_sealed_entry_offset + count,
       sealed_segments          |->
         [s \in (DOMAIN ts.sealed_segments) \cup {sealed} |->
            IF s = sealed THEN count ELSE ts.sealed_segments[s]],
       segment_leaders          |->
         [s \in (DOMAIN ts.segment_leaders) \cup {sealed, sealed + 1} |->
            IF s = sealed + 1 THEN newLeader
            ELSE IF s = sealed THEN ts.leader_node
            ELSE ts.segment_leaders[s]]]

\* The topic map with one entry inserted or replaced.
WithTopic(cs, t, ts) ==
  [topics |-> [u \in (DOMAIN cs.topics) \cup {t} |->
                 IF u = t THEN ts ELSE cs.topics[u]],
   nodes  |-> cs.nodes]

\* The commands Metadata::apply answers with Err.
ApplyFails(cs, cmd) ==
  /\ cmd.op = "RolloverTopic"
  /\ cmd.name \notin DOMAIN cs.topics

\* Faulty: a topic that exists is created anew.
BadApplyCreateTopic(cs, cmd) ==
  WithTopic(cs, cmd.name, NewTopic(cmd.initial_leader))

ApplyCreateTopic(cs, cmd) ==
  IF cmd.name \in DOMAIN cs.topics
  THEN cs
  ELSE WithTopic(cs, cmd.name, NewTopic(cmd.initial_leader))

ApplyRolloverTopic(cs, cmd) ==
  IF ApplyFails(cs, cmd)
  THEN cs
  ELSE WithTopic(cs, cmd.name,
                 Rolled(cs.topics[cmd.name], cmd.new_leader,
                        cmd.sealed_segment_entry_count))

ApplyUpsertNode(cs, cmd) ==
  [topics |-> cs.topics, nodes |-> cs.nodes \cup {cmd.node_id}]

\* Metadata::apply.
Apply(cs, cmd) ==
  CASE cmd.op = "CreateTopic"   -> ApplyCreateTopic(cs, cmd)
    [] cmd.op = "RolloverTopic" -> ApplyRolloverTopic(cs, cmd)
    [] cmd.op = "UpsertNode"    -> ApplyUpsertNode(cs, cmd)

-----------------------------------------------------------------------------
\* The wal keys of the segments a node leads; a wal key is <<topic, segment>>.
owned_topics(cs, n) ==
  {<<t, cs.topics[t].current_segment>> :
     t \in {u \in DOMAIN cs.topics : cs.topics[u].leader_node = n}}

\* sealed_count(..).unwrap_or(0), the form every caller uses.
sealed_count(cs, t, s) ==
  IF t \in DOMAIN cs.topics /\ s \in DOMAIN cs.topics[t].sealed_segments
  THEN cs.topics[t].sealed_segments[s]
  ELSE 0

\* segment_leader, for a topic that is known.
segment_leader(cs, t, s) ==
  IF s \in DOMAIN cs.topics[t].segment_leaders
  THEN cs.topics[t].segment_leaders[s]
  ELSE cs.topics[t].leader_node
=============================================================================
