--------------------------- MODULE MetadataProofs ---------------------------
(***************************************************************************)
(* Proofs about the replicated metadata, for any number of nodes, topics   *)
(* and proposals in flight, and any bounds; and, on top of them, the       *)
(* inductive invariant of the data plane, what preserves its conjuncts,    *)
(* and the steps that change the metadata only.                            *)
(***************************************************************************)
EXTENDS DataPlaneStates, TLAPS

-----------------------------------------------------------------------------
(* Lemmas about Metadata::apply.                                           *)

\* The rolled topic is a TopicState whose segments are contiguous, and it
\* keeps every sealed count and segment leader.
LEMMA RolledKeeps ==
  ASSUME NEW ts, NEW leader \in Node, NEW count \in Nat,
         IsTopicState(ts),
         DOMAIN ts.sealed_segments = 1..(ts.current_segment - 1),
         DOMAIN ts.segment_leaders = 1..ts.current_segment,
         ts.leader_node = ts.segment_leaders[ts.current_segment]
  PROVE  LET r == Rolled(ts, leader, count)
         IN  /\ IsTopicState(r)
             /\ r.current_segment = ts.current_segment + 1
             /\ DOMAIN r.sealed_segments = 1..ts.current_segment
             /\ DOMAIN r.segment_leaders = 1..(ts.current_segment + 1)
             /\ r.leader_node = r.segment_leaders[ts.current_segment + 1]
             /\ \A s \in DOMAIN ts.sealed_segments :
                  r.sealed_segments[s] = ts.sealed_segments[s]
             /\ \A s \in DOMAIN ts.segment_leaders :
                  r.segment_leaders[s] = ts.segment_leaders[s]
<1> DEFINE c == ts.current_segment
           r == Rolled(ts, leader, count)
<1>1. c \in Nat /\ c >= 1
  BY DEF IsTopicState
<1>2. /\ r.current_segment = c + 1
      /\ r.leader_node = leader
      /\ r.last_sealed_entry_offset = ts.last_sealed_entry_offset + count
      /\ r.sealed_segments = [s \in (DOMAIN ts.sealed_segments) \cup {c} |->
                                IF s = c THEN count ELSE ts.sealed_segments[s]]
      /\ r.segment_leaders = [s \in (DOMAIN ts.segment_leaders) \cup {c, c + 1} |->
                                IF s = c + 1 THEN leader
                                ELSE IF s = c THEN ts.leader_node
                                ELSE ts.segment_leaders[s]]
  BY Zenon DEF Rolled
<1>3. /\ (1..(c - 1)) \cup {c} = 1..c
      /\ (1..c) \cup {c, c + 1} = 1..(c + 1)
  BY <1>1
<1>4. /\ DOMAIN r.sealed_segments = 1..c
      /\ DOMAIN r.segment_leaders = 1..(c + 1)
  BY <1>2, <1>3, Zenon
<1>5. \A s \in 1..(c - 1) : s # c
  BY <1>1
<1>6. \A s \in DOMAIN ts.sealed_segments :
         r.sealed_segments[s] = ts.sealed_segments[s]
  BY <1>2, <1>5, Zenon
<1>7. \A s \in DOMAIN ts.segment_leaders :
         r.segment_leaders[s] = ts.segment_leaders[s]
  BY <1>1, <1>2
<1>8. r.sealed_segments \in [1..c -> Nat]
  BY <1>2, <1>3 DEF IsTopicState
<1>9. r.segment_leaders \in [1..(c + 1) -> Node]
  BY <1>2, <1>3 DEF IsTopicState
<1>10. r.leader_node = r.segment_leaders[c + 1]
  BY <1>1, <1>2, Zenon
<1>11. IsTopicState(r)
  <2>1. r.current_segment \in Nat \ {0}
    BY <1>1, <1>2
  <2>2. r.last_sealed_entry_offset \in Nat
    BY <1>2 DEF IsTopicState
  <2> QED
    BY <2>1, <2>2, <1>2, <1>4, <1>8, <1>9, Zenon DEF IsTopicState
<1> QED
  BY <1>2, <1>4, <1>6, <1>7, <1>10, <1>11, Zenon

\* A new topic is a TopicState with one segment, which its leader leads.
LEMMA NewTopicOK ==
  ASSUME NEW leader \in Node
  PROVE  LET r == NewTopic(leader)
         IN  /\ IsTopicState(r)
             /\ r.current_segment = 1
             /\ DOMAIN r.sealed_segments = 1..(1 - 1)
             /\ DOMAIN r.segment_leaders = 1..1
             /\ r.leader_node = r.segment_leaders[1]
<1>1. 1..0 = {} /\ 1 \in 1..1
  OBVIOUS
<1> QED
  BY <1>1 DEF NewTopic, IsTopicState

LEMMA ExtendsReflexive ==
  ASSUME NEW cs, IsClusterState(cs)
  PROVE  Extends(cs, cs)
BY DEF Extends, IsClusterState, IsTopicState

LEMMA ExtendsTransitive ==
  ASSUME NEW a, NEW b, NEW c,
         IsClusterState(a), IsClusterState(b), IsClusterState(c),
         Extends(a, b), Extends(b, c)
  PROVE  Extends(a, c)
<1> SUFFICES ASSUME NEW t \in DOMAIN a.topics
             PROVE  /\ t \in DOMAIN c.topics
                    /\ a.topics[t].current_segment <= c.topics[t].current_segment
                    /\ \A s \in DOMAIN a.topics[t].sealed_segments :
                         /\ s \in DOMAIN c.topics[t].sealed_segments
                         /\ c.topics[t].sealed_segments[s] = a.topics[t].sealed_segments[s]
                    /\ \A s \in DOMAIN a.topics[t].segment_leaders :
                         /\ s \in DOMAIN c.topics[t].segment_leaders
                         /\ c.topics[t].segment_leaders[s] = a.topics[t].segment_leaders[s]
  BY Zenon DEF Extends
<1>1. t \in DOMAIN b.topics /\ t \in DOMAIN c.topics
  BY Zenon DEF Extends
<1>2. /\ a.topics[t].current_segment \in Nat
      /\ b.topics[t].current_segment \in Nat
      /\ c.topics[t].current_segment \in Nat
  BY <1>1, Zenon DEF IsClusterState, IsTopicState
<1>3. a.topics[t].current_segment <= c.topics[t].current_segment
  BY <1>1, <1>2 DEF Extends
<1> QED
  BY <1>1, <1>3 DEF Extends

\* Replacing or adding one topic keeps everything when the topic was not
\* there or the new entry keeps what the old one knew.
LEMMA WithTopicOK ==
  ASSUME NEW cs, NEW t \in Topic, NEW ts,
         IsClusterState(cs), WellFormed(cs), IsTopicState(ts),
         DOMAIN ts.sealed_segments = 1..(ts.current_segment - 1),
         DOMAIN ts.segment_leaders = 1..ts.current_segment,
         ts.leader_node = ts.segment_leaders[ts.current_segment],
         t \in DOMAIN cs.topics =>
           /\ cs.topics[t].current_segment <= ts.current_segment
           /\ \A s \in DOMAIN cs.topics[t].sealed_segments :
                /\ s \in DOMAIN ts.sealed_segments
                /\ ts.sealed_segments[s] = cs.topics[t].sealed_segments[s]
           /\ \A s \in DOMAIN cs.topics[t].segment_leaders :
                /\ s \in DOMAIN ts.segment_leaders
                /\ ts.segment_leaders[s] = cs.topics[t].segment_leaders[s]
  PROVE  LET r == WithTopic(cs, t, ts)
         IN  IsClusterState(r) /\ WellFormed(r) /\ Extends(cs, r)
<1> DEFINE r == WithTopic(cs, t, ts)
<1>1. /\ DOMAIN r.topics = (DOMAIN cs.topics) \cup {t}
      /\ r.nodes = cs.nodes
      /\ r.topics[t] = ts
      /\ \A u \in DOMAIN cs.topics : u # t => r.topics[u] = cs.topics[u]
  BY Zenon DEF WithTopic
<1> HIDE DEF r
<1>2. IsClusterState(r)
  <2>1. DOMAIN r.topics \subseteq Topic /\ r.nodes \subseteq Node
    BY <1>1, Zenon DEF IsClusterState
  <2>2. \A u \in DOMAIN r.topics : IsTopicState(r.topics[u])
    BY <1>1, Zenon DEF IsClusterState
  <2> QED
    BY <2>1, <2>2, Zenon DEF IsClusterState
<1>3. WellFormed(r)
  <2> SUFFICES ASSUME NEW u \in DOMAIN r.topics
               PROVE  LET x == r.topics[u]
                      IN  /\ x.current_segment >= 1
                          /\ DOMAIN x.sealed_segments = 1..(x.current_segment - 1)
                          /\ DOMAIN x.segment_leaders = 1..x.current_segment
                          /\ x.leader_node = x.segment_leaders[x.current_segment]
    BY Zenon DEF WellFormed
  <2>1. CASE u = t
    <3>1. ts.current_segment >= 1
      BY DEF IsTopicState
    <3> QED
      BY <2>1, <3>1, <1>1, Zenon
  <2>2. CASE u # t
    BY <2>2, <1>1, Zenon DEF WellFormed
  <2> QED
    BY <2>1, <2>2, Zenon
<1>4. Extends(cs, r)
  <2> SUFFICES ASSUME NEW u \in DOMAIN cs.topics
               PROVE  /\ u \in DOMAIN r.topics
                      /\ cs.topics[u].current_segment <= r.topics[u].current_segment
                      /\ \A s \in DOMAIN cs.topics[u].sealed_segments :
                           /\ s \in DOMAIN r.topics[u].sealed_segments
                           /\ r.topics[u].sealed_segments[s] = cs.topics[u].sealed_segments[s]
                      /\ \A s \in DOMAIN cs.topics[u].segment_leaders :
                           /\ s \in DOMAIN r.topics[u].segment_leaders
                           /\ r.topics[u].segment_leaders[s] = cs.topics[u].segment_leaders[s]
    BY Zenon DEF Extends
  <2>1. CASE u = t
    BY <2>1, <1>1, Zenon
  <2>2. CASE u # t
    <3>1. r.topics[u] = cs.topics[u] /\ u \in DOMAIN r.topics
      BY <2>2, <1>1, Zenon
    <3>2. cs.topics[u].current_segment \in Nat
      BY Zenon DEF IsClusterState, IsTopicState
    <3> QED
      BY <3>1, <3>2
  <2> QED
    BY <2>1, <2>2, Zenon
<1> QED
  BY <1>2, <1>3, <1>4, Zenon DEF r

\* Applying a command keeps a cluster state one, keeps segments contiguous
\* and forgets nothing.
LEMMA ApplyKeeps ==
  ASSUME NEW cs, NEW cmd \in MetadataCmd,
         IsClusterState(cs), WellFormed(cs)
  PROVE  /\ IsClusterState(Apply(cs, cmd))
         /\ WellFormed(Apply(cs, cmd))
         /\ Extends(cs, Apply(cs, cmd))
<1>1. CASE cmd \in CreateTopicCmd
  <2>1. Apply(cs, cmd) = ApplyCreateTopic(cs, cmd)
    BY <1>1, Zenon DEF Apply, CreateTopicCmd
  <2>2. CASE cmd.name \in DOMAIN cs.topics
    BY <2>1, <2>2, ExtendsReflexive, Zenon DEF ApplyCreateTopic
  <2>3. CASE cmd.name \notin DOMAIN cs.topics
    <3>1. cmd.name \in Topic /\ cmd.initial_leader \in Node
      BY <1>1, Zenon DEF CreateTopicCmd
    <3>2. Apply(cs, cmd) = WithTopic(cs, cmd.name, NewTopic(cmd.initial_leader))
      BY <2>1, <2>3, Zenon DEF ApplyCreateTopic
    <3> DEFINE r == NewTopic(cmd.initial_leader)
    <3>3. /\ IsTopicState(r)
          /\ DOMAIN r.sealed_segments = 1..(r.current_segment - 1)
          /\ DOMAIN r.segment_leaders = 1..r.current_segment
          /\ r.leader_node = r.segment_leaders[r.current_segment]
      BY <3>1, NewTopicOK, Zenon
    <3> HIDE DEF r
    <3>4. /\ IsClusterState(WithTopic(cs, cmd.name, r))
          /\ WellFormed(WithTopic(cs, cmd.name, r))
          /\ Extends(cs, WithTopic(cs, cmd.name, r))
      BY <2>3, <3>1, <3>3, WithTopicOK, Zenon
    <3> QED
      BY <3>2, <3>4, Zenon DEF r
  <2> QED
    BY <2>2, <2>3, Zenon
<1>2. CASE cmd \in RolloverTopicCmd
  <2>1. Apply(cs, cmd) = ApplyRolloverTopic(cs, cmd)
    BY <1>2, Zenon DEF Apply, RolloverTopicCmd
  <2>2. CASE ApplyFails(cs, cmd)
    BY <2>1, <2>2, ExtendsReflexive, Zenon DEF ApplyRolloverTopic
  <2>3. CASE ~ApplyFails(cs, cmd)
    <3> DEFINE ts == cs.topics[cmd.name]
               r  == Rolled(ts, cmd.new_leader, cmd.sealed_segment_entry_count)
    <3>1. /\ cmd.name \in Topic
          /\ cmd.new_leader \in Node
          /\ cmd.sealed_segment_entry_count \in Nat
          /\ cmd.name \in DOMAIN cs.topics
      BY <1>2, <2>3, Zenon DEF RolloverTopicCmd, ApplyFails
    <3>2. Apply(cs, cmd) = WithTopic(cs, cmd.name, r)
      BY <2>1, <2>3, Zenon DEF ApplyRolloverTopic
    <3>3. /\ IsTopicState(ts)
          /\ DOMAIN ts.sealed_segments = 1..(ts.current_segment - 1)
          /\ DOMAIN ts.segment_leaders = 1..ts.current_segment
          /\ ts.leader_node = ts.segment_leaders[ts.current_segment]
      BY <3>1, Zenon DEF IsClusterState, WellFormed
    <3> HIDE DEF ts
    <3>4. /\ IsTopicState(r)
          /\ r.current_segment = ts.current_segment + 1
          /\ DOMAIN r.sealed_segments = 1..ts.current_segment
          /\ DOMAIN r.segment_leaders = 1..(ts.current_segment + 1)
          /\ r.leader_node = r.segment_leaders[ts.current_segment + 1]
          /\ \A s \in DOMAIN ts.sealed_segments :
               r.sealed_segments[s] = ts.sealed_segments[s]
          /\ \A s \in DOMAIN ts.segment_leaders :
               r.segment_leaders[s] = ts.segment_leaders[s]
      BY <3>1, <3>3, RolledKeeps, Zenon
    <3> HIDE DEF r
    <3>5. ts.current_segment \in Nat
      BY <3>3, Zenon DEF IsTopicState
    <3>6. /\ ts.current_segment <= r.current_segment
          /\ DOMAIN r.sealed_segments = 1..(r.current_segment - 1)
          /\ DOMAIN r.segment_leaders = 1..r.current_segment
          /\ r.leader_node = r.segment_leaders[r.current_segment]
      BY <3>4, <3>5
    <3>7. /\ \A s \in DOMAIN ts.sealed_segments : s \in DOMAIN r.sealed_segments
          /\ \A s \in DOMAIN ts.segment_leaders : s \in DOMAIN r.segment_leaders
      BY <3>3, <3>4, <3>5
    <3>8. /\ IsClusterState(WithTopic(cs, cmd.name, r))
          /\ WellFormed(WithTopic(cs, cmd.name, r))
          /\ Extends(cs, WithTopic(cs, cmd.name, r))
      BY <3>1, <3>4, <3>6, <3>7, WithTopicOK, Zenon DEF ts
    <3> QED
      BY <3>2, <3>8, Zenon
  <2> QED
    BY <2>2, <2>3, Zenon
<1>3. CASE cmd \in UpsertNodeCmd
  <2>1. Apply(cs, cmd) = ApplyUpsertNode(cs, cmd)
    BY <1>3, Zenon DEF Apply, UpsertNodeCmd
  <2>2. cmd.node_id \in Node
    BY <1>3, Zenon DEF UpsertNodeCmd
  <2>3. /\ Apply(cs, cmd).topics = cs.topics
        /\ Apply(cs, cmd).nodes = cs.nodes \cup {cmd.node_id}
    BY <2>1 DEF ApplyUpsertNode
  <2>4. /\ IsClusterState(Apply(cs, cmd))
        /\ WellFormed(Apply(cs, cmd))
    BY <2>2, <2>3, Zenon DEF IsClusterState, WellFormed
  <2>5. Extends(cs, Apply(cs, cmd))
    BY <2>3, ExtendsReflexive, Zenon DEF Extends
  <2> QED
    BY <2>4, <2>5, Zenon
<1> QED
  BY <1>1, <1>2, <1>3, Zenon DEF MetadataCmd

-----------------------------------------------------------------------------
(* The inductive invariant.                                                *)

Entries(seq) == {seq[i] : i \in 1..Len(seq)}

\* A replica is the committed history cut at the point it has applied; the
\* history is what applying the log produces, never fails, and each state in
\* it extends the ones before; and a rollover in flight names a topic whose
\* creation has committed.
ReplicaInv ==
  /\ ReplicaTypeOK
  /\ history \in Seq(Entries(history))
  /\ history[1] = EmptyCluster
  /\ \A i \in 1..Len(history) : WellFormed(history[i])
  /\ \A i, j \in 1..Len(history) : i <= j => Extends(history[i], history[j])
  /\ \A i \in 1..Len(log) : /\ history[i + 1] = Apply(history[i], log[i])
                            /\ ~ApplyFails(history[i], log[i])
  /\ meta = [n \in Node |-> history[applied[n] + 1]]
  /\ \A i \in Slot : inflight[i].op = "RolloverTopic"
                       => inflight[i].name \in DOMAIN Committed.topics
  /\ halted = {}

LEMMA AppendFacts ==
  ASSUME NEW s, s \in Seq(Entries(s)), NEW x
  PROVE  /\ Append(s, x) \in Seq(Entries(Append(s, x)))
         /\ Len(s) \in Nat
         /\ Len(Append(s, x)) = Len(s) + 1
         /\ \A i \in 1..Len(s) : Append(s, x)[i] = s[i]
         /\ Append(s, x)[Len(s) + 1] = x
<1> DEFINE S == Entries(s) \cup {x}
           a == Append(s, x)
<1>1. s \in Seq(S)
  BY DEF Entries
<1>2. x \in S
  BY Zenon
<1> HIDE DEF S
<1>3. /\ a \in Seq(S)
      /\ Len(s) \in Nat
      /\ Len(a) = Len(s) + 1
      /\ \A i \in 1..Len(s) : a[i] = s[i]
      /\ a[Len(s) + 1] = x
  BY <1>1, <1>2
<1> HIDE DEF a
<1>4. a \in Seq(Entries(a))
  BY <1>3 DEF Entries
<1> QED
  BY <1>3, <1>4, Zenon DEF a

LEMMA EmptyClusterOK == IsClusterState(EmptyCluster) /\ WellFormed(EmptyCluster)
BY Zenon DEF IsClusterState, WellFormed, EmptyCluster

LEMMA CmdOps ==
  /\ NoCmd \notin MetadataCmd
  /\ NoCmd.op # "RolloverTopic"
  /\ Proposals \subseteq MetadataCmd
<1>1. \A c \in MetadataCmd : c.op # "None"
  BY Zenon DEF MetadataCmd, CreateTopicCmd, RolloverTopicCmd, UpsertNodeCmd
<1>2. 0..MaxCount \subseteq Nat
  BY BoundsAssumption
<1>3. Proposals \subseteq MetadataCmd
  BY <1>2, Zenon DEF Proposals, MetadataCmd, RolloverTopicCmd
<1> QED
  BY <1>1, <1>3, Zenon DEF NoCmd

LEMMA ReplicaInvInit == ReplicaInit => ReplicaInv
<1> SUFFICES ASSUME ReplicaInit PROVE ReplicaInv
  BY Zenon
<1> USE DEF ReplicaInit
<1>1. /\ history \in Seq({EmptyCluster})
      /\ Len(history) = 1
      /\ history[1] = EmptyCluster
      /\ Len(log) = 0
      /\ 1..Len(history) = {1}
      /\ 1..Len(log) = {}
      /\ log \in Seq(MetadataCmd)
  OBVIOUS
<1>2. history \in Seq(Entries(history))
  BY <1>1, Zenon DEF Entries
<1>3. ReplicaTypeOK
  BY <1>1, EmptyClusterOK, BoundsAssumption DEF ReplicaTypeOK
<1>4. \A i, j \in 1..Len(history) : i <= j => Extends(history[i], history[j])
  BY <1>1, EmptyClusterOK, ExtendsReflexive, Zenon
<1>5. \A i \in Slot : inflight[i].op # "RolloverTopic"
  BY CmdOps, Zenon
<1>6. meta = [n \in Node |-> history[applied[n] + 1]]
  BY <1>1
<1> QED
  BY <1>1, <1>2, <1>3, <1>4, <1>5, <1>6, EmptyClusterOK, Zenon DEF ReplicaInv

\* What the cut of the history at a replica's position looks like.
LEMMA ReplicaCut ==
  ASSUME ReplicaInv, NEW n \in Node
  PROVE  /\ meta[n] = history[applied[n] + 1]
         /\ applied[n] \in Nat
         /\ applied[n] <= Len(log)
         /\ Len(log) \in Nat
         /\ applied[n] + 1 \in 1..Len(history)
         /\ Len(history) \in 1..Len(history)
         /\ Len(history) = Len(log) + 1
<1>1. Len(log) \in Nat
  BY DEF ReplicaInv, ReplicaTypeOK
<1>2. applied[n] \in 0..Len(log) /\ Len(history) = Len(log) + 1
  BY Zenon DEF ReplicaInv, ReplicaTypeOK
<1>3. meta[n] = history[applied[n] + 1]
  BY Zenon DEF ReplicaInv
<1> QED
  BY <1>1, <1>2, <1>3

LEMMA ProposeStep ==
  ASSUME ReplicaInv, NEW n \in Node, NEW i \in Slot, NEW cmd \in MetadataCmd,
         Propose(n, i, cmd)
  PROVE  ReplicaInv'
<1> USE DEF Propose
<1>1. inflight' \in [Slot -> MetadataCmd \cup {NoCmd}]
  BY Zenon DEF ReplicaInv, ReplicaTypeOK
<1>2. ReplicaTypeOK'
  BY <1>1, Zenon DEF ReplicaInv, ReplicaTypeOK
<1>3. cmd.op = "RolloverTopic" => cmd.name \in DOMAIN Committed.topics
  <2> SUFFICES ASSUME cmd.op = "RolloverTopic"
               PROVE  cmd.name \in DOMAIN Committed.topics
    BY Zenon
  <2>1. cmd.name \in DOMAIN meta[n].topics
    BY Zenon DEF MayPropose
  <2>2. Extends(history[applied[n] + 1], history[Len(history)])
    BY ReplicaCut DEF ReplicaInv
  <2> QED
    BY <2>1, <2>2, ReplicaCut, Zenon DEF Extends, Committed
<1>4. \A j \in Slot : inflight'[j].op = "RolloverTopic"
                        => inflight'[j].name \in DOMAIN Committed.topics
  BY <1>3, Zenon DEF ReplicaInv, ReplicaTypeOK
<1> QED
  BY <1>2, <1>4, Zenon DEF ReplicaInv, Committed

LEMMA LoseStep ==
  ASSUME ReplicaInv, NEW i \in Slot, Lose(i)
  PROVE  ReplicaInv'
<1> USE DEF Lose
<1>1. inflight' \in [Slot -> MetadataCmd \cup {NoCmd}]
  BY Zenon DEF ReplicaInv, ReplicaTypeOK
<1>2. ReplicaTypeOK'
  BY <1>1, Zenon DEF ReplicaInv, ReplicaTypeOK
<1>3. \A j \in Slot : inflight'[j].op = "RolloverTopic"
                        => inflight'[j].name \in DOMAIN Committed.topics
  BY CmdOps, Zenon DEF ReplicaInv, ReplicaTypeOK
<1> QED
  BY <1>2, <1>3, Zenon DEF ReplicaInv, Committed

LEMMA CommitStep ==
  ASSUME ReplicaInv, NEW i \in Slot, Commit(i)
  PROVE  ReplicaInv'
<1> DEFINE cmd == inflight[i]
           new == Apply(Committed, cmd)
           last == Len(history)
<1>1. /\ cmd \in MetadataCmd
      /\ Len(log) < MaxLog
      /\ log' = Append(log, cmd)
      /\ history' = Append(history, new)
      /\ inflight' = [inflight EXCEPT ![i] = NoCmd]
      /\ UNCHANGED <<applied, meta, halted, restarts>>
  BY Zenon DEF Commit, ReplicaInv, ReplicaTypeOK
<1>2. /\ log \in Seq(MetadataCmd)
      /\ Len(log) \in Nat
      /\ last = Len(log) + 1
      /\ last \in 1..last
  BY DEF ReplicaInv, ReplicaTypeOK
<1>3. /\ log' \in Seq(MetadataCmd)
      /\ Len(log') = Len(log) + 1
      /\ \A k \in 1..Len(log) : log'[k] = log[k]
      /\ log'[Len(log) + 1] = cmd
  BY <1>1, <1>2
<1>4. /\ history' \in Seq(Entries(history'))
      /\ Len(history') = last + 1
      /\ \A k \in 1..last : history'[k] = history[k]
      /\ history'[last + 1] = new
  BY <1>1, AppendFacts DEF ReplicaInv
<1>5. IsClusterState(Committed) /\ WellFormed(Committed) /\ Committed = history[last]
  BY <1>2, Zenon DEF ReplicaInv, ReplicaTypeOK, Committed
<1>6. IsClusterState(new) /\ WellFormed(new) /\ Extends(Committed, new)
  BY <1>1, <1>5, ApplyKeeps, Zenon
<1>7. ~ApplyFails(Committed, cmd)
  BY Zenon DEF ReplicaInv, ApplyFails
<1> HIDE DEF cmd, new, last
<1>8. \A k \in 1..(last + 1) : k \in 1..last \/ k = last + 1
  BY <1>2
<1>9. \A k \in 1..Len(history') : IsClusterState(history'[k]) /\ WellFormed(history'[k])
  BY <1>4, <1>6, <1>8, Zenon DEF ReplicaInv, ReplicaTypeOK, last
<1>10. \A j, k \in 1..Len(history') : j <= k => Extends(history'[j], history'[k])
  <2> SUFFICES ASSUME NEW j \in 1..(last + 1), NEW k \in 1..(last + 1), j <= k
               PROVE  Extends(history'[j], history'[k])
    BY <1>4, Zenon
  <2>1. CASE k \in 1..last
    <3>1. j \in 1..last
      BY <2>1, <1>2
    <3> QED
      BY <2>1, <3>1, <1>4, Zenon DEF ReplicaInv, last
  <2>2. CASE k = last + 1 /\ j = last + 1
    BY <2>2, <1>4, <1>6, ExtendsReflexive, Zenon
  <2>3. CASE k = last + 1 /\ j \in 1..last
    <3>1. Extends(history[j], history[last]) /\ IsClusterState(history[j])
      BY <2>3, <1>2 DEF ReplicaInv, ReplicaTypeOK, last
    <3>2. Extends(history[j], new)
      BY <3>1, <1>5, <1>6, ExtendsTransitive, Zenon
    <3> QED
      BY <2>3, <3>2, <1>4, Zenon
  <2> QED
    BY <2>1, <2>2, <2>3, <1>8, Zenon
<1>11. ReplicaTypeOK'
  <2>1. applied' \in [Node -> 0..Len(log')]
    BY <1>1, <1>2, <1>3 DEF ReplicaInv, ReplicaTypeOK
  <2>2. inflight' \in [Slot -> MetadataCmd \cup {NoCmd}]
    BY <1>1, Zenon DEF ReplicaInv, ReplicaTypeOK
  <2>3. Len(log') <= MaxLog
    BY <1>1, <1>2, <1>3, BoundsAssumption
  <2>4. Len(history') = Len(log') + 1
    BY <1>2, <1>3, <1>4, Zenon
  <2> QED
    BY <2>1, <2>2, <2>3, <2>4, <1>1, <1>3, <1>9, Zenon DEF ReplicaInv, ReplicaTypeOK
<1>12. \A k \in 1..Len(log') : /\ history'[k + 1] = Apply(history'[k], log'[k])
                               /\ ~ApplyFails(history'[k], log'[k])
  <2> SUFFICES ASSUME NEW k \in 1..(Len(log) + 1)
               PROVE  /\ history'[k + 1] = Apply(history'[k], log'[k])
                      /\ ~ApplyFails(history'[k], log'[k])
    BY <1>3, Zenon
  <2>1. CASE k = last
    <3>1. /\ history'[k] = Committed
          /\ log'[k] = cmd
          /\ history'[k + 1] = Apply(Committed, cmd)
      BY <2>1, <1>2, <1>3, <1>4, <1>5, Zenon DEF new
    <3> QED
      BY <3>1, <1>7, Zenon
  <2>2. CASE k \in 1..Len(log)
    <3>1. k \in 1..last /\ k + 1 \in 1..last
      BY <2>2, <1>2
    <3>2. history'[k] = history[k] /\ history'[k + 1] = history[k + 1] /\ log'[k] = log[k]
      BY <2>2, <3>1, <1>3, <1>4, Zenon
    <3> QED
      BY <2>2, <3>2, Zenon DEF ReplicaInv
  <2> QED
    BY <2>1, <2>2, <1>2
<1>13. meta' = [n \in Node |-> history'[applied'[n] + 1]]
  <2>1. \A n \in Node : history'[applied[n] + 1] = history[applied[n] + 1]
    BY <1>4, ReplicaCut, Zenon DEF last
  <2> QED
    BY <2>1, <1>1, Zenon DEF ReplicaInv
<1>14. \A j \in Slot : inflight'[j].op = "RolloverTopic"
                         => inflight'[j].name \in DOMAIN Committed'.topics
  <2>1. Committed' = new
    BY <1>4, Zenon DEF Committed
  <2>2. \A j \in Slot : inflight'[j].op = "RolloverTopic"
                          => inflight'[j].name \in DOMAIN Committed.topics
    BY <1>1, CmdOps, Zenon DEF ReplicaInv, ReplicaTypeOK
  <2> QED
    BY <2>1, <2>2, <1>6, Zenon DEF Extends
<1>15. history'[1] = EmptyCluster
  BY <1>2, <1>4 DEF ReplicaInv
<1> QED
  BY <1>1, <1>4, <1>9, <1>10, <1>11, <1>12, <1>13, <1>14, <1>15, Zenon DEF ReplicaInv

LEMMA ApplyNextStep ==
  ASSUME ReplicaInv, NEW n \in Node, ApplyNext(n)
  PROVE  /\ ReplicaInv'
         /\ meta' = [meta EXCEPT ![n] = history[applied[n] + 2]]
         /\ applied' = [applied EXCEPT ![n] = applied[n] + 1]
         /\ applied[n] + 2 \in 1..Len(history)
<1> DEFINE k == applied[n] + 1
<1>1. k \in 1..Len(log) /\ k + 1 \in 1..Len(history) /\ k \in Nat /\ Len(log) \in Nat
  BY ReplicaCut DEF ApplyNext
<1>2. /\ meta[n] = history[k]
      /\ history[k + 1] = Apply(history[k], log[k])
      /\ ~ApplyFails(history[k], log[k])
  BY <1>1, ReplicaCut, Zenon DEF ReplicaInv
<1>3. /\ meta' = [meta EXCEPT ![n] = history[k + 1]]
      /\ applied' = [applied EXCEPT ![n] = k]
      /\ UNCHANGED <<log, history, halted, inflight, restarts>>
  BY <1>2, Zenon DEF ApplyNext
<1>4. IsClusterState(history[k + 1])
  BY <1>1, Zenon DEF ReplicaInv, ReplicaTypeOK
<1>5. applied' \in [Node -> 0..Len(log)]
  BY <1>1, <1>3 DEF ReplicaInv, ReplicaTypeOK
<1>6. meta' = [m \in Node |-> history'[applied'[m] + 1]]
  BY <1>1, <1>3, Zenon DEF ReplicaInv, ReplicaTypeOK
<1>7. \A m \in Node : IsClusterState(meta'[m])
  BY <1>3, <1>4, Zenon DEF ReplicaInv, ReplicaTypeOK
<1>8. ReplicaTypeOK'
  BY <1>3, <1>5, <1>7, Zenon DEF ReplicaInv, ReplicaTypeOK
<1>9. ReplicaInv'
  BY <1>3, <1>6, <1>8, Zenon DEF ReplicaInv, Committed
<1>10. k + 1 = applied[n] + 2
  BY ReplicaCut
<1> QED
  BY <1>1, <1>3, <1>9, <1>10, Zenon

LEMMA RestartStep ==
  ASSUME ReplicaInv, NEW n \in Node, Restart(n)
  PROVE  ReplicaInv'
<1> USE DEF Restart
<1>1. applied' \in [Node -> 0..Len(log)]
  BY DEF ReplicaInv, ReplicaTypeOK
<1>2. \A m \in Node : IsClusterState(meta'[m])
  BY EmptyClusterOK, Zenon DEF ReplicaInv, ReplicaTypeOK
<1>3. restarts' \in 0..MaxRestarts
  BY BoundsAssumption DEF ReplicaInv, ReplicaTypeOK
<1>4. halted' = {}
  BY Zenon DEF ReplicaInv
<1>5. ReplicaTypeOK'
  BY <1>1, <1>2, <1>3, <1>4, Zenon DEF ReplicaInv, ReplicaTypeOK
<1>6. \A m \in Node : meta'[m] = history[applied'[m] + 1]
  <2>1. meta'[n] = history[1] /\ applied'[n] + 1 = 1
    BY DEF ReplicaInv, ReplicaTypeOK
  <2>2. \A m \in Node \ {n} : /\ meta'[m] = history[applied[m] + 1]
                             /\ applied'[m] = applied[m]
    BY Zenon DEF ReplicaInv, ReplicaTypeOK
  <2> QED
    BY <2>1, <2>2, Zenon
<1>7. meta' = [m \in Node |-> meta'[m]]
  BY Zenon DEF ReplicaInv
<1>8. meta' = [m \in Node |-> history'[applied'[m] + 1]]
  BY <1>6, <1>7, Zenon
<1> QED
  BY <1>4, <1>5, <1>8, Zenon DEF ReplicaInv, Committed

LEMMA ReplicaInvNext == ReplicaInv /\ [ReplicaNext]_replicaVars => ReplicaInv'
<1> SUFFICES ASSUME ReplicaInv, [ReplicaNext]_replicaVars
             PROVE  ReplicaInv'
  BY Zenon
<1>1. CASE UNCHANGED replicaVars
  BY <1>1, Zenon DEF ReplicaInv, ReplicaTypeOK, Committed, replicaVars
<1>2. CASE ReplicaNext
  BY <1>2, CmdOps, ProposeStep, CommitStep, LoseStep, ApplyNextStep, RestartStep, Zenon
     DEF ReplicaNext
<1> QED
  BY <1>1, <1>2, Zenon

LEMMA ReplicaInvAlways == ReplicaSpec => []ReplicaInv
BY ReplicaInvInit, ReplicaInvNext, PTL DEF ReplicaSpec

-----------------------------------------------------------------------------
(* The theorems.                                                           *)

\* Every reachable state of the replicated metadata (metadata.rs and the log
\* it is applied from) is well typed.
THEOREM MetadataTypeCorrect == ReplicaSpec => []ReplicaTypeOK
<1>1. ReplicaInv => ReplicaTypeOK
  BY Zenon DEF ReplicaInv
<1> QED
  BY <1>1, ReplicaInvAlways, PTL

\* On every node, however far it lags, the segments Metadata::apply has built
\* are numbered without a gap and each has a leader on record.
THEOREM SegmentsAlwaysContiguous == ReplicaSpec => []SegmentsContiguous
<1>1. ReplicaInv => SegmentsContiguous
  BY ReplicaCut, Zenon DEF ReplicaInv, SegmentsContiguous
<1> QED
  BY <1>1, ReplicaInvAlways, PTL

\* Replicas of the metadata never contradict each other: sealed counts and
\* segment leaders known to one are the same on every replica that is ahead.
THEOREM ReplicasAlwaysAgree == ReplicaSpec => []ReplicasAgree
<1>1. ReplicaInv => ReplicasAgree
  <2> SUFFICES ASSUME ReplicaInv, NEW m \in Node, NEW n \in Node,
                      applied[m] <= applied[n]
               PROVE  Extends(meta[m], meta[n])
    BY Zenon DEF ReplicasAgree
  <2>1. applied[m] + 1 <= applied[n] + 1
    BY ReplicaCut
  <2>2. Extends(history[applied[m] + 1], history[applied[n] + 1])
    BY <2>1, ReplicaCut, Zenon DEF ReplicaInv
  <2> QED
    BY <2>2, ReplicaCut, Zenon
<1> QED
  BY <1>1, ReplicaInvAlways, PTL

\* Metadata::apply answers no committed command with Err, so no node's Raft
\* core is stopped by one.
THEOREM NoReplicaEverHalts == ReplicaSpec => []NoReplicaHalts
<1>1. ReplicaInv => NoReplicaHalts
  BY Zenon DEF ReplicaInv, NoReplicaHalts
<1> QED
  BY <1>1, ReplicaInvAlways, PTL

\* No step but a restart makes a replica forget or change a sealed count or
\* the leader of a segment.
THEOREM SealedStaysSealed == ReplicaSpec => SealedForGood
<1> DEFINE Kept == \A n \in Node : applied'[n] >= applied[n] => Extends(meta[n], meta'[n])
<1>1. ASSUME ReplicaInv, [ReplicaNext]_replicaVars
      PROVE  [Kept]_replicaVars
  <2> SUFFICES ASSUME NEW n \in Node, applied'[n] >= applied[n]
               PROVE  Extends(meta[n], meta'[n])
    BY Zenon
  <2>1. IsClusterState(meta[n])
    BY <1>1, Zenon DEF ReplicaInv, ReplicaTypeOK
  <2>2. CASE meta'[n] = meta[n]
    BY <2>1, <2>2, ExtendsReflexive, Zenon
  <2>3. ASSUME NEW m \in Node, ApplyNext(m)
        PROVE  Extends(meta[n], meta'[n])
    <3>1. CASE m = n
      <4>1. meta'[n] = history[applied[n] + 2] /\ applied[n] + 2 \in 1..Len(history)
        BY <1>1, <2>3, <3>1, ApplyNextStep, Zenon DEF ReplicaInv
      <4>2. applied[n] + 1 \in 1..Len(history) /\ applied[n] + 1 <= applied[n] + 2
        BY <1>1, ReplicaCut
      <4> QED
        BY <1>1, <4>1, <4>2, ReplicaCut, Zenon DEF ReplicaInv
    <3>2. CASE m # n
      <4>1. meta'[n] = meta[n]
        BY <1>1, <2>3, <3>2, ApplyNextStep, Zenon DEF ReplicaInv
      <4> QED
        BY <4>1, <2>2, Zenon
    <3> QED
      BY <3>1, <3>2, Zenon
  <2>4. ASSUME NEW m \in Node, Restart(m)
        PROVE  Extends(meta[n], meta'[n])
    <3>1. CASE m = n
      <4>1. applied'[n] = 0 /\ meta'[n] = EmptyCluster
        BY <1>1, <2>4, <3>1, Zenon DEF Restart, ReplicaInv, ReplicaTypeOK
      <4>2. applied[n] = 0
        BY <1>1, <4>1, ReplicaCut
      <4>3. meta[n] = EmptyCluster
        BY <1>1, <4>2, ReplicaCut DEF ReplicaInv
      <4> QED
        BY <4>1, <4>3, <2>2, Zenon
    <3>2. CASE m # n
      <4>1. meta'[n] = meta[n]
        BY <1>1, <2>4, <3>2, Zenon DEF Restart, ReplicaInv
      <4> QED
        BY <4>1, <2>2, Zenon
    <3> QED
      BY <3>1, <3>2, Zenon
  <2>5. CASE UNCHANGED meta
    BY <2>5, <2>2, Zenon
  <2> QED
    BY <1>1, <2>3, <2>4, <2>5, Zenon
       DEF ReplicaNext, Propose, Commit, Lose, replicaVars
<1>2. ReplicaInv /\ [ReplicaNext]_replicaVars => [Kept]_replicaVars
  BY <1>1, Zenon
<1> QED
  BY <1>2, ReplicaInvAlways, PTL DEF ReplicaSpec, SealedForGood

-----------------------------------------------------------------------------
(* The metadata under the data plane.                                      *)

\* The committed metadata names n as the leader of the segment with key k.
Leads(n, k) ==
  /\ k[1] \in DOMAIN Committed.topics
  /\ k[2] \in DOMAIN Committed.topics[k[1]].segment_leaders
  /\ Committed.topics[k[1]].segment_leaders[k[2]] = n

\* Every command opens at most one segment.
SegmentsBounded ==
  \A i \in 1..Len(history) : \A t \in DOMAIN history[i].topics :
    history[i].topics[t].current_segment <= i

MetaInv == ReplicaInv /\ SegmentsBounded

\* A step of the metadata that is not a restart.
MetaMoves ==
  \/ UNCHANGED replicaVars
  \/ \E n \in Node, i \in Slot, cmd \in MetadataCmd : Propose(n, i, cmd)
  \/ \E i \in Slot : Commit(i)
  \/ \E i \in Slot : Lose(i)
  \/ \E n \in Node : ApplyNext(n)

\* What such a step never takes back.
LeadsKept == \A n, k : Leads(n, k) => Leads(n, k)'
MetaKept  == \A n \in Node : Extends(meta[n], meta'[n])

LEMMA ApplyOpensOne ==
  ASSUME NEW cs, NEW cmd \in MetadataCmd, IsClusterState(cs), NEW b \in Nat,
         \A t \in DOMAIN cs.topics : cs.topics[t].current_segment <= b
  PROVE  \A t \in DOMAIN Apply(cs, cmd).topics :
           Apply(cs, cmd).topics[t].current_segment <= b + 1
<1>1. \A t \in DOMAIN cs.topics : /\ cs.topics[t].current_segment \in Nat
                                  /\ cs.topics[t].current_segment <= b + 1
  BY DEF IsClusterState, IsTopicState
<1>2. ASSUME NEW t, NEW ts, ts.current_segment <= b + 1
      PROVE  \A u \in DOMAIN WithTopic(cs, t, ts).topics :
               WithTopic(cs, t, ts).topics[u].current_segment <= b + 1
  BY <1>1, <1>2, Zenon DEF WithTopic
<1>3. CASE cmd \in CreateTopicCmd
  <2>1. Apply(cs, cmd) = ApplyCreateTopic(cs, cmd)
    BY <1>3, Zenon DEF Apply, CreateTopicCmd
  <2>2. NewTopic(cmd.initial_leader).current_segment <= b + 1
    BY DEF NewTopic
  <2> QED
    BY <1>1, <1>2, <2>1, <2>2, Zenon DEF ApplyCreateTopic
<1>4. CASE cmd \in RolloverTopicCmd
  <2>1. Apply(cs, cmd) = ApplyRolloverTopic(cs, cmd)
    BY <1>4, Zenon DEF Apply, RolloverTopicCmd
  <2>2. CASE ApplyFails(cs, cmd)
    BY <2>1, <2>2, <1>1, Zenon DEF ApplyRolloverTopic
  <2>3. CASE ~ApplyFails(cs, cmd)
    <3> DEFINE ts == cs.topics[cmd.name]
               r  == Rolled(ts, cmd.new_leader, cmd.sealed_segment_entry_count)
    <3>1. cmd.name \in DOMAIN cs.topics
      BY <1>4, <2>3, Zenon DEF ApplyFails, RolloverTopicCmd
    <3>2. r.current_segment = ts.current_segment + 1
      BY Zenon DEF Rolled
    <3>3. r.current_segment <= b + 1
      BY <1>1, <3>1, <3>2
    <3> QED
      BY <1>2, <2>1, <2>3, <3>3, Zenon DEF ApplyRolloverTopic
  <2> QED
    BY <2>2, <2>3, Zenon
<1>5. CASE cmd \in UpsertNodeCmd
  <2>1. Apply(cs, cmd).topics = cs.topics
    BY <1>5, Zenon DEF Apply, UpsertNodeCmd, ApplyUpsertNode
  <2> QED
    BY <2>1, <1>1, Zenon
<1> QED
  BY <1>3, <1>4, <1>5, Zenon DEF MetadataCmd

LEMMA CommitKeeps ==
  ASSUME MetaInv, NEW i \in Slot, Commit(i)
  PROVE  SegmentsBounded' /\ LeadsKept
<1> DEFINE last == Len(history)
           new  == Apply(Committed, inflight[i])
<1>1. inflight[i] \in MetadataCmd
  BY Zenon DEF Commit, MetaInv, ReplicaInv, ReplicaTypeOK
<1>2. last \in Nat /\ last \in 1..last
  BY DEF MetaInv, ReplicaInv, ReplicaTypeOK
<1>3. /\ Len(history') = last + 1
      /\ \A k \in 1..last : history'[k] = history[k]
      /\ history'[last + 1] = new
  BY AppendFacts DEF Commit, MetaInv, ReplicaInv
<1>4. Committed = history[last] /\ Committed' = new
  BY <1>3, Zenon DEF Committed
<1>5. IsClusterState(Committed) /\ WellFormed(Committed)
  BY <1>2, <1>4, Zenon DEF MetaInv, ReplicaInv, ReplicaTypeOK
<1>6. Extends(Committed, new)
  BY <1>1, <1>5, ApplyKeeps, Zenon
<1>7. \A t \in DOMAIN new.topics : new.topics[t].current_segment <= last + 1
  BY <1>1, <1>2, <1>4, <1>5, ApplyOpensOne, Zenon DEF MetaInv, SegmentsBounded
<1>8. SegmentsBounded'
  <2> SUFFICES ASSUME NEW k \in 1..(last + 1), NEW t \in DOMAIN history'[k].topics
               PROVE  history'[k].topics[t].current_segment <= k
    BY <1>3, Zenon DEF SegmentsBounded
  <2>1. CASE k = last + 1
    BY <2>1, <1>3, <1>7, Zenon
  <2>2. CASE k \in 1..last
    BY <2>2, <1>3, Zenon DEF MetaInv, SegmentsBounded
  <2> QED
    BY <2>1, <2>2, <1>2
<1>9. LeadsKept
  BY <1>4, <1>6, Zenon DEF LeadsKept, Leads, Extends
<1> QED
  BY <1>8, <1>9, Zenon

\* Replicas and committed metadata only learn, and MetaInv is preserved.
LEMMA MetaMovesKeep ==
  ASSUME MetaInv, MetaMoves
  PROVE  /\ MetaInv'
         /\ LeadsKept
         /\ MetaKept
         /\ restarts' = restarts
<1>1. \A n \in Node : IsClusterState(meta[n])
  BY Zenon DEF MetaInv, ReplicaInv, ReplicaTypeOK
<1>2. \A n \in Node : Extends(meta[n], meta[n])
  BY <1>1, ExtendsReflexive, Zenon
<1>3. CASE UNCHANGED replicaVars
  BY <1>2, <1>3, Zenon DEF replicaVars, MetaInv, ReplicaInv, ReplicaTypeOK, Committed,
                    SegmentsBounded, LeadsKept, Leads, MetaKept
<1>4. ASSUME NEW n \in Node, NEW i \in Slot, NEW cmd \in MetadataCmd, Propose(n, i, cmd)
      PROVE  MetaInv' /\ LeadsKept /\ MetaKept /\ restarts' = restarts
  <2>1. ReplicaInv'
    BY <1>4, ProposeStep, Zenon DEF MetaInv
  <2> QED
    BY <2>1, <1>2, <1>4, Zenon DEF Propose, MetaInv, SegmentsBounded, LeadsKept, Leads,
                            Committed, MetaKept
<1>5. ASSUME NEW i \in Slot, Commit(i)
      PROVE  MetaInv' /\ LeadsKept /\ MetaKept /\ restarts' = restarts
  <2>1. ReplicaInv' /\ SegmentsBounded' /\ LeadsKept
    BY <1>5, CommitStep, CommitKeeps, Zenon DEF MetaInv
  <2> QED
    BY <2>1, <1>2, <1>5, Zenon DEF Commit, MetaInv, MetaKept
<1>6. ASSUME NEW i \in Slot, Lose(i)
      PROVE  MetaInv' /\ LeadsKept /\ MetaKept /\ restarts' = restarts
  <2>1. ReplicaInv'
    BY <1>6, LoseStep, Zenon DEF MetaInv
  <2> QED
    BY <2>1, <1>2, <1>6, Zenon DEF Lose, MetaInv, SegmentsBounded, LeadsKept, Leads,
                            Committed, MetaKept
<1>7. ASSUME NEW n \in Node, ApplyNext(n)
      PROVE  MetaInv' /\ LeadsKept /\ MetaKept /\ restarts' = restarts
  <2>1. /\ ReplicaInv'
        /\ meta' = [meta EXCEPT ![n] = history[applied[n] + 2]]
        /\ applied[n] + 2 \in 1..Len(history)
    BY <1>7, ApplyNextStep, Zenon DEF MetaInv
  <2>2. UNCHANGED <<history, restarts>>
    BY <1>7, Zenon DEF ApplyNext
  <2>3. Extends(meta[n], history[applied[n] + 2])
    <3>1. /\ meta[n] = history[applied[n] + 1]
          /\ applied[n] + 1 \in 1..Len(history)
          /\ applied[n] + 1 <= applied[n] + 2
      BY ReplicaCut DEF MetaInv
    <3> QED
      BY <3>1, <2>1, Zenon DEF MetaInv, ReplicaInv
  <2>4. MetaKept
    BY <2>1, <2>3, <1>2, Zenon DEF MetaKept, MetaInv, ReplicaInv
  <2> QED
    BY <2>1, <2>2, <2>4, Zenon DEF MetaInv, SegmentsBounded, LeadsKept, Leads, Committed
<1> QED
  BY <1>3, <1>4, <1>5, <1>6, <1>7, Zenon DEF MetaMoves

LEMMA RestartKeeps ==
  ASSUME MetaInv, NEW n \in Node, Restart(n)
  PROVE  /\ MetaInv'
         /\ LeadsKept
         /\ \A m \in Node \ {n} : meta'[m] = meta[m]
         /\ restarts \in Nat
         /\ restarts' = restarts + 1
<1>1. ReplicaInv'
  BY RestartStep, Zenon DEF MetaInv
<1>2. restarts \in Nat
  BY BoundsAssumption DEF MetaInv, ReplicaInv, ReplicaTypeOK
<1>3. \A m \in Node \ {n} : meta'[m] = meta[m]
  BY Zenon DEF Restart, MetaInv, ReplicaInv
<1> QED
  BY <1>1, <1>2, <1>3, Zenon DEF Restart, MetaInv, SegmentsBounded, LeadsKept, Leads,
                          Committed

\* What a replica says of segments and their leaders is what committed, and
\* every segment it knows has a key.
LEMMA ReplicaLeads ==
  ASSUME MetaInv, NEW n \in Node, NEW t \in DOMAIN meta[n].topics
  PROVE  LET ts == meta[n].topics[t]
         IN  /\ t \in Topic
             /\ ts.current_segment \in 1..(MaxLog + 1)
             /\ ts.leader_node = ts.segment_leaders[ts.current_segment]
             /\ ts.leader_node \in Node
             /\ \A s \in 1..ts.current_segment :
                  /\ s \in DOMAIN ts.segment_leaders
                  /\ ts.segment_leaders[s] \in Node
                  /\ <<t, s>> \in Key
                  /\ Leads(ts.segment_leaders[s], <<t, s>>)
<1> DEFINE ts == meta[n].topics[t]
           a  == applied[n] + 1
<1>1. /\ meta[n] = history[a]
      /\ a \in 1..Len(history) /\ Len(history) \in 1..Len(history)
      /\ a <= Len(history) /\ Len(history) <= MaxLog + 1 /\ a \in Nat
      /\ Len(history) \in Nat
  BY ReplicaCut, BoundsAssumption DEF MetaInv, ReplicaInv, ReplicaTypeOK
<1>2. IsClusterState(meta[n]) /\ WellFormed(meta[n]) /\ Extends(meta[n], Committed)
  BY <1>1, Zenon DEF MetaInv, ReplicaInv, ReplicaTypeOK, Committed
<1>3. t \in Topic /\ IsTopicState(ts)
  BY <1>2, Zenon DEF IsClusterState
<1>4. ts.current_segment \in Nat /\ ts.current_segment >= 1 /\ ts.leader_node \in Node
  BY <1>3 DEF IsTopicState
<1>5. ts.current_segment <= a
  BY <1>1, Zenon DEF MetaInv, SegmentsBounded
<1>6. ts.current_segment \in 1..(MaxLog + 1)
  BY <1>1, <1>4, <1>5, BoundsAssumption
<1>7. /\ DOMAIN ts.segment_leaders = 1..ts.current_segment
      /\ ts.leader_node = ts.segment_leaders[ts.current_segment]
  BY <1>2, Zenon DEF WellFormed
<1>8. ASSUME NEW s \in 1..ts.current_segment
      PROVE  /\ s \in DOMAIN ts.segment_leaders
             /\ ts.segment_leaders[s] \in Node
             /\ <<t, s>> \in Key
             /\ Leads(ts.segment_leaders[s], <<t, s>>)
  <2>1. s \in DOMAIN ts.segment_leaders
    BY <1>7, Zenon
  <2>2. ts.segment_leaders[s] \in Node
    BY <2>1, <1>3, Zenon DEF IsTopicState
  <2>3. s \in 1..(MaxLog + 1)
    BY <1>6, BoundsAssumption
  <2>4. /\ t \in DOMAIN Committed.topics
        /\ s \in DOMAIN Committed.topics[t].segment_leaders
        /\ Committed.topics[t].segment_leaders[s] = ts.segment_leaders[s]
    BY <1>2, <2>1, Zenon DEF Extends
  <2> QED
    BY <2>1, <2>2, <2>3, <2>4, <1>3, Zenon DEF Key, Leads
<1> QED
  BY <1>3, <1>4, <1>6, <1>7, <1>8, Zenon

LEMMA OwnedLeads ==
  ASSUME MetaInv, NEW n \in Node
  PROVE  /\ owned_topics(meta[n], n) \subseteq Key
         /\ \A k \in owned_topics(meta[n], n) : Leads(n, k)
<1> SUFFICES ASSUME NEW t \in DOMAIN meta[n].topics,
                    meta[n].topics[t].leader_node = n
             PROVE  /\ <<t, meta[n].topics[t].current_segment>> \in Key
                    /\ Leads(n, <<t, meta[n].topics[t].current_segment>>)
  BY Zenon DEF owned_topics
<1> DEFINE c == meta[n].topics[t].current_segment
<1>1. c \in 1..c
  BY ReplicaLeads, BoundsAssumption
<1> QED
  BY <1>1, ReplicaLeads

-----------------------------------------------------------------------------
(* The inductive invariant.                                                *)

\* Leases, the sets of keys on their way to become leases, and the entries of
\* a node are all for segments the node leads.
LeaseInv ==
  /\ \A n \in Node : \A k \in leases[n] : Leads(n, k)
  /\ \A n \in Node : \A keys \in sync[n] : \A k \in keys : Leads(n, k)
  /\ \A r \in Req : \A k \in put[r].expected : Leads(put[r].target, k)
  /\ \A r \in Req : put[r].pc = "write" => Leads(put[r].target, put[r].key)
  /\ \A n \in Node, k \in Key : wal[n][k] # <<>> => Leads(n, k)

\* A cursor is within the segments its replica knows, and a read that was sent
\* went to the leader of the cursor's segment.
GetsRight(n) ==
  /\ \A t \in Topic : cursor[n][t].segment # 0 =>
       /\ t \in DOMAIN meta[n].topics
       /\ cursor[n][t].segment <= meta[n].topics[t].current_segment
  /\ get[n].pc # Idle => cursor[n][get[n].key[1]].segment # 0
  /\ get[n].pc \in {"sent", "reply"} =>
       /\ Leads(get[n].leader, get[n].key)
       /\ get[n].key[2] = cursor[n][get[n].key[1]].segment
       /\ get[n].current <= meta[n].topics[get[n].key[1]].current_segment
  /\ get[n].pc = "sent" => get[n].data = NoReq

GetInv == \A n \in Node : GetsRight(n)

DataInv ==
  /\ MetaInv
  /\ DataTypeOK
  /\ LeaseInv
  /\ GetInv
  /\ OnceInv

-----------------------------------------------------------------------------
(* What leaves the variables of a conjunct alone preserves it.             *)

LEMMA LeaseKept ==
  ASSUME LeaseInv, LeadsKept, UNCHANGED <<leases, sync, put, wal>>
  PROVE  LeaseInv'
BY Zenon DEF LeaseInv, LeadsKept

LEMMA GetsRightKept ==
  ASSUME MetaInv, MetaInv', DataTypeOK, LeadsKept, NEW n \in Node, GetsRight(n),
         Extends(meta[n], meta'[n]), get'[n] = get[n], cursor'[n] = cursor[n]
  PROVE  GetsRight(n)'
<1>1. \A t \in DOMAIN meta[n].topics :
         /\ t \in DOMAIN meta'[n].topics
         /\ meta[n].topics[t].current_segment \in Nat
         /\ meta'[n].topics[t].current_segment \in Nat
         /\ meta[n].topics[t].current_segment <= meta'[n].topics[t].current_segment
  <2>1. IsClusterState(meta[n]) /\ IsClusterState(meta'[n])
    BY Zenon DEF MetaInv, ReplicaInv, ReplicaTypeOK
  <2> QED
    BY <2>1, Zenon DEF IsClusterState, IsTopicState, Extends
<1>2. \A t \in Topic : cursor[n][t].segment \in Nat
  BY Zenon DEF DataTypeOK
<1>3. \A t \in Topic : cursor[n][t].segment # 0 =>
         /\ t \in DOMAIN meta[n].topics
         /\ t \in DOMAIN meta'[n].topics
         /\ cursor[n][t].segment <= meta'[n].topics[t].current_segment
  BY <1>1, <1>2 DEF GetsRight
<1>4. ASSUME get[n].pc \in {"sent", "reply"}
      PROVE  /\ Leads(get[n].leader, get[n].key)'
             /\ get[n].current <= meta'[n].topics[get[n].key[1]].current_segment
  <2>1. get[n].current \in Nat /\ get[n].key \in Key
    BY Zenon DEF DataTypeOK, GetState
  <2>2. get[n].key[1] \in Topic /\ cursor[n][get[n].key[1]].segment # 0
    BY <1>4, <2>1, Zenon DEF Key, GetsRight, Idle
  <2>3. get[n].key[1] \in DOMAIN meta[n].topics
    BY <2>2, <1>3, Zenon
  <2>4. get[n].current <= meta[n].topics[get[n].key[1]].current_segment
    BY <1>4, Zenon DEF GetsRight
  <2>5. get[n].current <= meta'[n].topics[get[n].key[1]].current_segment
    BY <2>1, <2>3, <2>4, <1>1
  <2>6. Leads(get[n].leader, get[n].key)'
    BY <1>4, Zenon DEF GetsRight, LeadsKept
  <2> QED
    BY <2>5, <2>6, Zenon
<1>5. \A t \in Topic : cursor'[n][t].segment # 0 =>
         /\ t \in DOMAIN meta'[n].topics
         /\ cursor'[n][t].segment <= meta'[n].topics[t].current_segment
  BY <1>3, Zenon
<1>6. /\ get'[n].pc # Idle => cursor'[n][get'[n].key[1]].segment # 0
      /\ get'[n].pc \in {"sent", "reply"} =>
           get'[n].key[2] = cursor'[n][get'[n].key[1]].segment
      /\ get'[n].pc = "sent" => get'[n].data = NoReq
  BY Zenon DEF GetsRight
<1>7. get'[n].pc \in {"sent", "reply"} =>
        /\ Leads(get[n].leader, get[n].key)'
        /\ get'[n].current <= meta'[n].topics[get'[n].key[1]].current_segment
  BY <1>4, Zenon
<1> QED
  BY <1>5, <1>6, <1>7, Zenon DEF GetsRight

LEMMA GetKept ==
  ASSUME MetaInv, MetaInv', DataTypeOK, GetInv, LeadsKept, MetaKept,
         UNCHANGED <<get, cursor>>
  PROVE  GetInv'
BY GetsRightKept, Zenon DEF GetInv, MetaKept

LEMMA StoredKept ==
  ASSUME UNCHANGED wal
  PROVE  \A n, k : Stored(n, k)' = Stored(n, k)
BY Zenon DEF Stored

LEMMA OnceKept ==
  ASSUME OnceInv, UNCHANGED <<put, wal, result>>
  PROVE  OnceInv'
BY StoredKept DEF OnceInv, OneCopy, Wrote

LEMMA KeyFacts ==
  /\ AnyNode \in Node
  /\ AnyKey \in Key
  /\ \A k \in Key : k[1] \in Topic /\ k[2] \in 1..(MaxLog + 1) /\ k = <<k[1], k[2]>>
<1>1. 1 \in 1..(MaxLog + 1)
  BY BoundsAssumption
<1>2. PICK t \in Topic : TRUE
  BY DataPlaneAssumption, Zenon
<1>3. <<t, 1>> \in Key
  BY <1>1, Zenon DEF Key
<1> QED
  BY <1>3, DataPlaneAssumption DEF AnyNode, AnyKey, Key

LEMMA IdleStates == IdlePut \in PutState /\ IdleGet \in GetState
BY KeyFacts DEF IdlePut, IdleGet, PutState, GetState, PutPC, Idle, NoReq


\* Whoever proposes a rollover does so with a command.
LEMMA RolloverMoves ==
  ASSUME NEW n \in Node, NEW t \in Topic, NEW count \in Nat, NEW i \in Slot,
         ProposeRollover(n, t, count, i)
  PROVE  MetaMoves
<1>1. PICK m \in Node :
        Propose(n, i, [op |-> "RolloverTopic", name |-> t, new_leader |-> m,
                       sealed_segment_entry_count |-> count])
  BY Zenon DEF ProposeRollover
<1>2. [op |-> "RolloverTopic", name |-> t, new_leader |-> m,
       sealed_segment_entry_count |-> count] \in MetadataCmd
  BY Zenon DEF MetadataCmd, RolloverTopicCmd
<1> QED
  BY <1>1, <1>2, Zenon DEF MetaMoves

-----------------------------------------------------------------------------
(* The steps that change the metadata only, and the background loops.      *)

\* A step that leaves all but the metadata and the monitor's list alone.
LEMMA MetaStep ==
  ASSUME DataInv, MetaMoves, monitor' \in [Node -> SUBSET Key],
         UNCHANGED <<leases, sync, offsets, wal, position, putVars, getVars>>
  PROVE  DataInv'
<1>1. /\ MetaInv' /\ LeadsKept /\ MetaKept /\ restarts' = restarts
      /\ MetaInv /\ DataTypeOK /\ LeaseInv /\ GetInv /\ OnceInv
  BY MetaMovesKeep, Zenon DEF DataInv
<1>2. UNCHANGED <<leases, sync, offsets, wal, position, put, result, get, cursor, got>>
  BY Zenon DEF putVars, getVars
<1>3. DataTypeOK'
  BY <1>1, <1>2, Zenon DEF DataTypeOK
<1>4. LeaseInv' /\ GetInv' /\ OnceInv'
  BY <1>1, <1>2, LeaseKept, GetKept, OnceKept, Zenon
<1> QED
  BY <1>1, <1>3, <1>4, Zenon DEF DataInv

LEMMA MetadataStepStep ==
  ASSUME DataInv, MetadataStep
  PROVE  DataInv'
<1>1. MetaMoves
  BY Zenon DEF MetadataStep, MetaMoves
<1>2. monitor' \in [Node -> SUBSET Key]
  BY Zenon DEF MetadataStep, DataInv, DataTypeOK
<1> QED
  BY <1>1, <1>2, MetaStep, Zenon DEF MetadataStep

LEMMA SetupStep ==
  ASSUME DataInv, SetupNext
  PROVE  DataInv'
<1>1. PICK n \in Node, i \in Slot :
        (\E t \in Topic : Register(n, t, i)) \/ (\E m \in Node : UpsertNode(n, m, i))
  BY Zenon DEF SetupNext
<1>2. meta[n].nodes \subseteq Node
  BY Zenon DEF DataInv, MetaInv, ReplicaInv, ReplicaTypeOK, IsClusterState
<1>3. ASSUME NEW t \in Topic, Register(n, t, i)
      PROVE  DataInv'
  <2>1. PICK leader \in IF meta[n].nodes = {} THEN {n} ELSE meta[n].nodes :
          Propose(n, i, [op |-> "CreateTopic", name |-> t, initial_leader |-> leader])
    BY <1>3, Zenon DEF Register
  <2>2. leader \in Node
    BY <1>2, Zenon
  <2>3. [op |-> "CreateTopic", name |-> t, initial_leader |-> leader] \in MetadataCmd
    BY <2>2, Zenon DEF MetadataCmd, CreateTopicCmd
  <2>4. MetaMoves
    BY <2>1, <2>3, Zenon DEF MetaMoves
  <2>5. monitor' \in [Node -> SUBSET Key]
    BY <1>3, Zenon DEF Register, DataInv, DataTypeOK
  <2> QED
    BY <1>3, <2>4, <2>5, MetaStep, Zenon DEF Register
<1>4. ASSUME NEW m \in Node, UpsertNode(n, m, i)
      PROVE  DataInv'
  <2>1. [op |-> "UpsertNode", node_id |-> m] \in MetadataCmd
    BY Zenon DEF MetadataCmd, UpsertNodeCmd
  <2>2. MetaMoves
    BY <1>4, <2>1, Zenon DEF MetaMoves, UpsertNode
  <2>3. monitor' \in [Node -> SUBSET Key]
    BY <1>4, Zenon DEF UpsertNode, DataInv, DataTypeOK
  <2> QED
    BY <1>4, <2>2, <2>3, MetaStep, Zenon DEF UpsertNode
<1> QED
  BY <1>1, <1>3, <1>4, Zenon

LEMMA MonitorStep ==
  ASSUME DataInv, MonitorNext
  PROVE  DataInv'
<1>1. PICK n \in Node : MonitorTick(n) \/ \E k \in monitor[n] : MonitorCheck(n, k)
  BY Zenon DEF MonitorNext
<1>2. CASE MonitorTick(n)
  <2>1. owned_topics(meta[n], n) \subseteq Key
    BY OwnedLeads, Zenon DEF DataInv
  <2>2. monitor' \in [Node -> SUBSET Key]
    BY <1>2, <2>1, Zenon DEF MonitorTick, DataInv, DataTypeOK
  <2>3. MetaMoves
    BY <1>2, Zenon DEF MonitorTick, MetaMoves
  <2> QED
    BY <1>2, <2>2, <2>3, MetaStep, Zenon DEF MonitorTick
<1>3. ASSUME NEW k \in monitor[n], MonitorCheck(n, k)
      PROVE  DataInv'
  <2>1. monitor[n] \subseteq Key /\ monitor \in [Node -> SUBSET Key]
    BY Zenon DEF DataInv, DataTypeOK
  <2>2. offsets[n][k] \in Nat /\ k[1] \in Topic
    BY <2>1, KeyFacts DEF DataInv, DataTypeOK
  <2>3. \/ monitor' = [monitor EXCEPT ![n] = monitor[n] \ {k}]
        \/ monitor' = [monitor EXCEPT ![n] = {}]
    BY <1>3, Zenon DEF MonitorCheck
  <2>4. monitor' \in [Node -> SUBSET Key]
    BY <2>1, <2>3, Zenon
  <2>5. (\E i \in Slot : ProposeRollover(n, k[1], offsets[n][k], i))
          \/ UNCHANGED replicaVars
    BY <1>3, Zenon DEF MonitorCheck
  <2>6. MetaMoves
    BY <2>2, <2>5, RolloverMoves, Zenon DEF MetaMoves
  <2> QED
    BY <1>3, <2>4, <2>6, MetaStep, Zenon DEF MonitorCheck
<1> QED
  BY <1>1, <1>2, <1>3, Zenon

LEMMA LeaseStep ==
  ASSUME DataInv, LeaseNext
  PROVE  DataInv'
<1>1. PICK n \in Node : LeaseLoopRead(n) \/ LeaseLoopInstall(n)
  BY Zenon DEF LeaseNext
<1>2. UNCHANGED <<replicaVars, offsets, wal, position, put, result, monitor,
                  get, cursor, got>>
  BY <1>1, Zenon DEF LeaseLoopRead, LeaseLoopInstall, putVars, getVars
<1>3. MetaMoves
  BY <1>2, Zenon DEF MetaMoves
<1>4. /\ MetaInv' /\ LeadsKept /\ MetaKept /\ restarts' = restarts
      /\ MetaInv /\ DataTypeOK /\ LeaseInv /\ GetInv /\ OnceInv
  BY <1>3, MetaMovesKeep, Zenon DEF DataInv
<1>5. /\ leases' \in [Node -> SUBSET Key]
      /\ sync' \in [Node -> SUBSET SUBSET Key]
      /\ \A m \in Node : \A k \in leases'[m] : Leads(m, k)
      /\ \A m \in Node : \A keys \in sync'[m] : \A k \in keys : Leads(m, k)
  <2>1. CASE LeaseLoopRead(n)
    <3>1. /\ owned_topics(meta[n], n) \subseteq Key
          /\ \A k \in owned_topics(meta[n], n) : Leads(n, k)
      BY OwnedLeads, Zenon DEF DataInv
    <3>2. leases' = leases /\ sync' = [sync EXCEPT ![n] = {owned_topics(meta[n], n)}]
      BY <2>1, Zenon DEF LeaseLoopRead
    <3> QED
      BY <3>1, <3>2, <1>4 DEF DataTypeOK, LeaseInv
  <2>2. CASE LeaseLoopInstall(n)
    <3>1. PICK expected \in sync[n] : leases' = [leases EXCEPT ![n] = expected]
      BY <2>2, Zenon DEF LeaseLoopInstall
    <3>2. sync' = [sync EXCEPT ![n] = {}]
      BY <2>2, Zenon DEF LeaseLoopInstall
    <3>3. expected \subseteq Key /\ \A k \in expected : Leads(n, k)
      BY <1>4, Zenon DEF DataTypeOK, LeaseInv
    <3> QED
      BY <3>1, <3>2, <3>3, <1>4, Zenon DEF DataTypeOK, LeaseInv
  <2> QED
    BY <1>1, <2>1, <2>2, Zenon
<1>6. DataTypeOK'
  BY <1>2, <1>4, <1>5, Zenon DEF DataTypeOK
<1>7. LeaseInv'
  <2>1. /\ \A m \in Node : \A k \in leases'[m] : Leads(m, k)'
        /\ \A m \in Node : \A keys \in sync'[m] : \A k \in keys : Leads(m, k)'
    BY <1>4, <1>5, Zenon DEF LeadsKept
  <2>2. /\ \A r \in Req : \A k \in put[r].expected : Leads(put[r].target, k)'
        /\ \A r \in Req : put[r].pc = "write" => Leads(put[r].target, put[r].key)'
        /\ \A m \in Node, k \in Key : wal[m][k] # <<>> => Leads(m, k)'
    BY <1>2, <1>4, Zenon DEF LeadsKept, LeaseInv
  <2> QED
    BY <1>2, <2>1, <2>2, Zenon DEF LeaseInv
<1>8. GetInv' /\ OnceInv'
  BY <1>2, <1>4, GetKept, OnceKept, Zenon
<1> QED
  BY <1>4, <1>6, <1>7, <1>8, Zenon DEF DataInv
=============================================================================
