---------------------------- MODULE MCRaftCluster ---------------------------
(***************************************************************************)
(* Small clusters.  Node 1 is the one octopii starts as the initial        *)
(* leader, with itself alone or with all nodes as the first membership.    *)
(***************************************************************************)
EXTENDS RaftCluster

Roles(voters, changed, electors, campaigners) ==
  [voters |-> voters, changed |-> changed, electors |-> electors, campaigners |-> campaigners,
   writers |-> Nodes, readers |-> {}]

Clients(roles, writers, readers) == [roles EXCEPT !.writers = writers, !.readers = readers]

Budget(writes, changes, heartbeats, timeouts, crashes, reads) ==
  [writes |-> writes, reads |-> reads, changes |-> changes, heartbeats |-> heartbeats,
   timeouts |-> timeouts, crashes |-> crashes]

\* Two candidates in one term; a crash; a write with a heartbeat, and one with
\* a lost request; a write to a leader that is replaced; a cluster of two with
\* a crash, two writes and a read; and a cluster of one that grows to two, where
\* the second node campaigns on the way, or all of the changes are made.
Init ==
  \/ ClusterInit(Roles({1, 2, 3}, {}, {3}, {2}), Budget(0, 0, 0, 0, 0, 0))
  \/ ClusterInit(Roles({1, 2, 3}, {}, {2}, {}),  Budget(0, 0, 0, 0, 1, 0))
  \/ ClusterInit(Roles({1, 2, 3}, {}, {}, {}),   Budget(1, 0, 1, 0, 0, 0))
  \/ ClusterInit(Roles({1, 2, 3}, {}, {}, {}),   Budget(1, 0, 0, 1, 0, 0))
  \/ ClusterInit(Clients(Roles({1, 2, 3}, {}, {2}, {}), {1}, {}), Budget(1, 0, 0, 0, 0, 0))
  \/ ClusterInit(Clients(Roles({1, 2}, {}, {2}, {}), {1, 2}, {1, 2}), Budget(2, 0, 0, 0, 1, 1))
  \/ ClusterInit(Roles({1}, {1, 2}, {2}, {}),    Budget(0, 3, 0, 0, 0, 0))
  \/ ClusterInit(Roles({1}, {1, 2}, {}, {}),     Budget(0, 5, 0, 0, 0, 0))

Spec == Init /\ [][ClusterNext]_clusterVars

\* A node that is asked to campaign while it leads, with a write meanwhile.
CampaignSpec ==
  ClusterInit(Roles(Nodes, {}, {}, {1}), Budget(1, 0, 0, 0, 0, 0)) /\ [][ClusterNext]_clusterVars

-----------------------------------------------------------------------------
CommittedLog(n) == SubSeq(node[n].log, 1, node[n].committed[3])

\* Nodes never commit different entries at the same place, and what a node
\* has committed is in its log, although logs are cut back and leaders change
\* (handle_vote_req, try_commit_quorum_accepted, calculate_local_committed).
CommittedAgree ==
  \A a \in Nodes :
    /\ get_log_id(node[a], node[a].committed[3]) = node[a].committed
    /\ \A b \in Nodes : \/ IsPrefix(CommittedLog(a), CommittedLog(b))
                        \/ IsPrefix(CommittedLog(b), CommittedLog(a))

\* A node that leads with a vote above everyone's has every entry that any
\* node has committed.
LeaderComplete ==
  \A l \in Nodes :
    node[l].leader # NoLeader /\ (\A n \in Nodes : ~Less(node[l].leader.vote, node[n].vote)) =>
      \A n \in Nodes : IsPrefix(CommittedLog(n), node[l].log)

\* A client that is told its write was applied can rely on it: the entry is
\* among those that are committed (client_responders are found by index).
AckedIsCommitted ==
  \A v \in acked : \E n \in Nodes : \E i \in 1..node[n].committed[3] : node[n].log[i].v = v

\* A read that a leader lets go on sees, once its log id is applied on the
\* node, every write that was answered before the read began, even if the
\* node was no longer the leader then (get_read_log_id).
ReadsSeeAcked ==
  \A r \in served :
    LET s == node[r.n]
    IN  s.committed[3] >= r.id[3] =>
          \A v \in r.seen : \E i \in 1..s.committed[3] : s.log[i].v = v

\* The cluster is the one log that RaftLog promises: the longest committed
\* log grows and never changes, and no node, not even one that restarts, goes
\* back behind or aside from what it had committed.
Longest ==
  LET top == CHOOSE n \in Nodes :
               \A m \in Nodes : node[m].committed[3] <= node[n].committed[3]
  IN  CommittedLog(top)

Promise == INSTANCE RaftLog WITH
  Replicas <- Nodes, chosen <- Longest, applied <- [n \in Nodes |-> CommittedLog(n)]

KeepsPromise == Promise!Spec
=============================================================================
