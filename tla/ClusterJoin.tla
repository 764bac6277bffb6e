---------------------------- MODULE ClusterJoin ----------------------------
(***************************************************************************)
(* How nodes join a cluster (distributed-walrus main.rs and                *)
(* controller/mod.rs, octopii openraft/node.rs, openraft                   *)
(* raft/api/management.rs): node 1 starts the cluster and answers join     *)
(* requests, each of which adds a learner, records its address, and leaves *)
(* a task behind that makes the learner a voter when it has caught up.     *)
(* The joiner repeats a request that is not answered in time, so several   *)
(* handlers and tasks can work for one node.  Handlers see the cluster     *)
(* through metrics, which lag behind; node 1 may lose its leadership or    *)
(* restart.                                                                *)
(***************************************************************************)
EXTENDS RaftMembership, FiniteSetsExt

CONSTANTS Joiners,      \* the nodes that join
          JoinAttempts,     \* requests per joiner (10)
          PromoteAttempts,  \* rounds of a promotion task (120)
          MaxUpsets     \* bound on restarts, lost leaderships and failed appends

ASSUME JoinAssumption == JoinAttempts \in Nat /\ PromoteAttempts \in Nat /\ MaxUpsets \in Nat

VARIABLES members,  \* MembershipState of node 1
          caught,   \* the learners and voters that have the whole log
          seen,     \* the metrics: membership and the nodes caught up
          joins,    \* attempt_join of each joiner
          jobs,     \* handlers of join requests, and the tasks they leave
          addrs,    \* peer_addrs, the peer address WAL and the metadata's nodes
          leads,    \* whether node 1 leads
          upsets    \* faults so far

joinVars == <<members, caught, seen, joins, jobs, addrs, leads, upsets>>

JobIds == Joiners \X (1..JoinAttempts)
NoJob == [at |-> "none", index |-> 0, goal |-> {}, joint |-> FALSE, tries |-> 0]
Effective == members.effective.m

SetJob(j, at) == jobs' = [jobs EXCEPT ![j].at = at]

\* A round of a promotion task that failed: the next one comes, or the last
\* one is over.
AnotherRound(j) ==
  jobs' = [jobs EXCEPT ![j].tries = @ + 1,
                       ![j].at = IF jobs[j].tries + 1 = PromoteAttempts THEN "expired" ELSE "sleep"]

-----------------------------------------------------------------------------
(* The joiner *)

\* attempt_join sends JoinCluster to its target, up to ten times.
AttemptJoin(n) ==
  /\ joins[n].at = "idle" /\ joins[n].sent < JoinAttempts
  /\ joins' = [joins EXCEPT ![n].at = "asking", ![n].sent = @ + 1]
  /\ jobs' = [jobs EXCEPT ![<<n, joins[n].sent + 1>>].at = "persist"]
  /\ UNCHANGED <<members, caught, seen, addrs, leads, upsets>>

\* No answer in five seconds; the handler goes on.
JoinTimeout(n) ==
  /\ joins[n].at = "asking"
  /\ joins' = [joins EXCEPT ![n].at = "idle"]
  /\ UNCHANGED <<members, caught, seen, jobs, addrs, leads, upsets>>

\* The answer of a handler reaches its joiner if that still waits for it.
Answer(j, result) ==
  joins' = IF joins[j[1]] = [at |-> "asking", sent |-> j[2]]
           THEN [joins EXCEPT ![j[1]].at = result] ELSE joins

-----------------------------------------------------------------------------
(* handle_join_cluster *)

\* persist_peer_addr_if_needed: only the call that changes the map appends a
\* record, after it has released the map.
PersistPeerAddr(j) ==
  /\ jobs[j].at = "persist"
  /\ SetJob(j, IF j[1] \in addrs.map THEN "learner" ELSE "append")
  /\ addrs' = [addrs EXCEPT !.map = @ \cup {j[1]}]
  /\ UNCHANGED <<members, caught, seen, joins, leads, upsets>>

\* append_peer_addr_record.
AppendPeerAddr(j) ==
  /\ jobs[j].at = "append"
  /\ \/ /\ addrs' = [addrs EXCEPT !.wal = @ \cup {j[1]}]
        /\ SetJob(j, "learner") /\ UNCHANGED <<joins, upsets>>
     \/ /\ upsets < MaxUpsets /\ upsets' = upsets + 1
        /\ SetJob(j, "ended") /\ Answer(j, "idle") /\ UNCHANGED addrs
  /\ UNCHANGED <<members, caught, seen, leads>>

\* ChangeHandler::apply and write_entry: a change is only taken by a leader
\* whose last membership is committed, if its result is valid.
MayChange(c) == leads /\ ensure_committed(members) /\ ensure_valid(change(Effective, c, TRUE))

\* RaftCore::change_membership for job j, which then waits at the given place.
ChangeMembership(j, c, at) ==
  /\ MayChange(c)
  /\ LET e == [members.effective EXCEPT !.index = @ + 1, !.m = change(@, c, TRUE)] IN
       /\ members' = AppendMembership(members, e)
       /\ jobs' = [jobs EXCEPT ![j].at = at, ![j].index = e.index, ![j].joint = Len(e.m.configs) > 1]

\* OctopiiNode::add_learner proposes the learner; a change in progress or a
\* lost leadership is an error, which the joiner is told.
AddLearner(j) ==
  /\ jobs[j].at = "learner"
  /\ LET c == [op |-> "AddNodes", ids |-> {j[1]}] IN
       \/ ChangeMembership(j, c, "adding") /\ UNCHANGED joins
       \/ ~MayChange(c) /\ SetJob(j, "ended") /\ Answer(j, "idle") /\ UNCHANGED members
  /\ UNCHANGED <<caught, seen, addrs, leads, upsets>>

\* A proposed change is answered when it is committed, and refused when the
\* leadership is lost before, whatever becomes of it.
Committed(j) == jobs[j].index # 0 /\ members.committed.index >= jobs[j].index
Refused(j) == jobs[j].index = 0

\* ManagementApi::add_learner blocks until the learner is up to date in the
\* metrics.
LearnerAdded(j) ==
  /\ jobs[j].at = "adding"
  /\ \/ Committed(j) /\ seen.index >= jobs[j].index /\ j[1] \in seen.caught
        /\ SetJob(j, "upsert") /\ UNCHANGED joins
     \/ Refused(j) /\ SetJob(j, "ended") /\ Answer(j, "idle")
  /\ UNCHANGED <<members, caught, seen, addrs, leads, upsets>>

\* upsert_node proposes the address; a failure is only logged.  The promotion
\* task starts and the joiner gets its answer.
UpsertNode(j) ==
  /\ jobs[j].at = "upsert"
  /\ addrs' = IF leads THEN [addrs EXCEPT !.nodes = @ \cup {j[1]}] ELSE addrs
  /\ SetJob(j, "sleep")
  /\ Answer(j, "joined")
  /\ UNCHANGED <<members, caught, seen, leads, upsets>>

-----------------------------------------------------------------------------
(* The promotion task *)

\* is_learner_caught_up and the first half of promote_learner: both read the
\* metrics.  The goal is every voter seen there, and the learner.
PromoteLearner(j) ==
  /\ jobs[j].at = "sleep"
  /\ IF j[1] \in seen.caught
     THEN jobs' = [jobs EXCEPT ![j].at = "change", ![j].goal = voter_ids(seen.m) \cup {j[1]}]
     ELSE AnotherRound(j)
  /\ UNCHANGED <<members, caught, seen, joins, addrs, leads, upsets>>

\* The first step of ManagementApi::change_membership.
ChangeVoters(j) ==
  /\ jobs[j].at = "change"
  /\ LET c == [op |-> "ReplaceAllVoters", ids |-> jobs[j].goal] IN
       \/ ChangeMembership(j, c, "joint")
       \/ ~MayChange(c) /\ AnotherRound(j) /\ UNCHANGED members
  /\ UNCHANGED <<caught, seen, joins, addrs, leads, upsets>>

\* Faulty: the joint configuration is taken for the result.
BadVotersChanged(j) ==
  /\ jobs[j].at = "joint" /\ Committed(j) /\ SetJob(j, "promoted")
  /\ UNCHANGED <<members, caught, seen, joins, addrs, leads, upsets>>

\* The answer of the first step: if the configuration is joint, there is a
\* second one.
VotersChanged(j) ==
  /\ jobs[j].at = "joint"
  /\ \/ /\ Committed(j)
        /\ SetJob(j, IF jobs[j].joint THEN "flatten" ELSE "promoted")
     \/ Refused(j) /\ AnotherRound(j)
  /\ UNCHANGED <<members, caught, seen, joins, addrs, leads, upsets>>

\* The second step: a change that adds no voter makes the joint configuration
\* uniform.
Flatten(j) ==
  /\ jobs[j].at = "flatten"
  /\ LET c == [op |-> "AddVoterIds", ids |-> {}] IN
       \/ ChangeMembership(j, c, "uniform")
       \/ ~MayChange(c) /\ AnotherRound(j) /\ UNCHANGED members
  /\ UNCHANGED <<caught, seen, joins, addrs, leads, upsets>>

Flattened(j) ==
  /\ jobs[j].at = "uniform"
  /\ \/ Committed(j) /\ SetJob(j, "promoted")
     \/ Refused(j) /\ AnotherRound(j)
  /\ UNCHANGED <<members, caught, seen, joins, addrs, leads, upsets>>

-----------------------------------------------------------------------------
(* The cluster *)

\* A quorum of every configuration has the membership entry.
CommitChange ==
  /\ leads /\ ~ensure_committed(members)
  /\ is_quorum(Effective, caught \cup {1})
  /\ members' = CommitMembership(members, members.effective.index)
  /\ UNCHANGED <<caught, seen, joins, jobs, addrs, leads, upsets>>

\* Replication brings a node up to date if its address is known.
CatchUp(n) ==
  /\ n \in Effective.nodes \cap addrs.map /\ leads
  /\ caught' = caught \cup {n}
  /\ UNCHANGED <<members, seen, joins, jobs, addrs, leads, upsets>>

\* RaftCore::flush_metrics.
FlushMetrics ==
  /\ seen' = [m |-> Effective, index |-> members.effective.index,
               caught |-> caught \cap Effective.nodes]
  /\ UNCHANGED <<members, caught, joins, jobs, addrs, leads, upsets>>

\* A change that is not committed survives a change of leaders or is cut off.
Settled == {CommitMembership(members, members.effective.index),
            TruncateMembership(members, members.committed.index + 1)}

LoseLeadership ==
  /\ leads /\ upsets < MaxUpsets /\ \E n \in Joiners : is_voter(Effective, n)
  /\ upsets' = upsets + 1 /\ leads' = FALSE
  /\ members' \in Settled
  /\ jobs' = [j \in JobIds |-> IF Committed(j) THEN jobs[j] ELSE [jobs[j] EXCEPT !.index = 0]]
  /\ UNCHANGED <<caught, seen, joins, addrs>>

\* bootstrap_node_one campaigns, and elections bring the leadership back.
Campaign ==
  /\ ~leads /\ leads' = TRUE
  /\ UNCHANGED <<members, caught, seen, joins, jobs, addrs, upsets>>

\* Node 1 restarts: handlers and tasks are gone, the address map is what
\* load_peer_addr_records reads from the WAL.
Restart ==
  /\ upsets < MaxUpsets /\ upsets' = upsets + 1
  /\ leads' = FALSE
  /\ members' \in Settled
  /\ jobs' = [j \in JobIds |-> [jobs[j] EXCEPT !.at = IF @ = "none" THEN "none" ELSE "ended"]]
  /\ addrs' = [addrs EXCEPT !.map = addrs.wal]
  /\ seen' = [m |-> members'.effective.m, index |-> members'.effective.index, caught |-> {}]
  /\ UNCHANGED <<caught, joins>>

\* OctopiiNode::start on the initial leader: initialize with itself.
Initialized == [index |-> 1, lead |-> <<0, 0>>, m |-> [configs |-> <<{1}>>, nodes |-> {1}]]

\* The start of a cluster; used and sent leave fewer faults and requests.
JoinInit(used, sent) ==
  /\ members = [committed |-> Initialized, effective |-> Initialized]
  /\ seen = [m |-> Initialized.m, index |-> 1, caught |-> {}]
  /\ caught = {} /\ joins = [n \in Joiners |-> [at |-> "idle", sent |-> sent[n]]]
  /\ jobs = [j \in JobIds |-> NoJob]
  /\ addrs = [map |-> {1}, wal |-> {1}, nodes |-> {1}]
  /\ leads = TRUE /\ upsets = used

JobStep(j) ==
  \/ PersistPeerAddr(j) \/ AppendPeerAddr(j) \/ AddLearner(j) \/ LearnerAdded(j)
  \/ UpsertNode(j) \/ PromoteLearner(j) \/ ChangeVoters(j) \/ VotersChanged(j)
  \/ Flatten(j) \/ Flattened(j)

JoinNext ==
  \/ \E n \in Joiners : AttemptJoin(n) \/ JoinTimeout(n) \/ CatchUp(n)
  \/ \E j \in JobIds : JobStep(j)
  \/ CommitChange \/ FlushMetrics \/ LoseLeadership \/ Campaign \/ Restart

JoinSpec == JoinInit(0, [n \in Joiners |-> 0]) /\ [][JoinNext]_joinVars

-----------------------------------------------------------------------------
\* The type of the state: a valid membership, metrics that are not ahead of
\* it.
JoinTypeOK ==
  /\ ensure_valid(Effective) /\ seen.index <= members.effective.index + 1
  /\ addrs.wal \subseteq Joiners \cup {1}
  /\ \A j \in JobIds : jobs[j].tries \in 0..PromoteAttempts

\* Replication finds the address of every member of the cluster: the address
\* is on disk before the learner is proposed, so that a restart of the leader
\* does not lose it.
MembersAreReachable == Effective.nodes \subseteq addrs.map

\* Two memberships that follow each other in the log share a configuration,
\* whichever tasks propose them: their quorums intersect.
ChangesAreCoherent ==
  is_coherent_with(members.committed.m, members.effective.m)

\* No operation of the program takes a vote away: a node that is a voter of
\* the final configuration is one of the next.
VotersStay ==
  [][LastConfig(members.committed.m) \subseteq voter_ids(members'.effective.m)]_joinVars

\* A configuration stays joint only as long as a task is at work on it, or
\* the task was lost in a restart, or has used up its attempts.
JointIsOwned ==
  Len(Effective.configs) > 1 =>
    \/ upsets > 0 \/ \E j \in JobIds : jobs[j].at = "expired"
    \/ \E j \in JobIds : jobs[j].at \in {"sleep", "change", "joint", "flatten", "uniform"}

=============================================================================
