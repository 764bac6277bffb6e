---------------------------- MODULE RaftCluster -----------------------------
(***************************************************************************)
(* Several openraft nodes and what is between them: the event handlers of  *)
(* RaftCore, the replication streams and heartbeat workers of a leader,    *)
(* and octopii's calls (propose, campaign, add_learner, promote_learner,   *)
(* initialize).  A message may be lost (never delivered), delayed and      *)
(* overtaken; a request may arrive after its sender has given it up.  A    *)
(* node may crash and start again at any time.  Timers are not modelled: a *)
(* lease may have expired, and an election time-out may have passed, at    *)
(* any moment.                                                             *)
(***************************************************************************)
EXTENDS RaftEngine, SequencesExt

CONSTANTS Nodes,     \* node ids, which are numbers
          MaxTerm,   \* bound on terms
          MaxLog     \* bound on log lengths

ASSUME ClusterAssumption ==
  Nodes \subseteq Nat \ {0} /\ IsFiniteSet(Nodes) /\ {MaxTerm, MaxLog} \subseteq Nat

VARIABLES node,   \* the nodes
          net,    \* the messages on their way
          acked,  \* the client writes that were answered
          served, \* the reads that may go on once their log id is applied
          left,   \* how often each bounded event may still happen
          role    \* the voters the cluster starts with, the nodes that changes
                  \* are about, those whose election timer may run out, those
                  \* octopii asks to campaign, and those clients write to and
                  \* read from

clusterVars == <<node, net, acked, served, left, role>>

Spend(what) ==
  /\ left[what] > 0 /\ left' = [left EXCEPT ![what] = @ - 1]
  /\ UNCHANGED role

Free == UNCHANGED <<left, role>>

\* A read that a quorum has confirmed may go on; the others go on waiting.
Confirmed(s) == {r \in s.reads : is_quorum(r.m, r.granted)}

\* trigger_routine_actions: a leader replicates after every batch of events.
Routine(s) == IF s.leader = NoLeader THEN s ELSE initiate_replication(s)

\* does_candidate_vote_match, does_leader_vote_match.
Candidacy(ns, msg) ==
  \/ msg.type = "Vote" /\ ns[msg.from].candidate.vote = msg.vote
  \/ msg.type = "VoteResp" /\ ns[msg.to].candidate.vote = msg.cand
  \/ msg.type = "Append" /\ msg.live /\ ns[msg.from].leader.vote = msg.vote
  \/ msg.type = "AppendResp" /\ ns[msg.to].leader.vote = msg.sess[1]
  \/ msg.type = "Append" /\ msg.kind = "read" /\ ns[msg.from].reads # {}
  \/ msg.type = "AppendResp" /\ msg.kind = "read" /\ ns[msg.to].reads # {}

\* A message that no node would act on any more: an answer nobody waits for,
\* a request that would be refused to a node that no longer waits.
Dead(ns, msg) ==
  /\ ~Candidacy(ns, msg)
  /\ msg.type \in {"Vote", "Append"} => Less(msg.vote, ns[msg.to].vote)

\* Node n has handled an event; gone are the messages it has taken.
Step(n, s, gone) ==
  LET s1 == Routine(s)
      ns == [node EXCEPT ![n] = [s1 EXCEPT !.out = {}, !.done = {}, !.reads = @ \ Confirmed(s1)]]
  IN
  /\ node' = ns
  /\ net' = {msg \in (net \ gone) \cup s1.out : ~Dead(ns, msg)}
  /\ acked' = acked \cup s1.done
  /\ served' = served \cup {[n |-> n, id |-> r.id, seen |-> r.seen] : r \in Confirmed(s1)}

-----------------------------------------------------------------------------
\* OctopiiNode::start on the node that is the initial leader, which is 1.
Initialize(n) ==
  LET m == [configs |-> <<role.voters>>, nodes |-> role.voters] IN
  /\ n = 1 /\ ~IsInitialized(node[n]) /\ is_voter(m, n)
  /\ Step(n, initialize(node[n], m), {}) /\ Free

\* handle_tick_election: the timer of a voter that does not lead has run out.
TickElection(n) ==
  LET s == node[n] IN
  /\ n \in role.electors /\ s.vote[1] < MaxTerm
  /\ ~is_leader(s) /\ is_voter(s.ms.effective.m, n)
  /\ Step(n, elect(s), {}) /\ Free

\* OctopiiNode::campaign, ExternalCommand::Elect: asks for no more than a vote.
Campaign(n) ==
  LET s == node[n] IN
  /\ n \in role.campaigners /\ is_voter(s.ms.effective.m, n) /\ s.vote[1] < MaxTerm
  /\ Step(n, elect(s), {}) /\ Free

HandleVoteRequest(req, expired) ==
  /\ req.type = "Vote"
  /\ Step(req.to, handle_vote_req(node[req.to], req, expired), {req}) /\ Free

\* Notification::VoteResponse; does_candidate_vote_match drops a late answer.
HandleVoteResponse(resp) ==
  LET s == node[resp.to] IN
  /\ resp.type = "VoteResp"
  /\ Step(resp.to, IF s.candidate.vote = resp.cand THEN handle_vote_resp(s, resp) ELSE s, {resp})
  /\ Free

HandleAppendEntries(req) ==
  /\ req.type = "Append"
  /\ Step(req.to, handle_append_entries(node[req.to], req), {req}) /\ Free

\* does_leader_vote_match and does_replication_session_match.
VoteMatch(s, resp)    == s.leader # NoLeader /\ s.leader.vote = resp.sess[1]
SessionMatch(s, resp) == VoteMatch(s, resp) /\ s.ms.effective.index = resp.sess[2]

\* update_progress with what the stream or the heartbeat worker reports.
Progress(s, resp) ==
  LET e    == s.leader.progress[resp.from]
      last == IF resp.count = 0 THEN resp.prev ELSE e.inflight[2]
  IN  CASE resp.result = "Conflict" ->
             update_conflicting(s, resp.from, resp.prev[3], resp.kind = "data")
        [] resp.result = "Success" /\ resp.kind = "data" -> update_matching(s, resp.from, last)
        [] OTHER -> s

\* The task that waits for a read: a higher vote ends the read and is reported
\* to the core, any other answer confirms that the node led.
ReadAnswered(s, resp) ==
  IF resp.result = "HigherVote"
  THEN LET s1 == [s EXCEPT !.reads = {}]
       IN  IF VoteMatch(s, resp) THEN TryUpdateVote(s1, resp.vote) ELSE s1
  ELSE [s EXCEPT !.reads = {[r EXCEPT !.granted = @ \cup {resp.from}] : r \in @}]

HandleAppendResponse(resp) ==
  LET s == node[resp.to] IN
  /\ resp.type = "AppendResp"
  /\ Step(resp.to,
          CASE resp.kind = "read" -> ReadAnswered(s, resp)
            [] resp.kind # "read" /\ resp.result = "HigherVote" /\ VoteMatch(s, resp) ->
                 TryUpdateVote(s, resp.vote)
            [] resp.kind # "read" /\ resp.result # "HigherVote" /\ SessionMatch(s, resp) -> Progress(s, resp)
            [] OTHER -> s,
          {resp})
  /\ Free

\* The stream or worker gives a request up.  The request may still arrive,
\* its answer may not; only a request with entries is reported.
RpcTimeout(msg) ==
  LET s == node[IF msg.type = "Append" THEN msg.from ELSE msg.to]
      t == IF msg.type = "Append" THEN msg.to ELSE msg.from
  IN  /\ \/ msg.type = "Append" /\ msg.live
         \/ msg.type = "AppendResp"
      /\ msg.kind \notin {"heartbeat", "read"}
      /\ Spend("timeouts")
      /\ Step(s.id,
              [s EXCEPT !.leader = IF msg.kind = "data" /\ SessionMatch(s, msg)
                                   THEN [@ EXCEPT !.progress[t].inflight = <<>>] ELSE @,
                        !.out = IF msg.type = "Append" THEN {[msg EXCEPT !.live = FALSE]} ELSE {}],
              {msg})

\* Replicate::Committed: an idle stream tells its target what is committed.
SendCommitted(n, t) ==
  LET s == node[n]
      e == s.leader.progress[t]
  IN  /\ s.leader # NoLeader /\ t \in DOMAIN s.leader.progress \ {n}
      /\ e.inflight = <<>> /\ Less(e.sent, s.committed)
      /\ ~\E msg \in net : /\ msg.type \in {"Append", "AppendResp"}
                           /\ msg.kind = "commit" /\ msg.sess = Session(s)
                           /\ t \in {msg.to, msg.from}
      /\ Step(n, [s EXCEPT !.leader.progress[t].sent = s.committed,
                           !.out = {AppendMsg(s, t, "commit", e.matching, <<>>)}], {})
      /\ Free

\* HeartbeatWorker: no entries, after the last one that is committed.  One
\* worker has one request out.
SendHeartbeat(n, t) ==
  LET s == node[n] IN
  /\ s.leader # NoLeader /\ t \in DOMAIN s.leader.progress \ {n}
  /\ ~\E msg \in net : /\ msg.type \in {"Append", "AppendResp"}
                       /\ msg.kind = "heartbeat" /\ msg.sess = Session(s)
                       /\ t \in {msg.to, msg.from}
  /\ Spend("heartbeats")
  /\ Step(n, [s EXCEPT !.out = {AppendMsg(s, t, "heartbeat", s.committed, <<>>)}], {})

\* Faulty: reads what is committed, whoever committed it.
BadReadRequest(s) ==
  [s EXCEPT !.reads = {[id |-> s.committed, m |-> s.ms.effective.m, granted |-> {s.id}, seen |-> acked]},
            !.out = {[AppendMsg(s, t, "read", s.leader.progress[t].matching, <<>>) EXCEPT !.vote = s.vote] :
                       t \in voter_ids(s.leader.m) \ {s.id}}]

\* handle_check_is_leader_request, ReadPolicy::ReadIndex.  One read at a time.
ReadRequest(s) ==
  [s EXCEPT !.reads = {[id |-> get_read_log_id(s), m |-> s.ms.effective.m,
                        granted |-> {s.id}, seen |-> acked]},
            !.out = IF is_quorum(s.ms.effective.m, {s.id}) THEN {}
                    ELSE {[AppendMsg(s, t, "read", s.leader.progress[t].matching, <<>>)
                             EXCEPT !.vote = s.vote] : t \in voter_ids(s.leader.m) \ {s.id}}]

CheckIsLeader(n) ==
  LET s == node[n] IN
  /\ s.leader # NoLeader /\ n \in role.readers /\ s.reads = {}
  /\ Spend("reads") /\ Step(n, ReadRequest(s), {})

\* OctopiiNode::propose on a node that has a leader state.
ClientWrite(n) ==
  LET s  == node[n]
      v  == left.writes
      at == s.leader.last[3] + 1
      s1 == leader_append_entries(
              [s EXCEPT !.responders = {r \in @ : r.index # at} \cup {[index |-> at, v |-> v]}],
              Normal(v))
  IN  /\ s.leader # NoLeader /\ n \in role.writers /\ Len(s.log) < MaxLog
      /\ Spend("writes") /\ Step(n, s1, {})

\* ManagementApi::change_membership and add_learner: one change at a time.
ChangeMembership(n, c) ==
  LET s == node[n]
      m == change(s.ms.effective.m, c, FALSE)
  IN  /\ s.leader # NoLeader /\ n \in role.writers /\ Len(s.log) < MaxLog
      /\ ensure_committed(s.ms) /\ ensure_valid(m)
      /\ Spend("changes") /\ Step(n, leader_append_entries(s, Config(m)), {})

\* Engine::leader_step_down, at a tick after the last membership is applied.
StepDown(n) ==
  LET s == node[n] IN
  /\ s.leader # NoLeader /\ s.ms.effective.index <= s.committed[3] /\ ~is_leading(s)
  /\ Step(n, become_following(s), {}) /\ Free

\* StorageHelper::get_membership: the last two memberships in the log.
get_membership(s) ==
  LET ms == FollowerAppendMembership(NewMembershipState, s.log, 0)
  IN  IF ms.effective.index <= s.committed[3] THEN [ms EXCEPT !.committed = ms.effective] ELSE ms

\* get_initial_state: what is on disk, and the vote as the last accepted IO.
Restarted(s) ==
  [NewNode(s.id) EXCEPT !.log = s.log, !.vote = s.vote, !.committed = s.committed,
     !.ms = get_membership(s), !.accepted.vote = s.vote]

\* Engine::startup: a node with its own committed vote leads at once.
startup(s) == IF is_leader(s) THEN update_internal_server_state(s) ELSE s

\* A crash, and the start after it.  Requests of the node are orphans.
Restart(n) ==
  LET own   == {msg \in net : msg.from = n /\ msg.type = "Append"}
      lost  == {msg \in net : msg.to = n /\ msg.type \in {"VoteResp", "AppendResp"}}
      s     == startup(Restarted(node[n]))
      after == [s EXCEPT !.out = @ \cup {[msg EXCEPT !.live = FALSE] : msg \in own}]
  IN  /\ IsInitialized(node[n])
      /\ Spend("crashes") /\ Step(n, after, own \cup lost)

-----------------------------------------------------------------------------
ClusterInit(roles, budget) ==
  /\ node = [n \in Nodes |-> NewNode(n)] /\ net = {} /\ acked = {} /\ served = {}
  /\ role = roles /\ left = budget

ClusterNext ==
  \/ \E n \in Nodes :
       \/ Initialize(n)
       \/ TickElection(n)
       \/ Campaign(n)
       \/ ClientWrite(n)
       \/ CheckIsLeader(n)
       \/ StepDown(n)
       \/ Restart(n)
       \/ \E t \in Nodes : SendCommitted(n, t) \/ SendHeartbeat(n, t)
       \/ \E op \in {"AddNodes", "AddVoterIds", "RemoveVoters"}, t \in role.changed :
            ChangeMembership(n, [op |-> op, ids |-> {t}])
  \/ \E msg \in net :
       \/ \E expired \in BOOLEAN : HandleVoteRequest(msg, expired)
       \/ HandleVoteResponse(msg)
       \/ HandleAppendEntries(msg)
       \/ HandleAppendResponse(msg)
       \/ RpcTimeout(msg)

=============================================================================
