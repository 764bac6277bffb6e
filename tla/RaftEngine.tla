----------------------------- MODULE RaftEngine -----------------------------
(***************************************************************************)
(* The engine of openraft (vendored under octopii/openraft): what one node *)
(* knows, and what it does with an event, as functions from a node to a    *)
(* node.  A node also carries what it sends (out) and the client writes it *)
(* answers (done) during one event; both are empty between events.         *)
(*                                                                         *)
(* A vote is <<term, node, committed>> and a log id <<term, node, index>>, *)
(* both in lexicographic order (leader_id_adv); indexes start at 1 and     *)
(* <<0, 0, 0>> is None.  The openraft index of the next entry of a log is  *)
(* then the number of its entries.  The log is the one on disk: octopii's  *)
(* store has written a vote or an entry when its call returns, before      *)
(* anything later in the command queue runs.                               *)
(***************************************************************************)
EXTENDS RaftMembership, FiniteSetsExt

CONSTANTS Probe,      \* how far back a search for the matching entry starts (16)
          MaxPayload  \* max_payload_entries

ASSUME EngineAssumption == Probe \in Nat \ {0} /\ MaxPayload \in Nat \ {0}

None == <<0, 0, 0>>

Less(a, b) ==
  \/ a[1] < b[1]
  \/ a[1] = b[1] /\ a[2] < b[2]
  \/ a[1] = b[1] /\ a[2] = b[2] /\ a[3] < b[3]

LeaderId(a)     == <<a[1], a[2]>>
Committed(vote) == <<vote[1], vote[2], 1>>
IsCommitted(vote) == vote[3] = 1

Normal(v) == [lead |-> <<0, 0>>, v |-> v, m |-> NoMembership]
Blank     == Normal(0)
Config(m) == [lead |-> <<0, 0>>, v |-> 0, m |-> m]

NoLeader    == [vote |-> None]
NoCandidate == [vote |-> None]
NoIO        == [vote |-> None, last |-> None]

NewNode(id) ==
  [id |-> id, vote |-> None, log |-> <<>>, ms |-> NewMembershipState,
   accepted |-> NoIO, cluster |-> NoIO, committed |-> None,
   leader |-> NoLeader, candidate |-> NoCandidate,
   responders |-> {}, reads |-> {}, out |-> {}, done |-> {}]

-----------------------------------------------------------------------------
(* What is in the log.                                                     *)

get_log_id(s, i) ==
  IF i \in DOMAIN s.log THEN <<s.log[i].lead[1], s.log[i].lead[2], i>> ELSE None

last_log_id(s) == get_log_id(s, Len(s.log))

\* A committed entry is the leader's, whatever id the leader asks for.
has_log_id(s, id) == id[3] <= s.committed[3] \/ get_log_id(s, id[3]) = id

contains(s)   == s.id \in s.ms.effective.m.nodes
is_leading(s) == contains(s) /\ s.vote[2] = s.id
is_leader(s)  == is_leading(s) /\ IsCommitted(s.vote)
IsInitialized(s) == s.log # <<>> \/ s.vote # None

\* An IOId or LogIOId is ordered by its vote, then by its log id.
IOLess(io, vote, last) ==
  \/ Less(io.vote, vote)
  \/ io.vote = vote /\ Less(io.last, last)

accept_log_io(s, vote, last) ==
  IF IOLess(s.accepted, vote, last)
  THEN [s EXCEPT !.accepted = [vote |-> vote, last |-> last]]
  ELSE s

\* Applying up to the new committed id answers the clients that wait for it,
\* each by the index its entry was given.
Apply(s) ==
  LET ready == {r \in s.responders : r.index <= s.committed[3]}
  IN  [s EXCEPT !.responders = @ \ ready, !.done = @ \cup {r.v : r \in ready}]

update_local_committed(s, id) ==
  IF Less(s.committed, id)
  THEN Apply([s EXCEPT !.committed = id, !.ms = CommitMembership(@, id[3])])
  ELSE s

RaiseCluster(s, vote, last) ==
  IF IOLess(s.cluster, vote, last)
  THEN [s EXCEPT !.cluster = [vote |-> vote, last |-> last]]
  ELSE s

\* IOState::calculate_local_committed.
LocalCommitted(s) ==
  IF IsCommitted(s.accepted.vote) /\ ~Less(s.accepted.vote, s.cluster.vote)
  THEN IF Less(s.accepted.last, s.cluster.last) THEN s.accepted.last ELSE s.cluster.last
  ELSE None

\* RaftState::update_committed, with what a leader says is committed.
update_committed(s, vote, last) ==
  LET s1 == RaiseCluster(s, vote, last) IN update_local_committed(s1, LocalCommitted(s1))

-----------------------------------------------------------------------------
(* Replication, on the leader.                                             *)

\* ProgressEntry::empty; sent is what the stream has been told is committed.
EmptyEntry(end, sent) ==
  [matching |-> None, inflight |-> <<>>, searching_end |-> end, sent |-> sent]

Session(s) == <<s.leader.vote, s.ms.effective.index>>

AppendMsg(s, to, kind, prev, entries) ==
  [type |-> "Append", from |-> s.id, to |-> to, kind |-> kind, sess |-> Session(s),
   vote |-> s.leader.vote, prev |-> prev, entries |-> entries,
   commit |-> s.committed, live |-> TRUE]

\* ProgressEntry::calc_mid.  The subtraction is unsigned: a searching_end
\* below the matching entry wraps around to a place far behind the log.
calc_mid(s, e) ==
  LET d == e.searching_end - e.matching[3]
  IN  IF d >= 0 THEN e.matching[3] + (d \div Probe) * (Probe \div 2) ELSE Len(s.log) + 1

\* The range ProgressEntry::next_send picks: <<prev, last>>, empty for none.
NextRange(s, e) ==
  LET start == calc_mid(s, e)
      end   == Min({start + MaxPayload, Len(s.log)})
  IN  IF e.inflight # <<>> \/ start = end THEN <<>>
      ELSE <<get_log_id(s, start), get_log_id(s, end)>>

initiate_replication(s) ==
  LET range == [t \in DOMAIN s.leader.progress \ {s.id} |-> NextRange(s, s.leader.progress[t])]
      send  == {t \in DOMAIN range : range[t] # <<>>}
  IN  [s EXCEPT
        !.leader.progress = [t \in DOMAIN @ |->
          IF t \in send THEN [@[t] EXCEPT !.inflight = range[t], !.sent = s.committed] ELSE @[t]],
        !.out = @ \cup {AppendMsg(s, t, "data", range[t][1],
                          SubSeq(s.log, range[t][1][3] + 1, range[t][2][3])) : t \in send}]

\* rebuild_replication_streams: requests of the old streams are forgotten.
rebuild_replication_streams(s) ==
  [s EXCEPT !.leader.progress = [t \in DOMAIN @ |->
     IF t = s.id THEN @[t] ELSE [@[t] EXCEPT !.inflight = <<>>, !.sent = s.committed]]]

\* LeaderHandler::get_read_log_id.
get_read_log_id(s) == IF Less(s.leader.noop, s.committed) THEN s.committed ELSE s.leader.noop

\* What VecProgress::update returns.
QuorumAccepted(l) ==
  LET granted == {i \in 1..l.last[3] :
                    is_quorum(l.m, {t \in DOMAIN l.progress : l.progress[t].matching[3] >= i})}
      top     == IF granted = {} THEN 0 ELSE Max(granted)
      who     == {t \in DOMAIN l.progress : l.progress[t].matching[3] = top}
  IN  IF top = 0 THEN None ELSE l.progress[CHOOSE t \in who : TRUE].matching

\* try_commit_quorum_accepted.
TryCommit(s, id) ==
  IF id # None /\ LeaderId(id) # LeaderId(s.vote) THEN s
  ELSE update_local_committed(RaiseCluster(s, Committed(s.vote), id), id)

\* Inflight::ack and Updater::update_matching.
Acked(e, id) ==
  [e EXCEPT !.matching = id,
            !.inflight = IF Less(id, e.inflight[2]) THEN <<id, e.inflight[2]>> ELSE <<>>,
            !.searching_end = Max({@, id[3]})]

update_matching(s, t, id) ==
  LET s1 == [s EXCEPT !.leader.progress[t] = Acked(@, id)]
  IN  TryCommit(s1, QuorumAccepted(s1.leader))

\* Updater::update_conflicting, with the index of the entry that is missing.
update_conflicting(s, t, conflict, has_payload) ==
  [s EXCEPT !.leader.progress[t] =
     [@ EXCEPT !.inflight = IF has_payload THEN <<>> ELSE @,
               !.searching_end = Min({@, conflict - 1})]]

\* The leader's own copy counts as soon as it is written.
update_local_progress(s) ==
  IF s.id \in DOMAIN s.leader.progress /\ Less(s.leader.progress[s.id].matching, s.leader.last)
  THEN update_matching([s EXCEPT !.leader.progress[s.id].inflight = <<None, s.leader.last>>],
                       s.id, s.leader.last)
  ELSE s

\* ReplicationHandler::append_membership: nodes that stay keep their entry.
LeaderAppendMembership(s, m) ==
  LET s1 == [s EXCEPT
               !.ms = AppendMembership(@, [index |-> Len(s.log), lead |-> LeaderId(s.leader.vote), m |-> m]),
               !.leader.m = m,
               !.leader.progress = [t \in voter_ids(m) \cup learner_ids(m) |->
                  IF t \in DOMAIN @ THEN @[t] ELSE EmptyEntry(Len(s.log), s.committed)]]
  IN  rebuild_replication_streams(s1)

\* leader_append_entries, with one entry; its index follows the leader's last.
leader_append_entries(s, entry) ==
  LET l  == s.leader
      id == <<l.vote[1], l.vote[2], l.last[3] + 1>>
      s1 == accept_log_io([s EXCEPT
              !.log = Append(SubSeq(@, 1, l.last[3]), [entry EXCEPT !.lead = LeaderId(l.vote)]),
              !.leader.last = id], l.vote, id)
      s2 == IF entry.m = NoMembership THEN s1 ELSE LeaderAppendMembership(s1, entry.m)
  IN  update_local_progress(initiate_replication(s2))

-----------------------------------------------------------------------------
(* Votes and leadership.                                                   *)

\* Leader::new.
LeaderNew(vote, m, last, noop, committed) ==
  [vote |-> Committed(vote), m |-> m, last |-> last, noop |-> noop,
   progress |-> [t \in voter_ids(m) \cup learner_ids(m) |-> EmptyEntry(last[3], committed)]]

\* RaftState::new_leader: a node that finds its own committed vote.  Its first
\* own entry, if there is one, is the one that began this leadership.
new_leader(s) ==
  LET own == {i \in DOMAIN s.log : s.log[i].lead = LeaderId(s.vote)}
  IN  LeaderNew(s.vote, s.ms.effective.m, last_log_id(s),
        <<s.vote[1], s.vote[2], IF own = {} THEN Len(s.log) + 1 ELSE Min(own)>>, s.committed)

become_leader(s) ==
  LET s1 == [s EXCEPT !.leader = new_leader(s)]
      s2 == accept_log_io(s1, s1.leader.vote, s1.leader.last)
  IN  IF s.leader # NoLeader /\ LeaderId(s.leader.vote) = LeaderId(s.vote)
      THEN [s EXCEPT !.leader.vote = Committed(s.vote)]
      ELSE IF Less(s2.leader.last, s2.leader.noop) THEN leader_append_entries(s2, Blank)
      ELSE update_local_progress(initiate_replication(s2))

become_following(s) == [s EXCEPT !.leader = NoLeader, !.candidate = NoCandidate]

update_internal_server_state(s) ==
  IF is_leader(s) THEN become_leader(s)
  ELSE IF is_leading(s) THEN s
  ELSE become_following(s)

\* VoteHandler::update_vote, for a vote that is not below the node's own.
update_vote(s, vote) ==
  update_internal_server_state(
    IF Less(s.vote, vote) THEN accept_log_io([s EXCEPT !.vote = vote], vote, None) ELSE s)

TryUpdateVote(s, vote) == IF Less(vote, s.vote) THEN s ELSE update_vote(s, vote)

\* Engine::elect.  The node's own grant reaches it as an answer before any
\* other; it is one of its own only if no other answer is needed.
elect(s) ==
  LET vote == <<s.vote[1] + 1, s.id, 0>>
      last == last_log_id(s)
      m    == s.ms.effective.m
      own  == {s.id}
      s1   == update_vote([s EXCEPT !.candidate =
                [vote |-> vote, last |-> last, m |-> m,
                 granted |-> IF is_quorum(m, own) THEN {} ELSE own]], vote)
  IN  [s1 EXCEPT !.out = @
        \cup {[type |-> "Vote", from |-> s.id, to |-> t, vote |-> vote, last |-> last] :
                 t \in voter_ids(m) \ {s.id}}
        \cup {[type |-> "VoteResp", from |-> s.id, to |-> s.id, cand |-> vote, vote |-> vote,
                last |-> last, granted |-> TRUE] : t \in {u \in own : is_quorum(m, own)}}]

\* Engine::initialize: the first entry has the default log id, index 0.
initialize(s, m) ==
  elect([s EXCEPT !.log = <<Config(m)>>,
                  !.ms  = AppendMembership(@, [index |-> 1, lead |-> <<0, 0>>, m |-> m])])

\* Faulty: does not compare the logs.
BadVoteOk(s, req, expired) ==
  (~IsCommitted(s.vote) \/ expired) /\ ~Less(req.vote, s.vote)

\* A vote request is granted if no leader holds a lease, the candidate's log
\* is not behind and its vote is not below the node's.
VoteOk(s, req, expired) ==
  /\ ~IsCommitted(s.vote) \/ expired
  /\ ~Less(req.last, last_log_id(s))
  /\ ~Less(req.vote, s.vote)

handle_vote_req(s, req, expired) ==
  LET ok == VoteOk(s, req, expired)
      s1 == IF ok THEN update_vote(s, req.vote) ELSE s
  IN  [s1 EXCEPT !.out = @ \cup
        {[type |-> "VoteResp", from |-> s.id, to |-> req.from, cand |-> req.vote,
          vote |-> s1.vote, last |-> last_log_id(s1), granted |-> ok]}]

\* establish_leader: a leader of the candidate's last log id.
establish_leader(s) ==
  LET c    == s.candidate
      s1   == [s EXCEPT !.candidate = NoCandidate]
      noop == <<c.vote[1], c.vote[2], c.last[3] + 1>>
      s2   == update_vote([s1 EXCEPT !.leader = LeaderNew(c.vote, c.m, c.last, noop, s.committed)],
                          Committed(c.vote))
  IN  IF s.leader # NoLeader /\ ~Less(s.leader.vote, c.vote) THEN s1
      ELSE leader_append_entries(accept_log_io(s2, Committed(c.vote), c.last), Blank)

handle_vote_resp(s, resp) ==
  LET s1 == [s EXCEPT !.candidate.granted = @ \cup {resp.from}]
  IN  IF resp.granted /\ resp.vote = s.candidate.vote
      THEN IF is_quorum(s1.candidate.m, s1.candidate.granted) THEN establish_leader(s1) ELSE s1
      ELSE TryUpdateVote(s, <<resp.vote[1], resp.vote[2], 0>>)

-----------------------------------------------------------------------------
(* Following.                                                              *)

\* FollowingHandler::truncate_logs, with the responders RaftCore drops.
truncate_logs(s, since) ==
  IF since > Len(s.log) THEN s
  ELSE [s EXCEPT !.log = SubSeq(@, 1, since - 1), !.ms = TruncateMembership(@, since),
                 !.responders = {r \in @ : r.index < since}]

\* The memberships among new entries become effective one after the other.
FollowerAppendMembership(ms, entries, from) ==
  LET at    == {i \in DOMAIN entries : entries[i].m # NoMembership}
      st(i) == [index |-> from + i, lead |-> entries[i].lead, m |-> entries[i].m]
      last  == Max(at)
  IN  CASE at = {}             -> ms
        [] Cardinality(at) = 1 -> AppendMembership(ms, st(last))
        [] OTHER               -> [committed |-> st(Max(at \ {last})), effective |-> st(last)]

\* FollowingHandler::append_entries and do_append_entries: from the first
\* entry that is not in the log on, the log is replaced.
AppendReceived(s, vote, prev, entries) ==
  LET id(i)  == <<entries[i].lead[1], entries[i].lead[2], prev[3] + i>>
      last   == IF entries = <<>> THEN prev ELSE id(Len(entries))
      differ == {i \in DOMAIN entries : ~has_log_id(s, id(i))}
      first  == Min(differ)
      new    == SubSeq(entries, first, Len(entries))
      s1     == accept_log_io(s, vote, last)
      s2     == truncate_logs(s1, prev[3] + first)
  IN  IF differ = {} THEN s1
      ELSE [s2 EXCEPT !.log = @ \o new, !.ms = FollowerAppendMembership(@, new, Len(s2.log))]

AppendResp(s, req, result) ==
  IF req.live
  THEN {[type |-> "AppendResp", from |-> s.id, to |-> req.from, kind |-> req.kind,
         sess |-> req.sess, result |-> result, vote |-> s.vote, prev |-> req.prev,
         count |-> Len(req.entries)]}
  ELSE {}

\* handle_append_entries_request.
handle_append_entries(s, req) ==
  LET s1 == update_vote(s, req.vote)
      s2 == AppendReceived(s1, req.vote, req.prev, req.entries)
      s3 == update_committed(s2, req.vote, req.commit)
  IN  CASE Less(req.vote, s.vote) ->
             [s EXCEPT !.out = AppendResp(s, req, "HigherVote")]
        [] ~Less(req.vote, s.vote) /\ ~has_log_id(s1, req.prev) ->
             [truncate_logs(s1, req.prev[3]) EXCEPT !.out = @ \cup AppendResp(s1, req, "Conflict")]
        [] OTHER ->
             [s3 EXCEPT !.out = @ \cup AppendResp(s1, req, "Success")]
=============================================================================
