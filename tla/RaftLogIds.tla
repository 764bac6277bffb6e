----------------------------- MODULE RaftLogIds -----------------------------
(***************************************************************************)
(* openraft's compressed list of the log ids a node holds                  *)
(* (engine/log_id_list.rs): only the first id of every leader, and the     *)
(* last id.  Everything the engine knows about its log it reads from this  *)
(* list: whether an entry conflicts, where the own term began, what to     *)
(* send.                                                                   *)
(*                                                                         *)
(* A log id is [lead, index].  Beside the list the module keeps the plain  *)
(* sequence of ids that the list stands for.                               *)
(***************************************************************************)
EXTENDS Integers, Sequences, SequencesExt, FiniteSetsExt

CONSTANTS MaxLead,    \* bound on leaders
          MaxLogIndex \* bound on log indexes

ASSUME LogIdsAssumption == {MaxLead, MaxLogIndex} \subseteq Nat \ {0}

VARIABLES key_log_ids, \* LogIdList
          ids          \* the ids it stands for: the last purged one first, if any

logIdVars == <<key_log_ids, ids>>

LogId(lead, index) == [lead |-> lead, index |-> index]

Lead(list) == list[Len(list)].lead

\* Log indexes start at 0; next_index of an empty list is 0.
NextIndex(list) == IF list = <<>> THEN 0 ELSE list[Len(list)].index + 1

\* The type of the state.  The list is in order and holds one id of a leader,
\* of the last one two.
LogIdsTypeOK ==
  /\ key_log_ids \in Seq([lead : 0..MaxLead, index : 0..MaxLogIndex])
  /\ \A i \in 1..(Len(key_log_ids) - 1) :
       /\ key_log_ids[i].index < key_log_ids[i + 1].index
       /\ i < Len(key_log_ids) - 1 => key_log_ids[i].lead < key_log_ids[i + 1].lead
  /\ ids \in Seq([lead : 0..MaxLead, index : 0..MaxLogIndex])

LogIdsInit == key_log_ids = <<>> /\ ids = <<>>

\* LogIdList::append.
AppendId(list, id) ==
  LET l == Len(list) IN
  IF l >= 2 /\ list[l - 1].lead = list[l].lead
  THEN [list EXCEPT ![l] = id]
  ELSE Append(list, id)

\* LogIdList::extend_from_same_leader.
extend_from_same_leader(list, new) ==
  IF new = <<>> THEN list
  ELSE LET first == AppendId(list, new[1])
       IN  IF Len(new) > 1 THEN AppendId(first, new[Len(new)]) ELSE first

\* LogIdList::extend: one id of every new leader, and the last one.
extend(list, new) ==
  LET step(acc, i) ==
        LET l1 == IF acc = <<>> \/ Lead(acc) # new[i].lead
                  THEN AppendId(acc, new[i]) ELSE acc
        IN  IF i = Len(new) /\ l1[Len(l1)] # new[i] THEN AppendId(l1, new[i]) ELSE l1
  IN  FoldLeft(step, list, [i \in DOMAIN new |-> i])

\* binary_search_by on the index: how many ids of the list lie before it.
Before(list, index) == Cardinality({i \in DOMAIN list : list[i].index < index})

\* Faulty: leaves out the last id when the cut falls inside a leader's range.
BadTruncateIds(list, at) == SubSeq(list, 1, Before(list, at))

\* LogIdList::truncate.
TruncateIds(list, at) ==
  LET i    == Before(list, at)
      kept == SubSeq(list, 1, i)
  IN  IF i = Len(list) THEN list
      ELSE IF kept # <<>> /\ kept[i].index < at - 1
           THEN AppendId(kept, LogId(kept[i].lead, at - 1))
           ELSE kept

\* LogIdList::purge; the purged id itself stays, as the first one.
PurgeIds(list, upto) ==
  IF upto.index >= NextIndex(list) THEN <<upto>>
  ELSE IF upto.index < list[1].index THEN list
  ELSE LET i == Before(list, upto.index)
       IN  IF list[i + 1].index = upto.index
           THEN SubSeq(list, i + 1, Len(list))
           ELSE [SubSeq(list, i, Len(list)) EXCEPT ![1].index = upto.index]

\* LogIdList::ref_at: the leader of the entry at an index, -1 if there is none.
ref_at(list, index) ==
  LET i == Before(list, index) IN
  IF i < Len(list) /\ list[i + 1].index = index THEN list[i + 1].lead
  ELSE IF i = 0 \/ i = Len(list) THEN -1
  ELSE list[i].lead

\* LogIdList::by_last_leader: the first and the last id of the last leader.
by_last_leader(list) ==
  LET l == Len(list) IN
  IF l >= 2 /\ list[l].lead = list[l - 1].lead
  THEN <<list[l - 1], list[l]>>
  ELSE <<list[l], list[l]>>

PushKey(res, id) ==
  IF res = <<>> \/ res[Len(res)].lead < id.lead THEN Append(res, id) ELSE res

\* LogIdList::get_key_log_ids: a binary search over the stored entries, with
\* an explicit stack of ranges.  One step takes the range on top.
SearchStep(log, s) ==
  LET first == s.stack[Len(s.stack)][1]
      last  == s.stack[Len(s.stack)][2]
      rest  == SubSeq(s.stack, 1, Len(s.stack) - 1)
      mid   == log[(first.index + last.index) \div 2 - log[1].index + 1]
  IN  IF first.lead = last.lead THEN [stack |-> rest, res |-> PushKey(s.res, first)]
      ELSE IF first.index + 1 = last.index
      THEN [stack |-> rest, res |-> Append(PushKey(s.res, first), last)]
      ELSE IF first.lead = mid.lead
      THEN [stack |-> Append(rest, <<mid, last>>), res |-> PushKey(s.res, first)]
      ELSE IF mid.lead = last.lead
      THEN [s EXCEPT !.stack = Append(rest, <<first, mid>>)]
      ELSE [s EXCEPT !.stack = rest \o <<<<mid, last>>, <<first, mid>>>>]

get_key_log_ids(log) ==
  LET last == log[Len(log)]
      step(s, i) == IF s.stack = <<>> THEN s ELSE SearchStep(log, s)
      found == FoldLeft(step, [stack |-> <<<<log[1], last>>>>, res |-> <<>>],
                        [i \in 1..(4 * Len(log)) |-> i]).res
  IN  IF found[Len(found)] # last THEN Append(found, last) ELSE found

-----------------------------------------------------------------------------
(* The operations of the engine on its list.                               *)

\* Leaders follow one another in a log in their order.
NotBefore(lead) == \A i \in DOMAIN ids : lead >= ids[i].lead

\* A leader appends ids of its own.
AppendOwn(lead, k) ==
  LET new == [i \in 1..k |-> LogId(lead, NextIndex(ids) + i - 1)] IN
  /\ NextIndex(ids) + k - 1 <= MaxLogIndex
  /\ NotBefore(lead)
  /\ key_log_ids' = extend_from_same_leader(key_log_ids, new)
  /\ ids' = ids \o new

\* A follower appends what a leader sends: entries of one or two leaders.
AppendReceived(lead1, k1, lead2, k2) ==
  LET new == [i \in 1..(k1 + k2) |->
                LogId(IF i <= k1 THEN lead1 ELSE lead2, NextIndex(ids) + i - 1)]
  IN  /\ NextIndex(ids) + k1 + k2 - 1 <= MaxLogIndex
      /\ NotBefore(lead1)
      /\ lead1 < lead2
      /\ key_log_ids' = extend(key_log_ids, new)
      /\ ids' = ids \o new

\* A follower cuts off a conflicting suffix; the purged id is never cut.
Truncate(at) ==
  /\ ids # <<>> /\ at > ids[1].index /\ at < NextIndex(ids)
  /\ key_log_ids' = TruncateIds(key_log_ids, at)
  /\ ids' = SelectSeq(ids, LAMBDA id : id.index < at)

\* The log is purged up to an entry it holds.
Purge(i) ==
  /\ i \in DOMAIN ids
  /\ key_log_ids' = PurgeIds(key_log_ids, ids[i])
  /\ ids' = SubSeq(ids, i, Len(ids))

\* A snapshot that reaches beyond the log replaces it.
PurgeBeyond(lead, index) ==
  /\ index >= NextIndex(ids) /\ NotBefore(lead)
  /\ key_log_ids' = PurgeIds(key_log_ids, LogId(lead, index))
  /\ ids' = <<LogId(lead, index)>>

\* The node restarts and reads the list from the stored entries.
Reload ==
  /\ ids # <<>>
  /\ key_log_ids' = get_key_log_ids(ids)
  /\ UNCHANGED ids

LogIdsNext ==
  \/ \E lead \in 0..MaxLead, k \in 1..3 : AppendOwn(lead, k)
  \/ \E l1, l2 \in 0..MaxLead, k1, k2 \in 1..2 : AppendReceived(l1, k1, l2, k2)
  \/ \E at \in 1..MaxLogIndex : Truncate(at)
  \/ \E i \in DOMAIN ids : Purge(i)
  \/ \E lead \in 0..MaxLead, index \in 0..MaxLogIndex : PurgeBeyond(lead, index)
  \/ Reload

-----------------------------------------------------------------------------
\* The list answers for every index what the log holds there, and nothing for
\* an index outside of it, after any sequence of appends, truncations, purges
\* and restarts (ref_at, the base of has_log_id and prev_log_id).
ListAnswersForLog ==
  \A index \in 0..MaxLogIndex :
    ref_at(key_log_ids, index) =
      IF ids # <<>> /\ index \in ids[1].index..(NextIndex(ids) - 1)
      THEN ids[index - ids[1].index + 1].lead
      ELSE -1

\* by_last_leader is exactly the range of the last leader's ids, from which a
\* restarted leader takes its noop entry (RaftState::new_leader).
LastLeaderRange ==
  ids # <<>> =>
    LET own == {i \in DOMAIN ids : ids[i].lead = Lead(ids)}
    IN  by_last_leader(key_log_ids) = <<ids[Min(own)], ids[Max(own)]>>

\* A restart changes nothing: the list that get_key_log_ids finds by searching
\* the stored entries is the one the running node had kept up to date.
RestartFindsSameList == ids # <<>> => key_log_ids = get_key_log_ids(ids)
=============================================================================
