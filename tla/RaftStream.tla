---------------------------- MODULE RaftStream ----------------------------
(***************************************************************************)
(* The replication stream of a leader to one target (openraft              *)
(* replication/mod.rs), with the part of RaftCore that drives it: the core *)
(* decides what to send (ProgressEntry::next_send) and records it as       *)
(* inflight, a task of its own reads the entries from the log store and    *)
(* sends them, and notifications come back through a bounded channel.  The *)
(* core purges the log meanwhile, and a membership change replaces the     *)
(* task: the core waits for the old one to end.  An optional log id is the *)
(* number of entries up to it, 0 for None.                                 *)
(***************************************************************************)
EXTENDS Integers, Sequences, SequencesExt, FiniteSetsExt

CONSTANTS MaxLast,      \* bound on entries of the leader's log
          MaxPayload,   \* config.max_payload_entries
          MidStep,      \* the 16 of calc_mid
          Capacity,     \* config.notification_channel_size
          MaxFaults,    \* bound on RPCs that fail, answer in part or see a higher vote
          MaxSessions,  \* bound on membership changes
          SnapshotRpc   \* whether the network can send a snapshot

ASSUME StreamAssumption ==
  /\ {MaxLast, MaxPayload, MidStep, Capacity} \subseteq Nat \ {0}
  /\ {MaxFaults, MaxSessions} \subseteq Nat
  /\ SnapshotRpc \in BOOLEAN

VARIABLES core,    \* the leader's log and the ProgressEntry of the target
          chan,    \* tx_repl / rx_event: what the core asks of the stream
          strm,    \* the task: ReplicationCore
          sender,  \* the task of send_snapshot
          inbox,   \* tx_notification / rx_notification
          target,  \* the log of the target
          faults   \* RPCs that failed

streamVars == <<core, chan, strm, sender, inbox, target, faults>>

NoInflight == [kind |-> "none", prev |-> 0, last |-> 0]

\* Inflight::logs.
Logs(prev, last) ==
  IF prev < last THEN [kind |-> "logs", prev |-> prev, last |-> last] ELSE NoInflight

SnapshotInflight == [kind |-> "snapshot", prev |-> 0, last |-> 0]

NoAction == NoInflight

\* Data::Committed: a heartbeat that carries the committed log id.
CommittedAction == [kind |-> "committed", prev |-> 0, last |-> 0]

\* Data::SnapshotCallback: how the snapshot went.  0 is an error.
Callback(end) == [kind |-> "callback", prev |-> 0, last |-> end]

\* Faulty: nothing is reported of a snapshot.
Badhas_payload(d) == d.kind \notin {"none", "committed", "callback"}

\* Data::has_payload.
has_payload(d) == d.kind \notin {"none", "committed"}

-----------------------------------------------------------------------------
(* ProgressEntry, as the core keeps it for the target. *)

\* ProgressEntry::empty.
EmptyEntry(end) == [matching |-> 0, inflight |-> NoInflight, searching_end |-> end]

\* ProgressEntry::calc_mid.
calc_mid(matching, end) == matching + ((end - matching) \div MidStep) * (MidStep \div 2)

\* ProgressEntry::next_send: what to send, unless something is inflight.
next_send(c) ==
  LET start == Max({calc_mid(c.e.matching, c.e.searching_end), c.purge_upto})
      end   == Min({start + MaxPayload, c.last})
  IN  IF c.e.inflight # NoInflight THEN c.e.inflight
      ELSE IF c.e.searching_end < c.purge_upto THEN SnapshotInflight
      ELSE Logs(start, end)

\* Inflight::ack.
ack(i, upto) == IF i.kind = "logs" THEN Logs(upto, i.last) ELSE NoInflight

\* Updater::update_matching.
update_matching(e, matching) ==
  [matching |-> matching, inflight |-> ack(e.inflight, matching),
   searching_end |-> Max({e.searching_end, matching})]

\* Updater::update_conflicting.  The index of a conflicting entry is one less
\* than the number of entries up to it.
update_conflicting(e, conflict, payload) ==
  [e EXCEPT !.inflight = IF payload THEN NoInflight ELSE @,
            !.searching_end = Min({@, conflict - 1})]

-----------------------------------------------------------------------------
(* The core. *)

\* ProgressEntry::is_log_range_inflight.
is_log_range_inflight(e, upto) == e.inflight.kind = "logs" /\ upto > e.inflight.prev

\* ReplicationHandler::try_purge_log.
try_purge_log(c) ==
  IF c.purge_upto > c.purged /\ ~(c.replicates /\ is_log_range_inflight(c.e, c.purge_upto))
  THEN [c EXCEPT !.purged = c.purge_upto] ELSE c

\* ReplicationHandler::initiate_replication: the progress entry afterwards.
initiate_replication(c) ==
  IF c.replicates THEN [c EXCEPT !.e.inflight = next_send(c)] ELSE c

\* The core's state and what it sends to the stream, if anything is newly
\* inflight.  While it waits for an old stream the commands stay queued.
Initiate(c) ==
  LET d == initiate_replication(c) IN
  /\ core' = d
  /\ chan' = IF d.e.inflight # c.e.inflight THEN Append(chan, d.e.inflight) ELSE chan

CoreRuns == core.leads /\ ~core.joining

\* A client's entry is appended.
Write ==
  /\ CoreRuns /\ core.last < MaxLast
  /\ Initiate([core EXCEPT !.last = @ + 1])
  /\ UNCHANGED <<strm, sender, inbox, target, faults>>

\* A quorum of the voters has more of the log (try_commit_quorum_accepted,
\* Command::ReplicateCommitted): every stream is told.
Commit ==
  /\ CoreRuns /\ core.committed < core.last
  /\ core' = [core EXCEPT !.committed = core.last]
  /\ chan' = IF core.replicates THEN Append(chan, CommittedAction) ELSE chan
  /\ UNCHANGED <<strm, sender, inbox, target, faults>>

\* A snapshot has been built, and the policy says how much of the log it
\* covers may go (schedule_policy_based_purge, try_purge_log).
SnapshotBuilt ==
  /\ CoreRuns /\ core.snapshot < core.committed
  /\ \E upto \in core.purge_upto..core.committed :
       core' = try_purge_log([core EXCEPT !.snapshot = core.committed, !.purge_upto = upto])
  /\ UNCHANGED <<chan, strm, sender, inbox, target, faults>>

\* Faulty: the membership of the session is not compared.
Baddoes_replication_session_match(session) == session > 0

\* RaftCore::does_replication_session_match.  The leader's vote does not change
\* while it leads, so the session is the log id of the membership.
does_replication_session_match(session) == session = core.session

\* ReplicationHandler::update_progress: a result, or an error that frees the
\* inflight slot, then the purge that may have waited for it.
update_progress(c, n) ==
  try_purge_log(
    [c EXCEPT !.e = CASE n.res = "matching" -> update_matching(c.e, n.at)
                      [] n.res = "conflict" -> update_conflicting(c.e, n.at, n.payload)
                      [] n.res = "error"    -> [c.e EXCEPT !.inflight = NoInflight]])

\* RaftCore::handle_notification, then the routine actions of the loop.
LeaderHandlesNotification ==
  /\ CoreRuns /\ inbox # <<>>
  /\ LET n == Head(inbox) IN
       IF n.res = "higher"
       THEN /\ core' = [core EXCEPT !.leads = FALSE, !.joining = TRUE]
            /\ chan' = chan
       ELSE Initiate(IF does_replication_session_match(n.session)
                     THEN update_progress(core, n) ELSE core)
  /\ inbox' = Tail(inbox)
  /\ UNCHANGED <<strm, sender, target, faults>>

\* A membership entry is appended (append_membership): the table is rebuilt,
\* nothing is inflight, and the streams are replaced.  The target stays, is
\* removed, or is added again, as a node that nothing is known of.
ChangeTarget ==
  /\ CoreRuns /\ core.last < MaxLast /\ core.changes < MaxSessions
  /\ \E stays \in BOOLEAN :
       LET last == core.last + 1
           e    == IF core.replicates THEN [core.e EXCEPT !.inflight = NoInflight]
                                      ELSE EmptyEntry(last)
       IN  core' = initiate_replication(
             [core EXCEPT !.last = last, !.session = last, !.changes = @ + 1,
                          !.joining = TRUE, !.replicates = stays,
                          !.e = IF stays THEN e ELSE EmptyEntry(0)])
  /\ UNCHANGED <<chan, strm, sender, inbox, target, faults>>

\* ReplicationCore::spawn, with the matching log id of the progress entry.
NewStream(session, matching) ==
  [pc |-> "drain", session |-> session, next_action |-> NoAction, matching |-> matching,
   backoff |-> FALSE, sending |-> FALSE, rpc |-> NoAction, rest |-> 0, out |-> <<>>]

\* RaftCore::remove_all_replication has seen the old task end; a new one is
\* spawned, and what initiate_replication queued behind that command is sent.
Joined ==
  /\ core.joining /\ strm.pc = "ended"
  /\ core' = [core EXCEPT !.joining = FALSE]
  /\ IF core.leads /\ core.replicates
     THEN /\ strm' = NewStream(core.session, core.e.matching)
          /\ chan' = SelectSeq(<<core.e.inflight>>, has_payload)
     ELSE strm' = strm /\ chan' = <<>>
  /\ UNCHANGED <<sender, inbox, target, faults>>

-----------------------------------------------------------------------------
(* The stream's task. *)

\* ReplicationCore::process_event: data is the next action; a committed log id
\* needs a message of its own only if there is none.
process_event(action, event) ==
  IF event = CommittedAction /\ action # NoAction THEN action ELSE event

\* The core has dropped its end of the channel.
Closed == core.joining

\* backoff_drain_events: until the time is over, events are only received.
Backoff ==
  /\ strm.pc = "backoff" /\ ~Closed
  /\ \/ /\ chan # <<>>
        /\ strm' = [strm EXCEPT !.next_action = process_event(@, Head(chan))]
        /\ chan' = Tail(chan)
     \/ strm' = [strm EXCEPT !.pc = "drain"] /\ chan' = chan
  /\ UNCHANGED <<core, sender, inbox, target, faults>>

\* drain_events: waits for an event if there is nothing to do, and takes all.
DrainEvents ==
  /\ strm.pc = "drain" /\ ~Closed
  /\ strm.next_action # NoAction \/ chan # <<>>
  /\ strm' = [strm EXCEPT !.pc = "act", !.next_action = FoldLeft(process_event, @, chan)]
  /\ chan' = <<>>
  /\ UNCHANGED <<core, sender, inbox, target, faults>>

\* Draining ends with ReplicationClosed, whatever was received before.
StreamEnds ==
  /\ strm.pc \in {"drain", "backoff"} /\ Closed
  /\ strm' = [strm EXCEPT !.pc = "ended"]
  /\ UNCHANGED <<core, chan, sender, inbox, target, faults>>

\* ReplicationCore::main takes the next action.  Entries are read from the log
\* store, which may return fewer than asked for, and sent in a request.
SendLogEntries ==
  /\ strm.pc = "act" /\ strm.next_action.kind \in {"committed", "logs"}
  /\ LET d    == strm.next_action
         prev == IF d.kind = "logs" THEN d.prev ELSE strm.matching
         last == IF d.kind = "logs" THEN d.last ELSE strm.matching
     IN  \E read \in (IF prev = last THEN {prev} ELSE (prev + 1)..last) :
           strm' = [strm EXCEPT !.pc = "rpc", !.next_action = NoAction, !.rest = last,
                                !.rpc = [kind |-> d.kind, prev |-> prev, last |-> read]]
  /\ UNCHANGED <<core, chan, sender, inbox, target, faults>>

\* stream_snapshot: the current snapshot goes to a task of its own.
StreamSnapshot ==
  /\ strm.pc = "act" /\ strm.next_action.kind = "snapshot"
  /\ strm' = [strm EXCEPT !.pc = "drain", !.next_action = NoAction, !.backoff = FALSE, !.sending = TRUE]
  /\ sender' = sender \cup {[session |-> strm.session, end |-> core.snapshot]}
  /\ UNCHANGED <<core, chan, inbox, target, faults>>

\* A result for the core.  It stands for the HeartbeatProgress that is sent
\* before it as well, which only moves the leader's clock.
Notification(res, at, payload) ==
  [res |-> res, at |-> at, payload |-> payload, session |-> strm.session]

\* drain_events_with_backoff.
Rests(backoff) == IF backoff THEN "backoff" ELSE "drain"

\* An action succeeded: a notification goes out, and there may be more to send.
Succeeded(matching, next, out) ==
  strm' = [strm EXCEPT !.pc = IF out = <<>> THEN "drain" ELSE "notify",
                       !.matching = matching, !.next_action = next,
                       !.backoff = FALSE, !.rpc = NoAction, !.rest = 0, !.out = out]

\* An RPC error: the core is told if it waits for a result.  Only an
\* unreachable target starts a backoff.
RpcError(d, unreachable) ==
  strm' = [strm EXCEPT !.pc = IF has_payload(d) THEN "notify" ELSE Rests(strm.backoff \/ unreachable),
                       !.next_action = NoAction, !.rpc = NoAction, !.rest = 0,
                       !.backoff = @ \/ unreachable, !.sending = IF d.kind = "callback" THEN FALSE ELSE @,
                       !.out = IF has_payload(d) THEN <<Notification("error", 0, TRUE)>> ELSE <<>>]

\* A higher vote ends the stream once the core is told.
SeesHigherVote ==
  strm' = [strm EXCEPT !.pc = "notify", !.rpc = NoAction, !.rest = 0, !.next_action = NoAction,
                       !.out = <<Notification("higher", 0, FALSE)>>]

\* The target has the entry before the request's, or reports a conflict.
Answered ==
  /\ strm.pc = "rpc"
  /\ LET r == strm.rpc
         payload == has_payload(r)
     IN  IF r.prev <= target
         THEN /\ target' = Max({target, r.last})
              /\ IF payload
                 THEN Succeeded(r.last, Logs(r.last, strm.rest), <<Notification("matching", r.last, TRUE)>>)
                 ELSE Succeeded(strm.matching, NoAction, <<>>)
         ELSE /\ target' = target
              /\ Succeeded(strm.matching, NoAction, <<Notification("conflict", r.prev, payload)>>)
  /\ UNCHANGED <<core, chan, sender, inbox, faults>>

\* PartialSuccess: the network sent only some of the entries.
AnsweredInPart ==
  /\ strm.pc = "rpc" /\ has_payload(strm.rpc) /\ strm.rpc.prev <= target /\ faults < MaxFaults
  /\ \E upto \in Max({strm.rpc.prev, 1})..(strm.rpc.last - 1) :
       /\ target' = Max({target, upto})
       /\ Succeeded(upto, Logs(upto, strm.rest), <<Notification("matching", upto, TRUE)>>)
  /\ faults' = faults + 1
  /\ UNCHANGED <<core, chan, sender, inbox>>

\* A timeout, a network error or an unreachable target, before or after the
\* request got there.
RpcFails ==
  /\ strm.pc = "rpc" /\ faults < MaxFaults
  /\ target' \in {target} \cup (IF strm.rpc.prev <= target THEN {Max({target, strm.rpc.last})} ELSE {})
  /\ \E unreachable \in BOOLEAN : RpcError(strm.rpc, unreachable)
  /\ faults' = faults + 1
  /\ UNCHANGED <<core, chan, sender, inbox>>

HigherVote ==
  /\ strm.pc = "rpc" /\ faults < MaxFaults
  /\ SeesHigherVote
  /\ faults' = faults + 1
  /\ UNCHANGED <<core, chan, sender, inbox, target>>

\* A notification waits for room in the channel, also when the core waits for
\* this task.
Notify ==
  /\ strm.pc = "notify" /\ Len(inbox) < Capacity
  /\ inbox' = inbox \o strm.out
  /\ strm' = [strm EXCEPT !.out = <<>>,
                          !.pc = IF Head(strm.out).res = "higher" THEN "ended" ELSE Rests(strm.backoff)]
  /\ UNCHANGED <<core, chan, sender, target, faults>>

\* The task of a snapshot can still reach the stream that started it.
Live(s) == s.session = strm.session /\ strm.pc # "ended" /\ ~Closed

\* send_snapshot is over: the result is an event for the stream, unless that
\* is gone.  A task whose stream is gone is cancelled, at any point.
SnapshotSent ==
  \E s \in sender, result \in {"ok", "lost", "higher"} :
    /\ result = "ok" \/ ~SnapshotRpc \/ faults < MaxFaults \/ ~Live(s)
    /\ SnapshotRpc \/ result = "lost"
    /\ sender' = sender \ {s}
    /\ target' \in (IF result = "ok" THEN {} ELSE {target})
                 \cup (IF SnapshotRpc /\ result # "higher" THEN {Max({target, s.end})} ELSE {})
    /\ chan' = IF ~Live(s) THEN chan
               ELSE Append(chan, Callback(CASE result = "ok" -> s.end [] result = "lost" -> 0 [] OTHER -> -1))
    /\ faults' = IF result = "ok" \/ ~SnapshotRpc \/ ~Live(s) THEN faults ELSE faults + 1
    /\ UNCHANGED <<core, strm, inbox>>

\* handle_snapshot_callback.
HandleSnapshotCallback ==
  /\ strm.pc = "act" /\ strm.next_action.kind = "callback"
  /\ LET end == strm.next_action.last IN
       CASE end = 0  -> \E unreachable \in BOOLEAN : RpcError(strm.next_action, unreachable)
         [] end = -1 -> SeesHigherVote
         [] OTHER    -> strm' = [strm EXCEPT !.pc = "notify", !.matching = end, !.next_action = NoAction,
                                   !.backoff = FALSE, !.sending = FALSE,
                                   !.out = <<Notification("matching", end, TRUE)>>]
  /\ UNCHANGED <<core, chan, sender, inbox, target, faults>>

\* The heartbeat worker, whose request names the committed entry as the one
\* before, meets a target that does not have it.  Only a heartbeat that no
\* transfer overtakes is here; RaftCluster has the others.
Heartbeat ==
  /\ CoreRuns /\ core.replicates /\ core.e.inflight = NoInflight /\ target < core.committed
  /\ strm.pc = "drain" /\ chan = <<>> /\ inbox = <<>>
  /\ inbox' = <<[res |-> "conflict", at |-> core.committed, payload |-> FALSE, session |-> core.session]>>
  /\ UNCHANGED <<core, chan, strm, sender, target, faults>>

\* A node that has been removed starts again with an empty disk.
Wipe ==
  /\ ~core.replicates /\ ~core.joining /\ target > 0
  /\ target' = 0
  /\ UNCHANGED <<core, chan, strm, sender, inbox, faults>>

-----------------------------------------------------------------------------
\* A new leader: its log ends with its own blank entry, some of it may be
\* purged, the target has some of it, and the progress entry knows nothing.
\* Some of the faults and changes it may meet are spent already.
StreamInit(spent, changes) ==
  /\ \E last \in 1..2, have \in 0..MaxLast, purged \in 0..1 :
       LET c == [leads |-> TRUE, joining |-> FALSE, replicates |-> TRUE, session |-> 1, changes |-> changes,
                 last |-> last, committed |-> purged, snapshot |-> purged, purge_upto |-> purged,
                 purged |-> purged, e |-> EmptyEntry(last)]
       IN  /\ have < last /\ purged < last
           /\ core = initiate_replication(c)
           /\ chan = SelectSeq(<<initiate_replication(c).e.inflight>>, has_payload)
           /\ target = have
  /\ strm = NewStream(1, 0) /\ sender = {} /\ inbox = <<>> /\ faults = spent

LeaderNext ==
  \/ Write \/ Commit \/ SnapshotBuilt \/ LeaderHandlesNotification \/ ChangeTarget \/ Joined

StreamTask ==
  \/ Backoff \/ DrainEvents \/ StreamEnds \/ SendLogEntries \/ StreamSnapshot
  \/ Answered \/ AnsweredInPart \/ RpcFails \/ HigherVote
  \/ Notify \/ HandleSnapshotCallback

StreamNext == LeaderNext \/ StreamTask \/ SnapshotSent \/ Heartbeat \/ Wipe

\* When the core, the task of the stream and the heartbeat have nothing to do.
CoreIdle == ~CoreRuns \/ inbox = <<>>

TaskIdle ==
  \/ strm.pc = "ended"
  \/ strm.pc = "drain" /\ ~Closed /\ strm.next_action = NoAction /\ chan = <<>>
  \/ strm.pc = "notify" /\ Len(inbox) = Capacity

HeartbeatIdle ==
  ~(/\ CoreRuns /\ core.replicates /\ core.e.inflight = NoInflight /\ target < core.committed
    /\ strm.pc = "drain" /\ chan = <<>> /\ inbox = <<>>)

-----------------------------------------------------------------------------
\* The type of the state, the order of the leader's numbers, and what
\* ProgressEntry::validate asserts of the entry (but for the end of the
\* search, which a heartbeat's conflict can move before an inflight range).
StreamTypeOK ==
  /\ {core.leads, core.joining, core.replicates} \subseteq BOOLEAN
  /\ core.purged <= core.purge_upto /\ core.purge_upto <= core.snapshot
  /\ core.snapshot <= core.committed /\ core.committed <= core.last /\ core.last <= MaxLast
  /\ core.e.matching <= core.e.searching_end /\ core.e.searching_end <= core.last
  /\ core.e.inflight.kind = "logs" =>
       /\ core.e.matching <= core.e.inflight.prev /\ core.e.inflight.prev < core.e.inflight.last
  /\ strm.pc \in {"drain", "backoff", "act", "rpc", "notify", "ended"}
  /\ target \in 0..MaxLast /\ faults \in 0..MaxFaults /\ Len(inbox) <= Capacity

\* The entries that the stream is about to read are in the log: a purge waits
\* for the range that is inflight (is_log_range_inflight), and a range that is
\* chosen while a purge waits starts behind it (next_send).
EntriesAreThere ==
  /\ strm.pc # "ended" /\ strm.next_action.kind = "logs" => strm.next_action.prev >= core.purged
  /\ ~core.joining => \A i \in DOMAIN chan : chan[i].kind = "logs" => chan[i].prev >= core.purged

Unseen == inbox \o strm.out

\* What the stream does for the core, and results the core has not seen.
Transfers ==
  Cardinality({s \in sender : Live(s)}) + Len(SelectSeq(chan, has_payload))
  + Len(SelectSeq(<<strm.next_action, strm.rpc>>, has_payload))

Results ==
  {i \in DOMAIN Unseen : Unseen[i].payload /\ Unseen[i].session = core.session}

\* The core's inflight record and the stream agree: at most one transfer
\* with a payload is under way (the assertions of process_event), there is
\* none when the core thinks so, and while the core waits a transfer is under
\* way or its result is on the way, through chunks, errors, snapshots and
\* the replacement of the stream.
InflightIsAccountedFor ==
  CoreRuns /\ core.replicates /\ (\A i \in DOMAIN Unseen : Unseen[i].res # "higher") =>
    /\ Transfers <= 1
    /\ (core.e.inflight = NoInflight) <=> (Transfers = 0 /\ Results = {})
    /\ strm.sending => \A i \in DOMAIN chan : chan[i].kind \in {"committed", "callback"}

\* What the leader counts as matching is in the target's log, although results
\* of a stream that was replaced are still queued and a node may have been
\* removed, emptied and added again meanwhile.
MatchingIsHeld == core.leads /\ core.replicates => core.e.matching <= target

\* Once nothing more is written, a target that stays gets the leader's whole
\* log, by entries or by a snapshot, whatever fails on the way and however
\* often the stream is replaced.  (The leader may not know it: when the log is
\* purged to its end there is nothing left to ask the target with.)
TargetCatchesUp ==
  <>[](core.leads /\ core.replicates => target = core.last)

\* A purge that waits for a transfer is done when that ends, also when the
\* transfer fails or its stream is replaced (update_progress).  Only when the
\* last target is removed does it wait for the next snapshot.
PurgeIsDone == <>[](core.leads /\ core.replicates => core.purged = core.purge_upto)

=============================================================================
